---------------------------- MODULE ToolsProofs ----------------------------
(* Proofs about the tools that read the graph, for every index, every      *)
(* request and every order of the rows: the answers of the searches are    *)
(* what they mean (SearchesAreExactAlways), the lists are complete however *)
(* they are paged (PagesAreCompleteAlways, StatementsFitAlways and         *)
(* ListsAreWholeAlways), and callers_approx covers the calls that could be *)
(* meant (CandidatesCoverCallsAlways).                                     *)
(*                                                                         *)
(* SearchInv is the inductive invariant of the searches: a form for each   *)
(* of them, built on Level for impact_of and subgraph, Reached for         *)
(* detect_changes, and Bfs for shortest_path.  PagesInv is the one of the  *)
(* lists.  Some hypotheses are about the constants: Uncrossed, about the   *)
(* requests for lists, and SelfIsExplicit, about languages.                *)
(***************************************************************************)
EXTENDS Listings, FiniteSetTheorems, SequenceTheorems, WellFoundedInduction, TLAPS

(* Induction over a set of numbers: a set that has 0 and with each number  *)
(* the next one has them all.                                              *)
LEMMA Induction ==
  ASSUME NEW S, 0 \in S, \A n \in Nat : n \in S => n + 1 \in S
  PROVE  \A n \in Nat : n \in S
<1> DEFINE Upto(k) == 0 .. k
           B == {k \in Nat : k \notin S}
           F == {Upto(k) : k \in B}
           R == StrictSubsetOrdering(Nat)
<1> SUFFICES ASSUME B # {} PROVE FALSE
  OBVIOUS
<1>1. F \subseteq FiniteSubsetsOf(Nat) /\ F # {}
  <2>1. \A k \in B : IsFiniteSet(0 .. k) /\ 0 .. k \subseteq Nat
    BY FS_Interval
  <2>2. \A k \in B : Upto(k) \in FiniteSubsetsOf(Nat)
    BY <2>1 DEF FiniteSubsetsOf
  <2> QED BY <2>2
<1>2. \E x \in F : \A y \in F : <<y, x>> \notin R
  <2>1. IsWellFoundedOn(R, FiniteSubsetsOf(Nat))
    BY FS_StrictSubsetOrderingWellFounded
  <2> HIDE DEF R, F
  <2> QED BY <1>1, <2>1, WFMin
<1>3. PICK k \in B : \A j \in B : <<Upto(j), Upto(k)>> \notin R
  BY <1>2
<1>4. k # 0 /\ k - 1 \in Nat /\ (k - 1) + 1 = k
  OBVIOUS
<1>5. k - 1 \in B
  BY <1>4
<1>6. /\ Upto(k - 1) \subseteq Upto(k) /\ k \in Upto(k) /\ k \notin Upto(k - 1)
      /\ Upto(k) \subseteq Nat
  OBVIOUS
<1> HIDE DEF Upto, B
<1>7. <<Upto(k - 1), Upto(k)>> \in R
  BY <1>6 DEF StrictSubsetOrdering
<1> QED BY <1>3, <1>5, <1>7

(* The same up to a bound.                                                 *)
LEMMA InductionUpto ==
  ASSUME NEW S, NEW m \in Nat, 0 \in S,
         \A n \in 0 .. m - 1 : n \in S => n + 1 \in S
  PROVE  \A n \in 0 .. m : n \in S
<1> DEFINE T == {n \in Nat : n <= m => n \in S}
<1>1. 0 \in T
  OBVIOUS
<1>2. ASSUME NEW n \in Nat, n \in T PROVE n + 1 \in T
  <2>1. CASE n + 1 <= m
    <3>1. n \in 0 .. m - 1 /\ n \in S BY <1>2, <2>1
    <3> QED BY <3>1
  <2> QED BY <2>1
<1>3. \A n \in Nat : n \in T
  <2> HIDE DEF T
  <2> QED BY <1>1, <1>2, Induction
<1> QED BY <1>3

(* A set of numbers that is not empty has a least one.                     *)
LEMMA Least ==
  ASSUME NEW S, S \subseteq Nat, S # {}
  PROVE  \E k \in S : \A j \in S : k <= j
<1> DEFINE T == {n \in Nat : \A j \in S : n <= j}
<1> SUFFICES ASSUME \A k \in S : k \notin T PROVE FALSE
  OBVIOUS
<1>1. 0 \in T OBVIOUS
<1>2. ASSUME NEW n \in Nat, n \in T PROVE n + 1 \in T
  <2>1. n \notin S BY <1>2
  <2> QED BY <1>2, <2>1
<1>3. \A n \in Nat : n \in T
  <2> HIDE DEF T
  <2> QED BY <1>1, <1>2, Induction
<1>4. PICK k \in S : TRUE OBVIOUS
<1> QED BY <1>3, <1>4

(* The values of a function on a finite set are finitely many.             *)
LEMMA FiniteImage ==
  ASSUME NEW f, IsFiniteSet(DOMAIN f)
  PROVE  /\ IsFiniteSet({f[x] : x \in DOMAIN f})
         /\ Cardinality({f[x] : x \in DOMAIN f}) <= Cardinality(DOMAIN f)
<1> DEFINE T == {f[x] : x \in DOMAIN f}
           g == [x \in DOMAIN f |-> f[x]]
<1>1. g \in Surjection(DOMAIN f, T)
  BY DEF Surjection
<1> HIDE DEF g
<1> QED BY <1>1, FS_Surjection

-----------------------------------------------------------------------------
(* Rows in the order of a relation.                                        *)

StrictOrder(R, S) ==
  /\ \A x \in S : <<x, x>> \notin R
  /\ \A x, y \in S : x # y => <<x, y>> \in R \/ <<y, x>> \in R
  /\ \A x, y, z \in S : <<x, y>> \in R /\ <<y, z>> \in R => <<x, z>> \in R

Below(R, S, r) == {x \in S : <<x, r>> \in R}

Placed(p, S, R) ==
  /\ p = [i \in 1 .. Cardinality(S) |-> p[i]]
  /\ \A i \in 1 .. Cardinality(S) :
       (\E r \in S : Cardinality(Below(R, S, r)) = i - 1) =>
         p[i] \in S /\ Cardinality(Below(R, S, p[i])) = i - 1

(* Rows of which each has as many before it as its place says are all of   *)
(* them, in order.                                                         *)
LEMMA Sorted ==
  ASSUME NEW S, IsFiniteSet(S), NEW R, StrictOrder(R, S),
         NEW p, Placed(p, S, R)
  PROVE  /\ p \in Seq(S) /\ Len(p) = Cardinality(S)
         /\ ToSet(p) = S
         /\ \A i, j \in 1 .. Cardinality(S) : i < j => <<p[i], p[j]>> \in R
<1> DEFINE below(r) == {x \in S : <<x, r>> \in R}
           n == Cardinality(S)
           f == [r \in S |-> Cardinality(below(r))]
<1>1. n \in Nat BY FS_CardinalityType
<1>2. \A r \in S : /\ IsFiniteSet(below(r)) /\ Cardinality(below(r)) \in Nat
                   /\ Cardinality(below(r)) < n
  <2> TAKE r \in S
  <2>1. below(r) \in SUBSET S /\ below(r) # S BY DEF StrictOrder
  <2>2. IsFiniteSet(below(r)) /\ Cardinality(below(r)) <= n /\ Cardinality(below(r)) # n
    <3> HIDE DEF below
    <3> QED BY <2>1, FS_Subset
  <2>3. Cardinality(below(r)) \in Nat BY <2>2, FS_CardinalityType
  <2> QED BY <1>1, <2>2, <2>3
<1>3. \A x, y \in S : <<x, y>> \in R => f[x] < f[y]
  <2> SUFFICES ASSUME NEW x \in S, NEW y \in S, <<x, y>> \in R PROVE f[x] < f[y]
    OBVIOUS
  <2>1. below(x) \subseteq below(y) /\ x \in below(y) /\ x \notin below(x)
    BY DEF StrictOrder
  <2>2. /\ IsFiniteSet(below(y)) /\ below(x) \in SUBSET below(y) /\ below(x) # below(y)
    BY <1>2, <2>1
  <2>3. Cardinality(below(x)) <= Cardinality(below(y))
          /\ Cardinality(below(x)) # Cardinality(below(y))
    <3> HIDE DEF below
    <3> QED BY <2>2, FS_Subset
  <2> QED BY <1>2, <2>3
<1>4. f \in [S -> 0 .. n - 1]
  <2> HIDE DEF below, n
  <2> QED BY <1>1, <1>2
<1>5. \A x, y \in S : f[x] = f[y] => x = y
  <2> SUFFICES ASSUME NEW x \in S, NEW y \in S, f[x] = f[y], x # y PROVE FALSE
    OBVIOUS
  <2>1. f[x] \in Int /\ f[y] \in Int BY <1>4
  <2>2. <<x, y>> \in R \/ <<y, x>> \in R BY DEF StrictOrder
  <2> HIDE DEF f
  <2> QED BY <1>3, <2>1, <2>2
<1>6. f \in Surjection(S, 0 .. n - 1)
  <2> HIDE DEF f
  <2>1. f \in Injection(S, 0 .. n - 1) BY <1>4, <1>5 DEF Injection, IsInjective
  <2>2. IsFiniteSet(0 .. n - 1) /\ Cardinality(0 .. n - 1) = n
    BY <1>1, FS_Interval
  <2> QED BY <2>1, <2>2, FS_Injection
<1>7. ASSUME NEW i \in 1 .. n PROVE p[i] \in S /\ f[p[i]] = i - 1
  <2>1. i - 1 \in 0 .. n - 1 BY <1>1
  <2>2. \E r \in S : f[r] = i - 1
    <3> HIDE DEF f
    <3> QED BY <1>6, <2>1 DEF Surjection
  <2>3. \E r \in S : Cardinality(Below(R, S, r)) = i - 1
    BY <2>2 DEF Below
  <2>4. p[i] \in S /\ Cardinality(Below(R, S, p[i])) = i - 1
    <3> HIDE DEF f, n
    <3> QED BY <2>3 DEF n, Placed
  <2> QED BY <2>4 DEF Below
<1>8. DOMAIN p = 1 .. n
  BY DEF Placed
<1>9. p \in [1 .. n -> S]
  <2>1. p = [i \in 1 .. n |-> p[i]] BY DEF Placed
  <2> HIDE DEF f, n, below
  <2> QED BY <1>7, <2>1
<1> HIDE DEF f, below, n
<1>10. p \in Seq(S) /\ Len(p) = n BY <1>1, <1>9
<1>11. ASSUME NEW x \in S PROVE \E i \in 1 .. n : p[i] = x
  <2>1. f[x] \in 0 .. n - 1 BY <1>4
  <2>2. f[x] + 1 \in 1 .. n /\ (f[x] + 1) - 1 = f[x] BY <1>1, <2>1
  <2> QED BY <1>5, <1>7, <2>2
<1>12. ToSet(p) = S
  BY <1>7, <1>8, <1>11 DEF ToSet
<1>13. ASSUME NEW i \in 1 .. n, NEW j \in 1 .. n, i < j PROVE <<p[i], p[j]>> \in R
  <2>1. p[i] \in S /\ p[j] \in S /\ f[p[i]] = i - 1 /\ f[p[j]] = j - 1 BY <1>7
  <2>2. p[i] # p[j] /\ ~(f[p[j]] < f[p[i]]) BY <1>1, <1>13, <2>1
  <2> QED BY <1>3, <2>1, <2>2 DEF StrictOrder
<1> QED BY <1>10, <1>12, <1>13 DEF n

(* The recursive function exists.                                          *)
LEMMA WithinIs ==
  ASSUME NEW S, NEW R, NEW k \in Nat
  PROVE  Within(S, R, k) =
           [i \in 0 .. k |-> IF i = 0 THEN S
                             ELSE Within(S, R, k)[i - 1] \union Image(R, Within(S, R, k)[i - 1])]
<1> DEFINE Next_(b) == b \union Image(R, b)
           Is(b, m) == b = [i \in 0 .. m |-> IF i = 0 THEN S ELSE Next_(b[i - 1])]
           T == {m \in Nat : \E b : Is(b, m)}
<1>1. 0 \in T
  <2> DEFINE b == [i \in 0 .. 0 |-> S]
  <2>1. b = [i \in 0 .. 0 |-> IF i = 0 THEN S ELSE Next_(b[i - 1])]
    <3> HIDE DEF Next_
    <3> QED OBVIOUS
  <2> HIDE DEF Next_, b
  <2> QED BY <2>1
<1>2. ASSUME NEW m \in Nat, m \in T PROVE m + 1 \in T
  <2>1. PICK b : Is(b, m) BY <1>2
  <2> DEFINE c == [i \in 0 .. m + 1 |-> IF i <= m THEN b[i] ELSE Next_(b[m])]
             e(i) == IF i = 0 THEN S ELSE Next_(c[i - 1])
  <2>2. ASSUME NEW i \in 0 .. m + 1 PROVE c[i] = e(i)
    <3>1. CASE i = 0
      <4> HIDE DEF Next_
      <4> QED BY <2>1, <3>1
    <3>2. CASE i # 0 /\ i <= m
      <4>1. c[i] = b[i] /\ c[i - 1] = b[i - 1] /\ i \in 0 .. m BY <3>2
      <4> HIDE DEF Next_, c
      <4>2. b[i] = Next_(b[i - 1]) BY <2>1, <3>2, <4>1
      <4> QED BY <3>2, <4>1, <4>2
    <3>3. CASE i = m + 1
      <4>1. c[i] = Next_(b[m]) /\ c[i - 1] = b[m]
        <5> HIDE DEF Next_
        <5> QED BY <3>3
      <4> HIDE DEF Next_, c
      <4> QED BY <3>3, <4>1
    <3> QED BY <3>1, <3>2, <3>3
  <2>3. c = [i \in 0 .. m + 1 |-> c[i]] BY DEF c
  <2> HIDE DEF c, Next_
  <2>4. Is(c, m + 1) BY <2>2, <2>3
  <2> QED BY <2>4
<1>3. \A m \in Nat : m \in T
  <2> HIDE DEF T
  <2> QED BY <1>1, <1>2, Induction
<1>4. \E b : Is(b, k) BY <1>3
<1>5. Within(S, R, k) = CHOOSE b : Is(b, k) BY DEF Within
<1>6. Is(Within(S, R, k), k)
  <2> HIDE DEF Is
  <2> QED BY <1>4, <1>5
<1> QED BY <1>6

(* Within begins with S, each of its sets adds the image of the one        *)
(* before, and so they grow.                                               *)
LEMMA BallsGrow ==
  ASSUME NEW S, NEW R, NEW k \in Nat
  PROVE  /\ Within(S, R, k)[0] = S
         /\ \A i \in 1 .. k : Within(S, R, k)[i] =
              Within(S, R, k)[i - 1] \union Image(R, Within(S, R, k)[i - 1])
         /\ \A i, j \in 0 .. k : i <= j => Within(S, R, k)[i] \subseteq Within(S, R, k)[j]
<1> DEFINE b == Within(S, R, k)
<1>1. b[0] = S BY WithinIs
<1>2. \A i \in 1 .. k : b[i] = b[i - 1] \union Image(R, b[i - 1])
  <2> TAKE i \in 1 .. k
  <2>1. i \in 0 .. k /\ i # 0 OBVIOUS
  <2>2. b[i] = IF i = 0 THEN S ELSE b[i - 1] \union Image(R, b[i - 1])
    BY <2>1, WithinIs
  <2> QED BY <2>1, <2>2
<1> HIDE DEF b
<1>3. ASSUME NEW i \in 0 .. k PROVE \A j \in 0 .. k : i <= j => b[i] \subseteq b[j]
  <2> DEFINE T == {j \in 0 .. k : i <= j => b[i] \subseteq b[j]}
  <2>1. 0 \in T BY <1>3
  <2>2. ASSUME NEW j \in 0 .. k - 1, j \in T PROVE j + 1 \in T
    <3>1. j + 1 \in 1 .. k /\ (j + 1) - 1 = j OBVIOUS
    <3>2. b[j] \subseteq b[j + 1] BY <1>2, <3>1
    <3>3. CASE i <= j BY <2>2, <3>1, <3>2, <3>3
    <3>4. CASE i = j + 1 BY <3>1, <3>4
    <3>5. CASE i > j + 1 BY <3>1, <3>5
    <3> QED BY <3>3, <3>4, <3>5
  <2>3. \A j \in 0 .. k : j \in T
    <3> HIDE DEF T
    <3> QED BY <2>1, <2>2, InductionUpto
  <2> QED BY <2>3
<1> QED BY <1>1, <1>2, <1>3 DEF b

(* Where a step adds nothing, no later one does.                           *)
LEMMA BallsEnd ==
  ASSUME NEW S, NEW R, NEW k \in Nat, NEW i \in 0 .. k,
         Image(R, Within(S, R, k)[i]) \subseteq Within(S, R, k)[i]
  PROVE  \A j \in i .. k : Within(S, R, k)[j] = Within(S, R, k)[i]
<1> DEFINE b == Within(S, R, k)
           T == {j \in 0 .. k : j >= i => b[j] = b[i]}
<1>1. \A j \in 1 .. k : b[j] = b[j - 1] \union Image(R, b[j - 1])
  BY BallsGrow
<1>2. Image(R, b[i]) \subseteq b[i] OBVIOUS
<1> HIDE DEF b
<1>3. 0 \in T OBVIOUS
<1>4. ASSUME NEW j \in 0 .. k - 1, j \in T PROVE j + 1 \in T
  <2>1. j + 1 \in 1 .. k /\ (j + 1) - 1 = j OBVIOUS
  <2>2. b[j + 1] = b[j] \union Image(R, b[j]) BY <1>1, <2>1
  <2>3. CASE j >= i
    <3>1. b[j] = b[i] BY <1>4, <2>3
    <3>2. b[j + 1] = b[i] BY <1>2, <2>2, <3>1
    <3> QED BY <2>1, <3>2
  <2>4. CASE i = j + 1 BY <2>1, <2>4
  <2>5. CASE i > j + 1 BY <2>1, <2>5
  <2> QED BY <2>3, <2>4, <2>5
<1>5. \A j \in 0 .. k : j \in T
  <2> HIDE DEF T
  <2> QED BY <1>3, <1>4, InductionUpto
<1>6. \A j \in i .. k : j \in 0 .. k /\ j >= i OBVIOUS
<1> QED BY <1>5, <1>6 DEF b

(* What is closed under the relation holds every ball.                     *)
LEMMA ClosedHolds ==
  ASSUME NEW S, NEW R, NEW k \in Nat, NEW C, S \subseteq C,
         \A p \in R : p[1] \in C => p[2] \in C
  PROVE  \A j \in 0 .. k : Within(S, R, k)[j] \subseteq C
<1> DEFINE b == Within(S, R, k)
           T == {j \in 0 .. k : b[j] \subseteq C}
<1>1. b[0] = S /\ \A j \in 1 .. k : b[j] = b[j - 1] \union Image(R, b[j - 1])
  BY BallsGrow
<1> HIDE DEF b
<1>3. 0 \in T BY <1>1
<1>4. ASSUME NEW j \in 0 .. k - 1, j \in T PROVE j + 1 \in T
  <2>1. j + 1 \in 1 .. k /\ (j + 1) - 1 = j OBVIOUS
  <2>2. b[j + 1] = b[j] \union Image(R, b[j]) BY <1>1, <2>1
  <2>3. Image(R, b[j]) \subseteq C BY <1>4 DEF Image
  <2> QED BY <1>4, <2>1, <2>2, <2>3
<1>5. \A j \in 0 .. k : j \in T
  <2> HIDE DEF T
  <2> QED BY <1>3, <1>4, InductionUpto
<1> QED BY <1>5 DEF b

(* A sequence, of whatever its elements are.                               *)
IsSeq(s) == s \in Seq(ToSet(s))

LEMMA SeqIsSeq ==
  ASSUME NEW S, NEW s \in Seq(S)
  PROVE  /\ IsSeq(s) /\ ToSet(s) = {s[i] : i \in 1 .. Len(s)} /\ Len(s) \in Nat
         /\ DOMAIN s = 1 .. Len(s) /\ ToSet(s) \subseteq S
<1>1. DOMAIN s = 1 .. Len(s) /\ Len(s) \in Nat /\ ToSet(s) = {s[i] : i \in 1 .. Len(s)}
  BY DEF ToSet
<1>3. IsSeq(s) BY SeqOfRange DEF IsSeq, ToSet, Range
<1>4. ToSet(s) \subseteq S BY <1>1, ElementOfSeq
<1> QED BY <1>1, <1>3, <1>4

LEMMA EmptyIsSeq == IsSeq(<<>>) /\ ToSet(<<>>) = {} /\ Len(<<>>) = 0
BY DEF IsSeq, ToSet

LEMMA AppendIsSeq ==
  ASSUME NEW s, IsSeq(s), NEW x
  PROVE  /\ IsSeq(Append(s, x)) /\ ToSet(Append(s, x)) = ToSet(s) \union {x}
         /\ Len(Append(s, x)) = Len(s) + 1 /\ Append(s, x) # <<>>
         /\ \A i \in 1 .. Len(s) : Append(s, x)[i] = s[i]
         /\ Append(s, x)[Len(s) + 1] = x
<1> DEFINE S == ToSet(s) \union {x}
           t == Append(s, x)
<1>1. s \in Seq(S) /\ x \in S
  BY SeqMonotonic DEF IsSeq
<1>2. /\ t \in Seq(S) /\ t # <<>> /\ Len(t) = Len(s) + 1
      /\ \A i \in 1 .. Len(s) : t[i] = s[i]
      /\ t[Len(s) + 1] = x
  BY <1>1, AppendProperties
<1>3. /\ ToSet(s) = {s[i] : i \in 1 .. Len(s)} /\ Len(s) \in Nat
      /\ ToSet(t) = {t[i] : i \in 1 .. Len(t)} /\ IsSeq(t)
  BY <1>1, <1>2, SeqIsSeq
<1>4. ToSet(t) = S
  <2> HIDE DEF t
  <2>1. \A i \in 1 .. Len(t) : i \in 1 .. Len(s) \/ i = Len(s) + 1
    BY <1>2, <1>3
  <2>2. \A i \in 1 .. Len(s) : i \in 1 .. Len(t)
    BY <1>2, <1>3
  <2>3. Len(s) + 1 \in 1 .. Len(t) BY <1>2, <1>3
  <2> QED BY <1>2, <1>3, <2>1, <2>2, <2>3
<1> QED BY <1>2, <1>3, <1>4

LEMMA TailIsSeq ==
  ASSUME NEW s, IsSeq(s), s # <<>>
  PROVE  /\ IsSeq(Tail(s)) /\ ToSet(s) = {Head(s)} \union ToSet(Tail(s))
         /\ Len(Tail(s)) = Len(s) - 1
<1> DEFINE t == Tail(s)
<1>1. s \in Seq(ToSet(s)) BY DEF IsSeq
<1>2. /\ t \in Seq(ToSet(s)) /\ Len(t) = Len(s) - 1 /\ Len(s) \in Nat \ {0}
      /\ \A i \in 1 .. Len(t) : t[i] = s[i + 1]
      /\ Head(s) = s[1]
  BY <1>1, HeadTailProperties, EmptySeq
<1>3. /\ ToSet(s) = {s[i] : i \in 1 .. Len(s)}
      /\ ToSet(t) = {t[i] : i \in 1 .. Len(t)} /\ IsSeq(t)
  BY <1>1, <1>2, SeqIsSeq
<1>4. ToSet(s) = {Head(s)} \union ToSet(t)
  <2> HIDE DEF t
  <2>1. \A i \in 1 .. Len(s) : i = 1 \/ (i - 1 \in 1 .. Len(t) /\ t[i - 1] = s[i])
    BY <1>2
  <2>2. \A i \in 1 .. Len(t) : i + 1 \in 1 .. Len(s)
    BY <1>2
  <2>3. 1 \in 1 .. Len(s) BY <1>2
  <2>4. ASSUME NEW x \in ToSet(s) PROVE x = Head(s) \/ x \in ToSet(t)
    BY <1>2, <1>3, <2>1
  <2>5. Head(s) \in ToSet(s) BY <1>2, <1>3, <2>3
  <2>6. ASSUME NEW x \in ToSet(t) PROVE x \in ToSet(s)
    BY <1>2, <1>3, <2>2
  <2> QED BY <2>4, <2>5, <2>6
<1> QED BY <1>2, <1>3, <1>4

-----------------------------------------------------------------------------
(* A walk level by level.  The ball of k steps is seen, its nodes in the   *)
(* frontier are not expanded, but for the first one, of which only the     *)
(* edges to the nodes in todo are not read.                                *)

Level(b, R, depth, k, frontier, next, todo, seen) ==
  /\ k \in Nat /\ (depth = 0 \/ k < depth) /\ (depth = 0 => k = 0 /\ seen = b[0])
  /\ IsSeq(frontier) /\ IsSeq(next)
  /\ b[k] \subseteq seen
  /\ depth > 0 => seen \subseteq b[k + 1]
  /\ ToSet(next) = seen \ b[k]
  /\ ToSet(frontier) \subseteq b[k]
  /\ todo # {} => depth > 0 /\ frontier # <<>>
  /\ todo \subseteq Image(R, {Head(frontier)})
  /\ depth > 0 => \A p \in R : p[1] \in b[k] =>
       \/ p[2] \in seen
       \/ frontier # <<>> /\ p[1] \in ToSet(Tail(frontier))
       \/ frontier # <<>> /\ p[1] = Head(frontier) /\ p[2] \in todo

(* What is left to read is within one step more.                           *)
LEMMA LevelTodo ==
  ASSUME NEW S, NEW R, NEW depth \in Nat, NEW b, b = Within(S, R, depth), NEW k, NEW frontier,
         NEW next, NEW todo, NEW seen,
         Level(b, R, depth, k, frontier, next, todo, seen), NEW y \in todo
  PROVE  /\ k + 1 \in 1 .. depth /\ y \in b[k + 1]
         /\ b[k + 1] \subseteq b[depth]
         /\ \E p \in R : p[1] = Head(frontier) /\ p[2] = y
         /\ Head(frontier) \in b[k]
<1>1. /\ depth > 0 /\ frontier # <<>> /\ k \in Nat /\ k < depth /\ IsSeq(frontier)
      /\ ToSet(frontier) \subseteq b[k] /\ y \in Image(R, {Head(frontier)})
  <2>1. todo # {} OBVIOUS
  <2>2. depth > 0 /\ frontier # <<>> BY <2>1 DEF Level
  <2> QED BY <2>2 DEF Level
<1>2. k + 1 \in 1 .. depth /\ depth \in 0 .. depth /\ k + 1 \in 0 .. depth /\ (k + 1) - 1 = k
  BY <1>1
<1>3. /\ b[k + 1] = b[k] \union Image(R, b[k])
      /\ b[k + 1] \subseteq b[depth]
  BY <1>2, BallsGrow
<1>4. Head(frontier) \in ToSet(frontier) BY <1>1, TailIsSeq
<1>5. PICK p \in R : p[1] = Head(frontier) /\ p[2] = y BY <1>1 DEF Image
<1>6. y \in Image(R, b[k]) BY <1>1, <1>4, <1>5 DEF Image
<1> QED BY <1>1, <1>2, <1>3, <1>4, <1>5, <1>6

(* A row whose node is seen already changes nothing,                       *)
LEMMA LevelKnown ==
  ASSUME NEW S, NEW R, NEW depth \in Nat, NEW b, b = Within(S, R, depth), NEW k, NEW frontier,
         NEW next, NEW todo, NEW seen,
         Level(b, R, depth, k, frontier, next, todo, seen),
         NEW y \in seen, NEW less, less \subseteq todo, todo \ {y} \subseteq less
  PROVE  Level(b, R, depth, k, frontier, next, less, seen)
BY DEF Level

(* a row whose node is new belongs to the next level,                      *)
LEMMA LevelNew ==
  ASSUME NEW S, NEW R, NEW depth \in Nat, NEW b, b = Within(S, R, depth), NEW k, NEW frontier,
         NEW next, NEW todo, NEW seen,
         Level(b, R, depth, k, frontier, next, todo, seen),
         NEW y \in todo, y \notin seen, NEW less, less \subseteq todo, todo \ {y} \subseteq less
  PROVE  Level(b, R, depth, k, frontier, Append(next, y), less, seen \union {y})
<1>1. y \in b[k + 1] /\ k + 1 \in 1 .. depth /\ b[k] \subseteq seen
  <2>1. y \in b[k + 1] /\ k + 1 \in 1 .. depth BY LevelTodo
  <2> QED BY <2>1 DEF Level
<1>2. IsSeq(Append(next, y)) /\ ToSet(Append(next, y)) = ToSet(next) \union {y}
  BY AppendIsSeq DEF Level
<1>3. ToSet(Append(next, y)) = (seen \union {y}) \ b[k] BY <1>2 DEF Level
<1> DEFINE more == Append(next, y)
           all == seen \union {y}
<1>4. all \subseteq b[k + 1] /\ b[k] \subseteq all
  BY <1>1 DEF Level
<1>5. ASSUME NEW p \in R, p[1] \in b[k]
      PROVE  \/ p[2] \in all
             \/ frontier # <<>> /\ p[1] \in ToSet(Tail(frontier))
             \/ frontier # <<>> /\ p[1] = Head(frontier) /\ p[2] \in less
  <2>1. depth > 0 BY <1>1
  <2>2. \/ p[2] \in seen
        \/ frontier # <<>> /\ p[1] \in ToSet(Tail(frontier))
        \/ frontier # <<>> /\ p[1] = Head(frontier) /\ p[2] \in todo
    BY <1>5, <2>1 DEF Level
  <2> QED BY <2>2
<1>6. less \subseteq Image(R, {Head(frontier)}) /\ (less # {} => depth > 0 /\ frontier # <<>>)
  BY DEF Level
<1>7. /\ k \in Nat /\ (depth = 0 \/ k < depth) /\ depth # 0
      /\ IsSeq(frontier) /\ IsSeq(next) /\ ToSet(frontier) \subseteq b[k]
  BY <1>1 DEF Level
<1> HIDE DEF more, all
<1> SUFFICES Level(b, R, depth, k, frontier, more, less, all) BY DEF more, all
<1> QED BY <1>2, <1>3, <1>4, <1>5, <1>6, <1>7 DEF Level, more, all

(* after the last row of a node comes the next one of the frontier,        *)
LEMMA LevelNextNode ==
  ASSUME NEW S, NEW R, NEW depth \in Nat, NEW b, b = Within(S, R, depth), NEW k, NEW frontier,
         NEW next, NEW seen,
         Level(b, R, depth, k, frontier, next, {}, seen),
         frontier # <<>>, Tail(frontier) # <<>>, depth > 0
  PROVE  Level(b, R, depth, k, Tail(frontier), next, Image(R, {Head(Tail(frontier))}), seen)
<1> DEFINE rest == Tail(frontier)
<1>1. IsSeq(rest) /\ ToSet(rest) \subseteq ToSet(frontier)
  BY TailIsSeq DEF Level
<1>2. ToSet(rest) = {Head(rest)} \union ToSet(Tail(rest))
  BY <1>1, TailIsSeq
<1> HIDE DEF rest
<1>3. ASSUME NEW p \in R, p[1] \in b[k]
      PROVE  \/ p[2] \in seen
             \/ p[1] \in ToSet(Tail(rest))
             \/ p[1] = Head(rest) /\ p[2] \in Image(R, {Head(rest)})
  <2>1. p[2] \in seen \/ p[1] \in ToSet(rest) BY <1>3 DEF Level, rest
  <2>2. p[1] = Head(rest) => p[2] \in Image(R, {Head(rest)}) BY DEF Image
  <2> QED BY <1>2, <2>1, <2>2
<1> QED BY <1>1, <1>3 DEF Level, rest

(* The frontier is read: one step more is seen.                            *)
LEMMA LevelRead ==
  ASSUME NEW S, NEW R, NEW depth \in Nat, NEW b, b = Within(S, R, depth), NEW k, NEW frontier,
         NEW next, NEW seen,
         Level(b, R, depth, k, frontier, next, {}, seen),
         frontier = <<>> \/ Tail(frontier) = <<>>, depth > 0
  PROVE  seen = b[k + 1] /\ k + 1 \in 1 .. depth
<1>1. /\ k \in Nat /\ k < depth /\ b[k] \subseteq seen /\ seen \subseteq b[k + 1]
      /\ \A p \in R : p[1] \in b[k] => p[2] \in seen
  BY EmptyIsSeq DEF Level
<1>2. k + 1 \in 1 .. depth /\ (k + 1) - 1 = k BY <1>1
<1>3. b[k + 1] = b[k] \union Image(R, b[k]) BY <1>2, BallsGrow
<1>4. Image(R, b[k]) \subseteq seen BY <1>1 DEF Image
<1> QED BY <1>1, <1>2, <1>3, <1>4

(* and after the last node of a frontier the next frontier.                *)
LEMMA LevelNextLevel ==
  ASSUME NEW S, NEW R, NEW depth \in Nat, NEW b, b = Within(S, R, depth), NEW k, NEW frontier,
         NEW next, NEW seen,
         Level(b, R, depth, k, frontier, next, {}, seen),
         frontier = <<>> \/ Tail(frontier) = <<>>, next # <<>>, k + 1 < depth
  PROVE  Level(b, R, depth, k + 1, next, <<>>, Image(R, {Head(next)}), seen)
<1>1. k \in Nat /\ depth > 0 BY DEF Level
<1>2. seen = b[k + 1] BY <1>1, LevelRead
<1>3. k + 1 \in 0 .. depth /\ (k + 1) + 1 \in 0 .. depth /\ k + 1 <= (k + 1) + 1 BY <1>1
<1>4. b[k + 1] \subseteq b[(k + 1) + 1] BY <1>3, BallsGrow
<1>5. IsSeq(next) /\ ToSet(next) \subseteq seen BY DEF Level
<1>6. ToSet(next) = {Head(next)} \union ToSet(Tail(next)) BY <1>5, TailIsSeq
<1>7. \A p \in R : p[1] = Head(next) => p[2] \in Image(R, {Head(next)}) BY DEF Image
<1>8. \A i \in 1 .. depth : b[i] = b[i - 1] \union Image(R, b[i - 1]) BY BallsGrow
<1>9. ASSUME NEW p \in R, p[1] \in b[k + 1]
      PROVE  \/ p[2] \in seen
             \/ p[1] \in ToSet(Tail(next))
             \/ p[1] = Head(next) /\ p[2] \in Image(R, {Head(next)})
  <2>1. CASE p[1] \in ToSet(next) BY <1>6, <1>7, <2>1
  <2>2. CASE p[1] \notin ToSet(next)
    <3>1. p[1] \in b[k] BY <1>2, <1>9, <2>2 DEF Level
    <3>2. p[2] \in Image(R, b[k]) BY <3>1 DEF Image
    <3>3. k + 1 \in 1 .. depth /\ (k + 1) - 1 = k BY <1>1, <1>3
    <3> QED BY <1>2, <1>8, <3>2, <3>3
  <2> QED BY <2>1, <2>2
<1> DEFINE todo == Image(R, {Head(next)})
           j == k + 1
<1>10. /\ j \in Nat /\ j < depth /\ ~(depth = 0) /\ depth > 0
       /\ b[j] \subseteq seen /\ seen \subseteq b[j + 1]
       /\ ToSet(<<>>) = seen \ b[j] /\ ToSet(next) \subseteq b[j]
       /\ IsSeq(next) /\ IsSeq(<<>>)
  BY <1>1, <1>2, <1>4, <1>5, EmptyIsSeq
<1>11. \A p \in R : p[1] \in b[j] =>
         \/ p[2] \in seen
         \/ next # <<>> /\ p[1] \in ToSet(Tail(next))
         \/ next # <<>> /\ p[1] = Head(next) /\ p[2] \in todo
  BY <1>9
<1> HIDE DEF todo, j
<1>12. Level(b, R, depth, j, next, <<>>, todo, seen)
  BY ONLY <1>10, <1>11, next # <<>>, todo = Image(R, {Head(next)}) DEF Level, todo
<1> QED BY <1>12 DEF todo, j

(* Where no level follows, all that is within the depth is seen.           *)
LEMMA LevelLast ==
  ASSUME NEW S, NEW R, NEW depth \in Nat, NEW b, b = Within(S, R, depth), NEW k, NEW frontier,
         NEW next, NEW seen,
         Level(b, R, depth, k, frontier, next, {}, seen),
         frontier = <<>> \/ Tail(frontier) = <<>> \/ depth = 0,
         next = <<>> \/ k + 1 >= depth
  PROVE  /\ seen = b[depth]
         /\ depth > 0 => b[depth - 1] = b[k]
<1>1. CASE depth = 0
  <2>1. k = 0 /\ b[k] \subseteq seen /\ seen \subseteq b[0] BY <1>1 DEF Level
  <2> QED BY <1>1, <2>1
<1>2. CASE depth > 0 /\ k + 1 >= depth
  <2>1. seen = b[k + 1] /\ k + 1 \in 1 .. depth /\ k \in Nat
    <3>1. frontier = <<>> \/ Tail(frontier) = <<>> BY <1>2
    <3>2. seen = b[k + 1] /\ k + 1 \in 1 .. depth BY <1>2, <3>1, LevelRead
    <3> QED BY <3>2 DEF Level
  <2>2. k + 1 = depth /\ depth - 1 = k BY <1>2, <2>1
  <2> QED BY <2>1, <2>2
<1>3. CASE depth > 0 /\ next = <<>>
  <2>1. seen = b[k + 1] /\ k + 1 \in 1 .. depth /\ k \in 0 .. depth /\ k < depth
    <3>1. frontier = <<>> \/ Tail(frontier) = <<>> BY <1>3
    <3>2. seen = b[k + 1] /\ k + 1 \in 1 .. depth BY <1>3, <3>1, LevelRead
    <3> QED BY <3>2 DEF Level
  <2>2. seen = b[k] BY <1>3, EmptyIsSeq DEF Level
  <2>3. b[k + 1] = b[k] \union Image(R, b[k])
    <3>1. (k + 1) - 1 = k BY <2>1
    <3> QED BY <2>1, <3>1, BallsGrow
  <2>4. Image(R, b[k]) \subseteq b[k] BY <2>1, <2>2, <2>3
  <2>5. \A j \in k .. depth : b[j] = b[k] BY <2>1, <2>4, BallsEnd
  <2>6. depth \in k .. depth /\ depth - 1 \in k .. depth BY <2>1
  <2> QED BY <2>2, <2>5, <2>6
<1> QED BY <1>1, <1>2, <1>3 DEF Level

(* The first level.                                                        *)
LEMMA LevelFirst ==
  ASSUME NEW S, NEW R, NEW depth \in Nat, NEW b, b = Within(S, R, depth), NEW frontier,
         IsSeq(frontier), ToSet(frontier) = S,
         NEW todo, todo = IF depth > 0 /\ frontier # <<>> THEN Image(R, {Head(frontier)}) ELSE {}
  PROVE  Level(b, R, depth, 0, frontier, <<>>, todo, S)
<1>1. b[0] = S /\ 0 \in 0 .. depth BY BallsGrow
<1>2. depth > 0 => S \subseteq b[0 + 1]
  <2> SUFFICES ASSUME depth > 0 PROVE S \subseteq b[0 + 1]
    OBVIOUS
  <2>1. 0 + 1 \in 1 .. depth /\ (0 + 1) - 1 = 0 OBVIOUS
  <2> QED BY <1>1, <2>1, BallsGrow
<1>3. frontier # <<>> => ToSet(frontier) = {Head(frontier)} \union ToSet(Tail(frontier))
  BY TailIsSeq
<1>4. frontier = <<>> => S = {} BY EmptyIsSeq
<1>5. \A p \in R : p[1] = Head(frontier) => p[2] \in Image(R, {Head(frontier)}) BY DEF Image
<1>6. /\ todo # {} => depth > 0 /\ frontier # <<>>
      /\ todo \subseteq Image(R, {Head(frontier)})
      /\ depth > 0 /\ frontier # <<>> => todo = Image(R, {Head(frontier)})
  OBVIOUS
<1>7. ASSUME depth > 0, NEW p \in R, p[1] \in b[0]
      PROVE  \/ p[2] \in S
             \/ frontier # <<>> /\ p[1] \in ToSet(Tail(frontier))
             \/ frontier # <<>> /\ p[1] = Head(frontier) /\ p[2] \in todo
  <2> QED BY <1>1, <1>3, <1>4, <1>5, <1>6, <1>7
<1>8. ToSet(<<>>) = S \ b[0] /\ IsSeq(<<>>) BY <1>1, EmptyIsSeq
<1> DEFINE first == todo
<1>9. /\ first # {} => depth > 0 /\ frontier # <<>>
      /\ first \subseteq Image(R, {Head(frontier)})
      /\ depth > 0 => \A p \in R : p[1] \in b[0] =>
           \/ p[2] \in S
           \/ frontier # <<>> /\ p[1] \in ToSet(Tail(frontier))
           \/ frontier # <<>> /\ p[1] = Head(frontier) /\ p[2] \in first
  BY <1>6, <1>7
<1> HIDE DEF first
<1> DEFINE k == 0
           none == <<>>
<1>10. /\ k \in Nat /\ (depth = 0 \/ k < depth) /\ (depth = 0 => k = 0 /\ S = b[0])
       /\ IsSeq(frontier) /\ IsSeq(none) /\ b[k] \subseteq S
       /\ ToSet(none) = S \ b[k] /\ ToSet(frontier) \subseteq b[k]
       /\ depth > 0 => S \subseteq b[k + 1]
       /\ depth > 0 => \A p \in R : p[1] \in b[k] =>
           \/ p[2] \in S
           \/ frontier # <<>> /\ p[1] \in ToSet(Tail(frontier))
           \/ frontier # <<>> /\ p[1] = Head(frontier) /\ p[2] \in first
  BY <1>1, <1>2, <1>8, <1>9
<1> HIDE DEF k, none
<1>11. Level(b, R, depth, k, frontier, none, first, S)
  BY <1>9, <1>10 DEF Level
<1> QED BY <1>11 DEF first, k, none

-----------------------------------------------------------------------------
(* impact_of.                                                              *)

(* What impact_of follows, and how far it may lead.                        *)
ImpactRel(i, q) ==
  {<<e.dst, e.src>> : e \in {x \in i.edges : x.kind # "contains" /\ x.conf >= q.conf}}

(* The rows that were found: distinct, seen, and each at its distance.     *)
Hits(b, S, depth, found, seen) ==
  /\ IsSeq(found) /\ IsFiniteSet(Found(found)) /\ Distinct(found)
  /\ seen = S \union Found(found) /\ Found(found) \intersect S = {}
  /\ \A r \in ToSet(found) : r.distance \in 1 .. depth
       /\ r.node \in b[r.distance] \ b[r.distance - 1]

LEMMA HitsBegin ==
  ASSUME NEW b, NEW S, NEW depth
  PROVE  Hits(b, S, depth, <<>>, S)
<1>1. Found(<<>>) = {} BY EmptyIsSeq DEF Found
<1> QED BY <1>1, EmptyIsSeq, FS_EmptySet DEF Hits, Distinct

LEMMA HitsAppend ==
  ASSUME NEW b, NEW S, NEW depth, NEW found, NEW seen, Hits(b, S, depth, found, seen),
         NEW h, h.node \notin seen,
         h.distance \in 1 .. depth, h.node \in b[h.distance] \ b[h.distance - 1]
  PROVE  Hits(b, S, depth, Append(found, h), seen \union {h.node})
<1> DEFINE more == Append(found, h)
<1>1. /\ IsSeq(more) /\ ToSet(more) = ToSet(found) \union {h} /\ Len(more) = Len(found) + 1
  BY AppendIsSeq DEF Hits
<1> HIDE DEF more
<1>2. Found(more) = Found(found) \union {h.node} BY <1>1 DEF Found
<1>3. h.node \notin Found(found) /\ h.node \notin S BY DEF Hits
<1>4. IsFiniteSet(Found(found)) BY DEF Hits
<1>5. IsFiniteSet(Found(more)) /\ Cardinality(Found(more)) = Cardinality(Found(found)) + 1
  BY <1>2, <1>3, <1>4, FS_AddElement
<1>6. Distinct(more) BY <1>1, <1>5 DEF Hits, Distinct
<1>7. \A r \in ToSet(more) : r.distance \in 1 .. depth
        /\ r.node \in b[r.distance] \ b[r.distance - 1]
  BY <1>1 DEF Hits
<1>8. /\ seen \union {h.node} = S \union Found(more) /\ Found(more) \intersect S = {}
  BY <1>2, <1>3 DEF Hits
<1> QED BY <1>1, <1>5, <1>6, <1>7, <1>8 DEF Hits, more

ImpactFields == {"tool", "q", "at", "d", "frontier", "next", "rows", "seen", "found", "exact",
                 "truncated", "candidates"}

ImpactBall(i, q) == Within({q.node}, ImpactRel(i, q), q.depth)

(* Every hit says from where it was reached: an edge, and a node one step  *)
(* nearer.                                                                 *)
ViaFits(i, q, found) ==
  \A r \in ToSet(found) : /\ <<r.via, r.node>> \in ImpactRel(i, q)
                          /\ r.via \in ImpactBall(i, q)[r.distance - 1]

(* impact_of between two rows, and once it has ended.                      *)
ImpactWalks(i, s) ==
  /\ s.tool = "impact_of" /\ DOMAIN s = ImpactFields
  /\ s.q.depth \in Nat /\ s.q.max \in Nat
  /\ ~s.truncated /\ s.d \in Nat \ {0}
  /\ s.frontier # <<>> /\ (s.q.depth = 0 => Tail(s.frontier) = <<>>)
  /\ Level(ImpactBall(i, s.q), ImpactRel(i, s.q), s.q.depth, s.d - 1, s.frontier, s.next,
           {e.src : e \in s.rows}, s.seen)
  /\ \A e \in s.rows : /\ e \in i.edges /\ e.dst = Head(s.frontier)
                       /\ e.kind # "contains" /\ e.conf >= s.q.conf
  /\ Hits(ImpactBall(i, s.q), {s.q.node}, s.q.depth, s.found, s.seen)
  /\ Len(s.found) <= s.q.max
  /\ ViaFits(i, s.q, s.found)

ImpactEnds(i, s) ==
  /\ AtDistance(s.found, ImpactBall(i, s.q), s.q.depth, s.truncated, s.q.max)
  /\ ViaFits(i, s.q, s.found)

ImpactFits(i, s) == IF s.at = "search" THEN ImpactWalks(i, s) ELSE ImpactEnds(i, s)

LEMMA ImpactEndsIsExact ==
  ASSUME NEW s, ImpactEnds(idx, s)
  PROVE  ImpactIsExact(s)
BY DEF ImpactEnds, ImpactIsExact, ImpactBall, ImpactRel, ViaFits

(* The edges of a node, as pairs.                                          *)
LEMMA ImpactImage ==
  ASSUME NEW q, NEW n
  PROVE  /\ {e.src : e \in Dependents(n, q.conf)} = Image(ImpactRel(idx, q), {n})
         /\ \A e \in Dependents(n, q.conf) : /\ e \in idx.edges /\ e.dst = n
                                             /\ e.kind # "contains" /\ e.conf >= q.conf
<1> DEFINE D == Dependents(n, q.conf)
           R == ImpactRel(idx, q)
<1>1. \A e : e \in D <=> e \in idx.edges /\ e.dst = n /\ e.kind # "contains" /\ e.conf >= q.conf
  BY DEF Dependents
<1>2. ASSUME NEW e \in D PROVE e.src \in Image(R, {n})
  <2> DEFINE p == <<e.dst, e.src>>
  <2>1. p \in R /\ p[1] = n /\ p[2] = e.src BY <1>1 DEF ImpactRel
  <2> HIDE DEF p, R
  <2> QED BY <2>1 DEF Image
<1>3. ASSUME NEW x \in Image(R, {n}) PROVE \E e \in D : e.src = x
  <2>1. PICK p \in R : p[1] = n /\ p[2] = x BY DEF Image
  <2>2. PICK e \in idx.edges : p = <<e.dst, e.src>> /\ e.kind # "contains" /\ e.conf >= q.conf
    BY DEF ImpactRel
  <2>3. e.dst = n /\ e.src = x BY <2>1, <2>2
  <2> QED BY <1>1, <2>2, <2>3
<1> HIDE DEF D, R
<1> QED BY <1>1, <1>2, <1>3 DEF D, R

(* The search has this form from its first state on, each row keeps it,    *)
(* and so does the change to the next node or level.                       *)
LEMMA ImpactStarts ==
  ASSUME NEW q, q.depth \in Nat, q.max \in Nat, AskImpact(q), q.node \in NodeIds(idx)
  PROVE  search'.tool = "impact_of" /\ ImpactFits(idx, search')
<1> DEFINE s == search'
           R == ImpactRel(idx, q)
           b == ImpactBall(idx, q)
           todo == {e.src : e \in s.rows}
           none == <<>>
<1>1. /\ s = [tool |-> "impact_of", q |-> q, at |-> "search", d |-> 1,
             frontier |-> <<q.node>>, next |-> <<>>,
             rows |-> IF q.depth > 0 THEN Dependents(q.node, q.conf) ELSE {},
             seen |-> {q.node}, found |-> <<>>, exact |-> FALSE,
             truncated |-> FALSE, candidates |-> NoCandidates]
  BY DEF AskImpact
<1>2. /\ s.tool = "impact_of" /\ s.q = q /\ s.at = "search" /\ s.d = 1 /\ s.frontier = <<q.node>>
      /\ s.next = none /\ s.rows = IF q.depth > 0 THEN Dependents(q.node, q.conf) ELSE {}
      /\ s.seen = {q.node} /\ s.found = none /\ s.truncated = FALSE /\ DOMAIN s = ImpactFields
  BY <1>1 DEF ImpactFields
<1> HIDE DEF s
<1>3. /\ IsSeq(s.frontier) /\ ToSet(s.frontier) = {q.node} /\ Head(s.frontier) = q.node
      /\ s.frontier # <<>> /\ Tail(s.frontier) = <<>>
  BY <1>2 DEF IsSeq, ToSet
<1>4. /\ \A e \in s.rows : /\ e \in idx.edges /\ e.dst = q.node
                           /\ e.kind # "contains" /\ e.conf >= q.conf
      /\ todo = IF q.depth > 0 /\ s.frontier # <<>> THEN Image(R, {Head(s.frontier)}) ELSE {}
  <2>1. CASE q.depth > 0
    <3>1. s.rows = Dependents(q.node, q.conf) BY <1>2, <2>1
    <3> QED BY <1>3, <2>1, <3>1, ImpactImage
  <2>2. CASE ~(q.depth > 0)
    <3>1. s.rows = {} BY <1>2, <2>2
    <3> QED BY <2>2, <3>1
  <2> QED BY <2>1, <2>2
<1> HIDE DEF todo, R
<1>5. Level(b, R, q.depth, 0, s.frontier, <<>>, todo, {q.node})
  <2>1. b = Within({q.node}, R, q.depth) BY DEF ImpactBall, R
  <2> HIDE DEF b
  <2> QED BY <1>3, <1>4, <2>1, LevelFirst
<1>6. Hits(b, {q.node}, q.depth, s.found, s.seen) BY <1>2, HitsBegin
<1>7. Len(s.found) <= q.max /\ ViaFits(idx, q, s.found)
  BY <1>2, EmptyIsSeq DEF ViaFits
<1>8. s.d - 1 = 0 /\ s.d \in Nat \ {0} BY <1>2
<1> QED BY <1>2, <1>3, <1>4, <1>5, <1>6, <1>7, <1>8 DEF ImpactFits, ImpactWalks, s, R, todo

LEMMA ImpactRowFits ==
  ASSUME ImpactWalks(idx, search), search.at = "search", ImpactRow
  PROVE  search'.tool = "impact_of" /\ ImpactFits(idx, search')
<1> DEFINE s == search
           q == s.q
           R == ImpactRel(idx, q)
           b == ImpactBall(idx, q)
           todo == {e.src : e \in s.rows}
           k == s.d - 1
<1>1. /\ s.tool = "impact_of" /\ DOMAIN s = ImpactFields /\ q.depth \in Nat /\ q.max \in Nat
      /\ ~s.truncated /\ s.d \in Nat \ {0}
      /\ s.frontier # <<>> /\ (q.depth = 0 => Tail(s.frontier) = <<>>)
      /\ Level(b, R, q.depth, k, s.frontier, s.next, todo, s.seen)
      /\ \A e \in s.rows : /\ e \in idx.edges /\ e.dst = Head(s.frontier)
                           /\ e.kind # "contains" /\ e.conf >= q.conf
      /\ Hits(b, {q.node}, q.depth, s.found, s.seen)
      /\ Len(s.found) <= q.max /\ ViaFits(idx, q, s.found)
  BY DEF ImpactWalks
<1>2. PICK e \in s.rows :
        LET read == [s EXCEPT !.rows = @ \ {e},
                              !.exact = @ \/ (s.d = 1 /\ e.kind = "calls")]
            hit  == [node |-> e.src, via |-> e.dst, distance |-> s.d] IN
        search' = IF e.src \in s.seen THEN read
                  ELSE IF Len(s.found) >= q.max
                  THEN ImpactAnswer([read EXCEPT !.truncated = TRUE])
                  ELSE [read EXCEPT !.seen  = @ \union {e.src},
                                    !.found = Append(@, hit),
                                    !.next  = Append(@, e.src)]
  BY DEF ImpactRow, Continue
<1> DEFINE read == [s EXCEPT !.rows = @ \ {e},
                             !.exact = @ \/ (s.d = 1 /\ e.kind = "calls")]
           hit  == [node |-> e.src, via |-> e.dst, distance |-> s.d]
           less == {x.src : x \in s.rows \ {e}}
<1>3. /\ read.tool = s.tool /\ read.q = q /\ read.at = s.at /\ read.d = s.d
      /\ read.frontier = s.frontier /\ read.next = s.next /\ read.rows = s.rows \ {e}
      /\ read.seen = s.seen /\ read.found = s.found /\ read.truncated = s.truncated
      /\ DOMAIN read = ImpactFields
  BY <1>1 DEF ImpactFields
<1>4. less \subseteq todo /\ todo \ {e.src} \subseteq less /\ e.src \in todo
  OBVIOUS
<1>5. b = Within({q.node}, R, q.depth) BY DEF ImpactBall
<1>6. /\ k + 1 = s.d /\ s.d \in 1 .. q.depth /\ e.src \in b[s.d] /\ b[s.d] \subseteq b[q.depth]
      /\ Head(s.frontier) \in b[s.d - 1]
  <2>1. k + 1 = s.d BY <1>1
  <2> DEFINE y == e.src
             depth == q.depth
  <2>3. /\ Level(b, R, depth, k, s.frontier, s.next, todo, s.seen) /\ depth \in Nat
        /\ y \in todo /\ b = Within({q.node}, R, depth)
    BY <1>1, <1>4, <1>5
  <2> HIDE DEF s, q, R, b, todo, k, y, depth, read, hit, less
  <2>4. /\ k + 1 \in 1 .. depth /\ y \in b[k + 1]
        /\ b[k + 1] \subseteq b[depth] /\ Head(s.frontier) \in b[k]
    <3>1. k + 1 \in 1 .. depth BY <2>3, LevelTodo
    <3>2. y \in b[k + 1] BY <2>3, LevelTodo
    <3>3. b[k + 1] \subseteq b[depth] BY <2>3, LevelTodo
    <3>4. Head(s.frontier) \in b[k] BY <2>3, LevelTodo
    <3> QED BY <3>1, <3>2, <3>3, <3>4
  <2>2. /\ k + 1 \in 1 .. q.depth /\ e.src \in b[k + 1]
        /\ b[k + 1] \subseteq b[q.depth] /\ Head(s.frontier) \in b[k]
    BY <2>4 DEF y, depth
  <2> QED BY <2>1, <2>2 DEF k
<1>7. search' = IF e.src \in s.seen THEN read
                ELSE IF Len(s.found) >= q.max
                THEN ImpactAnswer([read EXCEPT !.truncated = TRUE])
                ELSE [read EXCEPT !.seen  = @ \union {e.src},
                                  !.found = Append(@, hit),
                                  !.next  = Append(@, e.src)]
  BY <1>2
<1> HIDE DEF read, hit, R, b, todo, less, k
<1>8. CASE e.src \in s.seen
  <2>1. search' = read BY <1>7, <1>8
  <2>2. Level(b, R, q.depth, k, s.frontier, s.next, less, s.seen)
    BY <1>1, <1>4, <1>5, <1>8, LevelKnown
  <2>3. less = {x.src : x \in read.rows} BY <1>3 DEF less
  <2>4. ImpactWalks(idx, read)
    BY <1>1, <1>3, <2>2, <2>3 DEF ImpactWalks, R, b, k
  <2> QED BY <1>1, <1>3, <2>1, <2>4 DEF ImpactFits
<1>9. CASE e.src \notin s.seen /\ Len(s.found) >= q.max
  <2> DEFINE t == [read EXCEPT !.truncated = TRUE]
  <2>1. search' = ImpactAnswer(t) BY <1>7, <1>9
  <2>2. /\ t.tool = "impact_of" /\ t.q = q /\ t.found = s.found /\ t.truncated = TRUE
        /\ DOMAIN t = ImpactFields
    BY <1>1, <1>3 DEF ImpactFields
  <2> HIDE DEF t
  <2>3. /\ search'.tool = "impact_of" /\ search'.q = q /\ search'.found = s.found
        /\ search'.truncated = TRUE /\ search'.at = "done"
    BY <2>1, <2>2 DEF ImpactAnswer, ImpactFields
  <2>4. Len(s.found) = q.max
    <3>1. Len(s.found) \in Nat BY <1>1 DEF Hits, IsSeq
    <3> QED BY <1>1, <1>9, <3>1
  <2>5. ~(b[q.depth] \subseteq Found(s.found) \union b[0])
    <3>1. b[0] = {q.node} BY <1>1, <1>5, BallsGrow
    <3>2. s.seen = Found(s.found) \union {q.node} BY <1>1 DEF Hits
    <3> QED BY <1>6, <1>9, <3>1, <3>2
  <2>6. AtDistance(s.found, b, q.depth, TRUE, q.max)
    BY <1>1, <2>4, <2>5 DEF AtDistance, Hits
  <2>7. ImpactEnds(idx, search') BY <1>1, <2>3, <2>6 DEF ImpactEnds, b
  <2> QED BY <2>3, <2>7 DEF ImpactFits
<1>10. CASE e.src \notin s.seen /\ ~(Len(s.found) >= q.max)
  <2> DEFINE t == [read EXCEPT !.seen  = @ \union {e.src},
                               !.found = Append(@, hit),
                               !.next  = Append(@, e.src)]
  <2>1. search' = t BY <1>7, <1>10
  <2>2. /\ t.tool = s.tool /\ t.q = q /\ t.at = s.at /\ t.d = s.d
        /\ t.frontier = s.frontier /\ t.next = Append(s.next, e.src) /\ t.rows = s.rows \ {e}
        /\ t.seen = s.seen \union {e.src} /\ t.found = Append(s.found, hit)
        /\ t.truncated = s.truncated /\ DOMAIN t = ImpactFields
    BY <1>3 DEF ImpactFields
  <2>3. Level(b, R, q.depth, k, s.frontier, Append(s.next, e.src), less,
              s.seen \union {e.src})
    BY <1>1, <1>4, <1>5, <1>10, LevelNew
  <2>4. less = {x.src : x \in t.rows} BY <2>2 DEF less
  <2>5. hit.node = e.src /\ hit.via = e.dst /\ hit.distance = s.d BY DEF hit
  <2>6. e.src \notin b[s.d - 1]
    BY <1>1, <1>10 DEF Level, k
  <2>7. Hits(b, {q.node}, q.depth, Append(s.found, hit), s.seen \union {e.src})
    BY <1>1, <1>6, <1>10, <2>5, <2>6, HitsAppend
  <2>8. /\ IsSeq(s.found) /\ Len(s.found) \in Nat BY <1>1 DEF Hits, IsSeq
  <2>9. /\ ToSet(Append(s.found, hit)) = ToSet(s.found) \union {hit}
        /\ Len(Append(s.found, hit)) = Len(s.found) + 1
    BY <2>8, AppendIsSeq
  <2>10. Len(Append(s.found, hit)) <= q.max BY <1>1, <1>10, <2>8, <2>9
  <2>11. <<hit.via, hit.node>> \in ImpactRel(idx, q)
           /\ hit.via \in ImpactBall(idx, q)[hit.distance - 1]
    <3>1. <<e.dst, e.src>> \in ImpactRel(idx, q) BY <1>1 DEF ImpactRel
    <3> QED BY <1>1, <1>6, <2>5, <3>1 DEF b
  <2>12. ViaFits(idx, q, Append(s.found, hit)) BY <1>1, <2>9, <2>11 DEF ViaFits
  <2> HIDE DEF t
  <2>13. ImpactWalks(idx, t)
    BY <1>1, <2>2, <2>3, <2>4, <2>7, <2>10, <2>12 DEF ImpactWalks, R, b, k
  <2> QED BY <1>1, <2>1, <2>2, <2>13 DEF ImpactFits
<1> QED BY <1>8, <1>9, <1>10

LEMMA ImpactNextFits ==
  ASSUME ImpactWalks(idx, search), search.at = "search", ImpactNext
  PROVE  search'.tool = "impact_of" /\ ImpactFits(idx, search')
<1> DEFINE s == search
           q == s.q
           R == ImpactRel(idx, q)
           b == ImpactBall(idx, q)
           rest == Tail(s.frontier)
           k == s.d - 1
           to(nodes, x) == [x EXCEPT !.frontier = nodes, !.rows = Dependents(Head(nodes), q.conf)]
           y == [s EXCEPT !.next = <<>>, !.d = @ + 1]
<1>1. /\ s.tool = "impact_of" /\ DOMAIN s = ImpactFields /\ q.depth \in Nat /\ q.max \in Nat
      /\ ~s.truncated /\ s.d \in Nat \ {0} /\ s.rows = {}
      /\ s.frontier # <<>> /\ (q.depth = 0 => Tail(s.frontier) = <<>>)
      /\ Level(b, R, q.depth, k, s.frontier, s.next, {}, s.seen)
      /\ Hits(b, {q.node}, q.depth, s.found, s.seen)
      /\ Len(s.found) <= q.max /\ ViaFits(idx, q, s.found)
  <2>1. s.rows = {} BY DEF ImpactNext
  <2>2. {e.src : e \in s.rows} = {} BY <2>1
  <2>3. Level(b, R, q.depth, k, s.frontier, s.next, {e.src : e \in s.rows}, s.seen)
    BY DEF ImpactWalks
  <2>4. Level(b, R, q.depth, k, s.frontier, s.next, {}, s.seen)
    <3> HIDE DEF s, R, b, k
    <3> QED BY <2>2, <2>3
  <2> QED BY <2>1, <2>4 DEF ImpactWalks
<1>2. b = Within({q.node}, R, q.depth) BY DEF ImpactBall
<1>3. search' = IF rest # <<>> THEN to(rest, s)
                ELSE IF s.next = <<>> \/ s.d >= q.depth THEN ImpactAnswer(s)
                ELSE to(s.next, y)
  <2>1. y.q = q BY <1>1 DEF ImpactFields
  <2> QED BY <2>1 DEF ImpactNext, Continue
<1>4. IsSeq(s.frontier) /\ IsSeq(s.next) BY <1>1 DEF Level
<1> HIDE DEF R, b, rest, k
<1>5. CASE rest # <<>>
  <2> DEFINE t == to(rest, s)
  <2>1. /\ t.tool = s.tool /\ t.q = q /\ t.at = s.at /\ t.d = s.d
        /\ t.frontier = rest /\ t.next = s.next /\ t.rows = Dependents(Head(rest), q.conf)
        /\ t.seen = s.seen /\ t.found = s.found
        /\ t.truncated = s.truncated /\ DOMAIN t = ImpactFields
    BY <1>1 DEF ImpactFields
  <2>2. search' = t BY <1>3, <1>5
  <2> HIDE DEF t
  <2>3. q.depth > 0 BY <1>1, <1>5 DEF rest
  <2>4. Level(b, R, q.depth, k, rest, s.next, Image(R, {Head(rest)}), s.seen)
    BY <1>1, <1>2, <1>5, <2>3, LevelNextNode DEF rest
  <2>5. /\ {e.src : e \in t.rows} = Image(R, {Head(rest)})
        /\ \A e \in t.rows : /\ e \in idx.edges /\ e.dst = Head(rest)
                             /\ e.kind # "contains" /\ e.conf >= q.conf
    <3>1. R = ImpactRel(idx, q) BY DEF R
    <3>2. t.rows = Dependents(Head(rest), q.conf) BY <2>1
    <3>3. /\ {e.src : e \in Dependents(Head(rest), q.conf)}
               = Image(ImpactRel(idx, q), {Head(rest)})
          /\ \A e \in Dependents(Head(rest), q.conf) :
                /\ e \in idx.edges /\ e.dst = Head(rest)
                /\ e.kind # "contains" /\ e.conf >= q.conf
      BY ImpactImage
    <3> HIDE DEF s, q
    <3> QED BY <3>1, <3>2, <3>3
  <2>7. Level(ImpactBall(idx, t.q), ImpactRel(idx, t.q), t.q.depth, t.d - 1, t.frontier, t.next,
              {e.src : e \in t.rows}, t.seen)
    <3> HIDE DEF s, q
    <3> QED BY <2>1, <2>4, <2>5 DEF R, b, k
  <2>6. ImpactWalks(idx, t)
    BY <1>1, <1>5, <2>1, <2>7, <2>3, <2>4, <2>5 DEF ImpactWalks, R, b, k
  <2> QED BY <1>1, <2>1, <2>2, <2>6 DEF ImpactFits
<1>6. CASE rest = <<>> /\ (s.next = <<>> \/ s.d >= q.depth)
  <2>1. search' = ImpactAnswer(s) BY <1>3, <1>6
  <2>2. /\ search'.tool = "impact_of" /\ search'.q = q /\ search'.found = s.found
        /\ ~search'.truncated /\ search'.at = "done"
    BY <1>1, <2>1 DEF ImpactAnswer, ImpactFields
  <2>3. s.next = <<>> \/ k + 1 >= q.depth BY <1>1, <1>6 DEF k
  <2>4. s.seen = b[q.depth]
    <3>1. Tail(s.frontier) = <<>> BY <1>6 DEF rest
    <3> DEFINE depth == q.depth
    <3>2. /\ Level(b, R, depth, k, s.frontier, s.next, {}, s.seen) /\ depth \in Nat
          /\ b = Within({q.node}, R, depth) /\ (s.next = <<>> \/ k + 1 >= depth)
      BY <1>1, <1>2, <2>3
    <3> HIDE DEF s, q, depth, y
    <3>3. s.seen = b[depth] BY <3>1, <3>2, LevelLast
    <3> QED BY <3>3 DEF depth
  <2>5. b[0] = {q.node} BY <1>1, <1>2, BallsGrow
  <2>6. Found(s.found) = b[q.depth] \ b[0] BY <1>1, <2>4, <2>5 DEF Hits
  <2>7. AtDistance(s.found, b, q.depth, FALSE, q.max)
    BY <1>1, <2>6 DEF AtDistance, Hits
  <2>9. ~search'.truncated => AtDistance(s.found, b, q.depth, search'.truncated, q.max)
    BY <2>7 DEF AtDistance
  <2>8. ImpactEnds(idx, search') BY <1>1, <2>2, <2>9 DEF ImpactEnds, b
  <2> QED BY <2>2, <2>8 DEF ImpactFits
<1>7. CASE rest = <<>> /\ s.next # <<>> /\ ~(s.d >= q.depth)
  <2> DEFINE t == to(s.next, y)
             new == s.next
  <2>1. /\ y.tool = s.tool /\ y.q = q /\ y.at = s.at /\ y.d = s.d + 1 /\ y.next = <<>>
        /\ y.seen = s.seen /\ y.found = s.found /\ y.truncated = s.truncated
        /\ DOMAIN y = ImpactFields
    BY <1>1 DEF ImpactFields
  <2> HIDE DEF y
  <2>2. /\ t.tool = s.tool /\ t.q = q /\ t.at = s.at /\ t.d = s.d + 1
        /\ t.frontier = new /\ t.next = <<>> /\ t.rows = Dependents(Head(new), q.conf)
        /\ t.seen = s.seen /\ t.found = s.found
        /\ t.truncated = s.truncated /\ DOMAIN t = ImpactFields
    BY <1>1, <2>1 DEF ImpactFields
  <2>3. search' = t BY <1>3, <1>7
  <2> HIDE DEF t
  <2>4. k + 1 < q.depth /\ k + 1 = t.d - 1 BY <1>1, <1>7, <2>2 DEF k
  <2>5. Level(b, R, q.depth, t.d - 1, new, <<>>, Image(R, {Head(new)}), s.seen)
    <3>1. Level(b, R, q.depth, k + 1, new, <<>>, Image(R, {Head(new)}), s.seen)
      <4>1. Tail(s.frontier) = <<>> BY <1>7 DEF rest
      <4> HIDE DEF s
      <4> QED BY <1>1, <1>2, <1>7, <2>4, <4>1, LevelNextLevel
    <3> QED BY <2>4, <3>1
  <2>6. /\ {e.src : e \in t.rows} = Image(R, {Head(new)})
        /\ \A e \in t.rows : /\ e \in idx.edges /\ e.dst = Head(new)
                             /\ e.kind # "contains" /\ e.conf >= q.conf
    <3>1. R = ImpactRel(idx, q) BY DEF R
    <3>2. t.rows = Dependents(Head(new), q.conf) BY <2>2
    <3>3. /\ {e.src : e \in Dependents(Head(new), q.conf)} = Image(ImpactRel(idx, q), {Head(new)})
          /\ \A e \in Dependents(Head(new), q.conf) :
                /\ e \in idx.edges /\ e.dst = Head(new)
                /\ e.kind # "contains" /\ e.conf >= q.conf
      BY ImpactImage
    <3> HIDE DEF s, q
    <3> QED BY <3>1, <3>2, <3>3
  <2>7. t.d \in Nat \ {0} BY <1>1, <2>2
  <2>9. t.q.depth = 0 => Tail(t.frontier) = <<>>
    BY <1>1, <2>2, <2>4 DEF k
  <2>10. Level(ImpactBall(idx, t.q), ImpactRel(idx, t.q), t.q.depth, t.d - 1, t.frontier, t.next,
              {e.src : e \in t.rows}, t.seen)
    <3> HIDE DEF s, q
    <3> QED BY <2>2, <2>5, <2>6 DEF R, b
  <2>8. ImpactWalks(idx, t)
    BY <1>1, <1>7, <2>2, <2>9, <2>10, <2>5, <2>6, <2>7 DEF ImpactWalks, R, b
  <2> QED BY <1>1, <2>2, <2>3, <2>8 DEF ImpactFits
<1> QED BY <1>5, <1>6, <1>7

-----------------------------------------------------------------------------
(* subgraph.                                                               *)

Kept(i, q) == {e \in i.edges : e.kind \in q.kinds}

SubgraphRel(i, q) == {<<e.src, e.dst>> : e \in Kept(i, q)}

SubgraphBall(i, q) == Within(ToSet(q.seeds), SubgraphRel(i, q), q.depth)

SubgraphFields == {"tool", "q", "at", "d", "frontier", "next", "rows", "seen", "edges",
                   "truncated"}

(* The edges that were read: all that leave the ball of k steps, but for   *)
(* those of the nodes to come and of the rows.                             *)
Read(kept, b, depth, k, frontier, rows, edges) ==
  /\ edges \subseteq {e \in kept : depth > 0 /\ e.src \in b[k]}
  /\ \A e \in kept : depth > 0 /\ e.src \in b[k] =>
       \/ e \in edges \/ e \in rows
       \/ frontier # <<>> /\ e.src \in ToSet(Tail(frontier))

(* subgraph between two rows, and once it has ended.                       *)
SubgraphWalks(i, s) ==
  /\ s.tool = "subgraph" /\ DOMAIN s = SubgraphFields
  /\ s.q.depth \in Nat /\ s.q.max \in Nat /\ ~s.truncated /\ s.d \in Nat
  /\ \A e \in s.rows : e \in i.edges /\ e.src = Head(s.frontier)
  /\ Level(SubgraphBall(i, s.q), SubgraphRel(i, s.q), s.q.depth, s.d, s.frontier, s.next,
           {e.dst : e \in s.rows \intersect Kept(i, s.q)}, s.seen)
  /\ Read(Kept(i, s.q), SubgraphBall(i, s.q), s.q.depth, s.d, s.frontier, s.rows, s.edges)

SubgraphEnds(i, s) ==
  LET b     == SubgraphBall(i, s.q)
      edges == {e \in Kept(i, s.q) : s.q.depth > 0 /\ e.src \in b[s.q.depth - 1]} IN
  IF s.truncated
  THEN /\ Cardinality(s.seen) >= s.q.max /\ s.edges \subseteq edges
       /\ s.seen \subseteq b[s.q.depth] /\ s.seen # b[s.q.depth]
  ELSE s.seen = b[s.q.depth] /\ s.edges = edges

SubgraphFits(i, s) == IF s.at = "search" THEN SubgraphWalks(i, s) ELSE SubgraphEnds(i, s)

LEMMA SubgraphEndsIsExact ==
  ASSUME NEW s, SubgraphEnds(idx, s)
  PROVE  SubgraphIsExact(s)
BY DEF SubgraphEnds, SubgraphIsExact, SubgraphBall, SubgraphRel, Kept

(* The rows that the statement of a node returns are the edges that leave  *)
(* it.                                                                     *)
LEMMA SubgraphImage ==
  ASSUME NEW q, NEW n
  PROVE  /\ {e.dst : e \in Forward(n) \intersect Kept(idx, q)} = Image(SubgraphRel(idx, q), {n})
         /\ \A e \in Forward(n) : e \in idx.edges /\ e.src = n
         /\ \A e \in Kept(idx, q) : e.src = n => e \in Forward(n)
<1> DEFINE D == Forward(n) \intersect Kept(idx, q)
           R == SubgraphRel(idx, q)
<1>1. \A e : e \in D <=> e \in Kept(idx, q) /\ e.src = n
  BY DEF Forward, Kept
<1>2. ASSUME NEW e \in D PROVE e.dst \in Image(R, {n})
  <2> DEFINE p == <<e.src, e.dst>>
  <2>1. p \in R /\ p[1] = n /\ p[2] = e.dst BY <1>1 DEF SubgraphRel
  <2> HIDE DEF p, R
  <2> QED BY <2>1 DEF Image
<1>3. ASSUME NEW x \in Image(R, {n}) PROVE \E e \in D : e.dst = x
  <2>1. PICK p \in R : p[1] = n /\ p[2] = x BY DEF Image
  <2>2. PICK e \in Kept(idx, q) : p = <<e.src, e.dst>>
    BY DEF SubgraphRel
  <2>3. e.src = n /\ e.dst = x BY <2>1, <2>2
  <2> QED BY <1>1, <2>3
<1>4. /\ \A e \in Forward(n) : e \in idx.edges /\ e.src = n
      /\ \A e \in Kept(idx, q) : e.src = n => e \in Forward(n)
  BY DEF Forward, Kept
<1> HIDE DEF D, R
<1> QED BY <1>2, <1>3, <1>4 DEF D, R

(* The search has this form from its first state on, each row keeps it,    *)
(* and so does the change to the next node or level.                       *)
LEMMA SubgraphStarts ==
  ASSUME NEW q, q.depth \in Nat, q.max \in Nat, IsSeq(q.seeds), AskSubgraph(q)
  PROVE  search'.tool = "subgraph" /\ SubgraphFits(idx, search')
<1> DEFINE s == search'
           R == SubgraphRel(idx, q)
           b == SubgraphBall(idx, q)
           kept == Kept(idx, q)
           todo == {e.dst : e \in s.rows \intersect kept}
           none == <<>>
           depth == q.depth
           S == ToSet(q.seeds)
<1>1. s = [tool |-> "subgraph", q |-> q, at |-> "search", d |-> 0,
           frontier |-> q.seeds, next |-> <<>>,
           rows |-> IF q.depth > 0 /\ q.seeds # <<>> THEN Forward(Head(q.seeds)) ELSE {},
           seen |-> ToSet(q.seeds), edges |-> {}, truncated |-> FALSE]
  BY DEF AskSubgraph
<1>2. /\ s.tool = "subgraph" /\ s.q = q /\ s.at = "search" /\ s.d = 0 /\ s.frontier = q.seeds
      /\ s.next = none /\ (depth > 0 /\ q.seeds # <<>> => s.rows = Forward(Head(q.seeds)))
      /\ (~(depth > 0 /\ q.seeds # <<>>) => s.rows = {})
      /\ s.seen = S /\ s.edges = {} /\ ~s.truncated /\ DOMAIN s = SubgraphFields
  BY <1>1 DEF SubgraphFields
<1> HIDE DEF s
<1>3. /\ \A e \in s.rows : e \in idx.edges /\ e.src = Head(s.frontier)
      /\ depth > 0 /\ q.seeds # <<>> => \A e \in kept : e.src = Head(s.frontier) => e \in s.rows
      /\ todo = IF depth > 0 /\ s.frontier # <<>> THEN Image(R, {Head(s.frontier)}) ELSE {}
  <2>1. CASE depth > 0 /\ q.seeds # <<>>
    <3>1. s.rows = Forward(Head(s.frontier)) /\ s.frontier # <<>> BY <1>2, <2>1
    <3>2. todo = Image(R, {Head(s.frontier)})
      <4> HIDE DEF kept
      <4>1. {e.dst : e \in Forward(Head(s.frontier)) \intersect kept}
              = Image(R, {Head(s.frontier)})
        BY SubgraphImage DEF kept
      <4> QED BY <3>1, <4>1
    <3>3. /\ \A e \in Forward(Head(s.frontier)) : e \in idx.edges /\ e.src = Head(s.frontier)
          /\ \A e \in kept : e.src = Head(s.frontier) => e \in Forward(Head(s.frontier))
      BY SubgraphImage
    <3> HIDE DEF todo, kept
    <3> QED BY <2>1, <3>1, <3>2, <3>3
  <2>2. CASE ~(depth > 0 /\ q.seeds # <<>>)
    <3>1. s.rows = {} BY <1>2, <2>2
    <3> QED BY <1>2, <2>2, <3>1
  <2> QED BY <2>1, <2>2
<1>4. Level(b, R, depth, 0, s.frontier, none, todo, S)
  <2>1. b = Within(S, R, depth) BY DEF SubgraphBall
  <2>2. IsSeq(s.frontier) /\ ToSet(s.frontier) = S BY <1>2
  <2> HIDE DEF b, R, todo, S, depth, kept
  <2>3. depth \in Nat BY DEF depth
  <2> QED BY <1>3, <2>1, <2>2, <2>3, LevelFirst
<1>5. Read(kept, b, depth, 0, s.frontier, s.rows, s.edges)
  <2>1. ASSUME NEW e \in kept, depth > 0 /\ e.src \in b[0]
        PROVE  \/ e \in s.edges \/ e \in s.rows
               \/ s.frontier # <<>> /\ e.src \in ToSet(Tail(s.frontier))
    <3>1. e.src \in S
      <4> b = Within(S, R, depth) BY DEF SubgraphBall
      <4> QED BY <2>1, BallsGrow
    <3>2. S # {} /\ s.frontier # <<>> /\ q.seeds # <<>> BY <1>2, <3>1, EmptyIsSeq
    <3>3. S = {Head(s.frontier)} \union ToSet(Tail(s.frontier)) BY <1>2, <3>2, TailIsSeq
    <3> HIDE DEF kept, S
    <3> QED BY <1>3, <2>1, <3>1, <3>2, <3>3
  <2> QED BY <1>2, <2>1 DEF Read
<1> HIDE DEF R, b, kept, todo
<1>6. Level(SubgraphBall(idx, s.q), SubgraphRel(idx, s.q), s.q.depth, s.d, s.frontier, s.next,
            {e.dst : e \in s.rows \intersect Kept(idx, s.q)}, s.seen)
  <2>1. Level(b, R, s.q.depth, s.d, s.frontier, s.next, todo, s.seen) BY <1>2, <1>4
  <2> QED BY <1>2, <2>1 DEF b, R, todo, kept
<1>7. Read(Kept(idx, s.q), SubgraphBall(idx, s.q), s.q.depth, s.d, s.frontier, s.rows, s.edges)
  BY <1>2, <1>5 DEF b, kept
<1> QED BY <1>2, <1>3, <1>6, <1>7 DEF SubgraphFits, SubgraphWalks, s

LEMMA SubgraphRowFits ==
  ASSUME SubgraphWalks(idx, search), search.at = "search", SubgraphRow
  PROVE  search'.tool = "subgraph" /\ SubgraphFits(idx, search')
<1> DEFINE s == search
           q == s.q
           R == SubgraphRel(idx, q)
           b == SubgraphBall(idx, q)
           kept == Kept(idx, q)
           depth == q.depth
           S == ToSet(q.seeds)
           todo == {e.dst : e \in s.rows \intersect kept}
<1>1. /\ s.tool = "subgraph" /\ DOMAIN s = SubgraphFields /\ depth \in Nat /\ q.max \in Nat
      /\ ~s.truncated /\ s.d \in Nat
      /\ \A e \in s.rows : e \in idx.edges /\ e.src = Head(s.frontier)
      /\ Level(b, R, depth, s.d, s.frontier, s.next, todo, s.seen)
      /\ Read(kept, b, depth, s.d, s.frontier, s.rows, s.edges)
  BY DEF SubgraphWalks
<1>2. PICK e \in s.rows :
        LET read == [s EXCEPT !.rows = @ \ {e}]
            with == [read EXCEPT !.edges = @ \union {e}] IN
        search' = IF e.kind \notin q.kinds THEN read
                  ELSE IF e.dst \in s.seen THEN with
                  ELSE IF Cardinality(s.seen) >= q.max
                  THEN [with EXCEPT !.truncated = TRUE, !.at = "done", !.rows = {}]
                  ELSE [with EXCEPT !.seen = @ \union {e.dst}, !.next = Append(@, e.dst)]
  BY DEF SubgraphRow, Continue
<1> DEFINE read == [s EXCEPT !.rows = @ \ {e}]
           with == [read EXCEPT !.edges = @ \union {e}]
           left_ == s.rows \ {e}
           less == {x.dst : x \in left_ \intersect kept}
<1>3. /\ read.tool = s.tool /\ read.q = q /\ read.at = s.at /\ read.d = s.d
      /\ read.frontier = s.frontier /\ read.next = s.next /\ read.rows = left_
      /\ read.seen = s.seen /\ read.edges = s.edges /\ read.truncated = s.truncated
      /\ DOMAIN read = SubgraphFields
  BY <1>1 DEF SubgraphFields
<1>4. search' = IF e.kind \notin q.kinds THEN read
                  ELSE IF e.dst \in s.seen THEN with
                  ELSE IF Cardinality(s.seen) >= q.max
                  THEN [with EXCEPT !.truncated = TRUE, !.at = "done", !.rows = {}]
                  ELSE [with EXCEPT !.seen = @ \union {e.dst}, !.next = Append(@, e.dst)]
  BY <1>2
<1> HIDE DEF read
<1>5. /\ with.tool = s.tool /\ with.q = q /\ with.at = s.at /\ with.d = s.d
      /\ with.frontier = s.frontier /\ with.next = s.next /\ with.rows = left_
      /\ with.seen = s.seen /\ with.edges = s.edges \union {e} /\ with.truncated = s.truncated
      /\ DOMAIN with = SubgraphFields
  BY <1>1, <1>3 DEF SubgraphFields
<1>6. less \subseteq todo /\ (e \notin kept => less = todo)
      /\ (e \in kept => todo \ {e.dst} \subseteq less /\ e.dst \in todo)
  OBVIOUS
<1>7. b = Within(S, R, depth) BY DEF SubgraphBall
<1>8. e \in kept <=> e.kind \in q.kinds BY <1>1 DEF Kept
<1> HIDE DEF with, left_, less, todo, R, b, kept, S, depth, q
<1>9. \A x \in left_ : x \in idx.edges /\ x.src = Head(s.frontier)
  BY <1>1 DEF left_
<1>10. CASE e \notin kept
  <2>1. search' = read BY <1>4, <1>8, <1>10
  <2>2. Level(b, R, depth, s.d, s.frontier, s.next, less, s.seen)
    BY <1>1, <1>6, <1>10
  <2>3. Read(kept, b, depth, s.d, s.frontier, left_, s.edges)
    BY <1>1, <1>10 DEF Read, left_
  <2>4. Level(SubgraphBall(idx, read.q), SubgraphRel(idx, read.q), read.q.depth, read.d,
          read.frontier, read.next,
              {x.dst : x \in read.rows \intersect Kept(idx, read.q)}, read.seen)
    BY <1>3, <2>2 DEF R, b, kept, depth, less
  <2>5. Read(Kept(idx, read.q), SubgraphBall(idx, read.q), read.q.depth, read.d, read.frontier,
          read.rows, read.edges)
    BY <1>3, <2>3 DEF b, kept, depth
  <2>6. SubgraphWalks(idx, read)
    BY <1>1, <1>3, <1>9, <2>4, <2>5 DEF SubgraphWalks, depth, q
  <2> QED BY <1>1, <1>3, <2>1, <2>6 DEF SubgraphFits
<1>11. CASE e \in kept /\ e.dst \in s.seen
  <2>1. search' = with BY <1>4, <1>8, <1>11
  <2> DEFINE y == e.dst
  <2>2. Level(b, R, depth, s.d, s.frontier, s.next, less, s.seen)
    <3>1. y \in s.seen /\ todo \ {y} \subseteq less /\ less \subseteq todo BY <1>6, <1>11
    <3> HIDE DEF s, y
    <3> QED BY <1>1, <1>7, <3>1, LevelKnown
  <2>3. Read(kept, b, depth, s.d, s.frontier, left_, s.edges \union {e})
    <3>1. depth > 0 /\ e.src \in b[s.d]
      <4>1. y \in todo BY <1>6, <1>11
      <4> HIDE DEF s, y
      <4>2. depth > 0 /\ s.frontier # <<>> BY <1>1, <4>1 DEF Level
      <4>3. Head(s.frontier) \in b[s.d] BY <1>1, <1>7, <4>1, LevelTodo
      <4> QED BY <1>1, <1>2, <4>2, <4>3
    <3> QED BY <1>1, <1>11, <3>1 DEF Read, left_
  <2>4. Level(SubgraphBall(idx, with.q), SubgraphRel(idx, with.q), with.q.depth, with.d,
          with.frontier, with.next,
              {x.dst : x \in with.rows \intersect Kept(idx, with.q)}, with.seen)
    BY <1>5, <2>2 DEF R, b, kept, depth, less
  <2>5. Read(Kept(idx, with.q), SubgraphBall(idx, with.q), with.q.depth, with.d, with.frontier,
          with.rows, with.edges)
    BY <1>5, <2>3 DEF b, kept, depth
  <2>6. SubgraphWalks(idx, with)
    BY <1>1, <1>5, <1>9, <2>4, <2>5 DEF SubgraphWalks, depth, q
  <2> QED BY <1>1, <1>5, <2>1, <2>6 DEF SubgraphFits
<1>12. CASE e \in kept /\ e.dst \notin s.seen /\ Cardinality(s.seen) >= q.max
  <2> DEFINE t == [with EXCEPT !.truncated = TRUE, !.at = "done", !.rows = {}]
             y == e.dst
  <2>1. search' = t BY <1>4, <1>8, <1>12
  <2>2. /\ t.tool = s.tool /\ t.q = q /\ t.at = "done" /\ t.seen = s.seen
        /\ t.edges = s.edges \union {e} /\ t.truncated
    BY <1>5 DEF SubgraphFields
  <2> HIDE DEF t
  <2>3. /\ s.d + 1 \in 1 .. depth /\ y \in b[s.d + 1] /\ b[s.d + 1] \subseteq b[depth]
        /\ Head(s.frontier) \in b[s.d] /\ depth > 0
    <3>1. y \in todo BY <1>6, <1>12
    <3> HIDE DEF s, y
    <3>2. s.d + 1 \in 1 .. depth BY <1>1, <1>7, <3>1, LevelTodo
    <3>3. y \in b[s.d + 1] BY <1>1, <1>7, <3>1, LevelTodo
    <3>4. b[s.d + 1] \subseteq b[depth] BY <1>1, <1>7, <3>1, LevelTodo
    <3>5. Head(s.frontier) \in b[s.d] BY <1>1, <1>7, <3>1, LevelTodo
    <3>6. depth > 0
      <4>1. todo # {} BY <3>1
      <4> QED BY <1>1, <4>1 DEF Level
    <3> QED BY <3>2, <3>3, <3>4, <3>5, <3>6
  <2>4. s.seen \subseteq b[s.d + 1] BY <1>1, <2>3 DEF Level
  <2>5. s.seen \subseteq b[depth] /\ s.seen # b[depth] BY <1>12, <2>3, <2>4
  <2>6. b[s.d] \subseteq b[depth - 1]
    <3>1. s.d \in 0 .. depth /\ depth - 1 \in 0 .. depth /\ s.d <= depth - 1 BY <1>1, <2>3
    <3> QED BY <1>1, <1>7, <3>1, BallsGrow
  <2>7. s.edges \union {e} \subseteq {x \in kept : depth > 0 /\ x.src \in b[depth - 1]}
    BY <1>1, <1>12, <2>3, <2>6 DEF Read
  <2>8. SubgraphEnds(idx, t)
    BY <1>12, <2>2, <2>5, <2>7 DEF SubgraphEnds, b, kept, depth
  <2> QED BY <1>1, <2>1, <2>2, <2>8 DEF SubgraphFits
<1>13. CASE e \in kept /\ e.dst \notin s.seen /\ ~(Cardinality(s.seen) >= q.max)
  <2> DEFINE t == [with EXCEPT !.seen = @ \union {e.dst}, !.next = Append(@, e.dst)]
             y == e.dst
             all == s.seen \union {y}
             more == Append(s.next, y)
  <2>1. search' = t BY <1>4, <1>8, <1>13
  <2>2. /\ t.tool = s.tool /\ t.q = q /\ t.at = s.at /\ t.d = s.d
        /\ t.frontier = s.frontier /\ t.next = more /\ t.rows = left_
        /\ t.seen = all /\ t.edges = s.edges \union {e} /\ t.truncated = s.truncated
        /\ DOMAIN t = SubgraphFields
    BY <1>5 DEF SubgraphFields
  <2> HIDE DEF t
  <2>0. y \in todo BY <1>6, <1>13
  <2>3. Level(b, R, depth, s.d, s.frontier, more, less, all)
    <3>1. y \notin s.seen /\ todo \ {y} \subseteq less /\ less \subseteq todo BY <1>6, <1>13
    <3> HIDE DEF s, y
    <3> QED BY <1>1, <1>7, <2>0, <3>1, LevelNew
  <2>4. Read(kept, b, depth, s.d, s.frontier, left_, s.edges \union {e})
    <3>1. depth > 0 /\ e.src \in b[s.d]
      <4> HIDE DEF s, y
      <4>2. depth > 0 /\ s.frontier # <<>> BY <1>1, <2>0 DEF Level
      <4>3. Head(s.frontier) \in b[s.d] BY <1>1, <1>7, <2>0, LevelTodo
      <4> QED BY <1>1, <1>2, <4>2, <4>3
    <3> QED BY <1>1, <1>13, <3>1 DEF Read, left_
  <2> HIDE DEF all, more
  <2>5. Level(SubgraphBall(idx, t.q), SubgraphRel(idx, t.q), t.q.depth, t.d, t.frontier, t.next,
              {x.dst : x \in t.rows \intersect Kept(idx, t.q)}, t.seen)
    BY <2>2, <2>3 DEF R, b, kept, depth, less
  <2>6. Read(Kept(idx, t.q), SubgraphBall(idx, t.q), t.q.depth, t.d, t.frontier, t.rows, t.edges)
    BY <2>2, <2>4 DEF b, kept, depth
  <2>7. SubgraphWalks(idx, t)
    BY <1>1, <1>9, <2>2, <2>5, <2>6 DEF SubgraphWalks, depth, q
  <2> QED BY <1>1, <2>1, <2>2, <2>7 DEF SubgraphFits
<1> QED BY <1>10, <1>11, <1>12, <1>13

LEMMA SubgraphNextFits ==
  ASSUME SubgraphWalks(idx, search), search.at = "search", SubgraphNext
  PROVE  search'.tool = "subgraph" /\ SubgraphFits(idx, search')
<1> DEFINE s == search
           q == s.q
           R == SubgraphRel(idx, q)
           b == SubgraphBall(idx, q)
           kept == Kept(idx, q)
           depth == q.depth
           S == ToSet(q.seeds)
           rest == IF s.frontier = <<>> THEN <<>> ELSE Tail(s.frontier)
           to(nodes, x) == [x EXCEPT !.frontier = nodes, !.rows = Forward(Head(nodes))]
           y == [s EXCEPT !.next = <<>>, !.d = @ + 1]
           done == [s EXCEPT !.at = "done"]
<1>1. /\ s.tool = "subgraph" /\ DOMAIN s = SubgraphFields /\ depth \in Nat /\ q.max \in Nat
      /\ ~s.truncated /\ s.d \in Nat /\ s.rows = {}
      /\ Level(b, R, depth, s.d, s.frontier, s.next, {}, s.seen)
      /\ Read(kept, b, depth, s.d, s.frontier, s.rows, s.edges)
  <2>1. s.rows = {} BY DEF SubgraphNext
  <2>2. {e.dst : e \in s.rows \intersect kept} = {} BY <2>1
  <2>3. Level(b, R, depth, s.d, s.frontier, s.next,
          {e.dst : e \in s.rows \intersect kept}, s.seen)
    BY DEF SubgraphWalks
  <2>4. Level(b, R, depth, s.d, s.frontier, s.next, {}, s.seen)
    <3> HIDE DEF s, R, b, kept
    <3> QED BY <2>2, <2>3
  <2> QED BY <2>1, <2>4 DEF SubgraphWalks
<1>2. b = Within(S, R, depth) BY DEF SubgraphBall
<1>3. search' = IF rest # <<>> /\ s.d < depth THEN to(rest, s)
                ELSE IF s.next = <<>> \/ s.d + 1 >= depth THEN done
                ELSE to(s.next, y)
  BY DEF SubgraphNext, Continue
<1>4. /\ s.frontier = <<>> => rest = <<>>
      /\ s.frontier # <<>> => rest = Tail(s.frontier)
  OBVIOUS
<1> HIDE DEF R, b, kept, depth, S, rest, q
<1>5. CASE rest # <<>> /\ s.d < depth
  <2> DEFINE t == to(rest, s)
  <2>1. /\ t.tool = s.tool /\ t.q = q /\ t.at = s.at /\ t.d = s.d
        /\ t.frontier = rest /\ t.next = s.next /\ t.rows = Forward(Head(rest))
        /\ t.seen = s.seen /\ t.edges = s.edges
        /\ t.truncated = s.truncated /\ DOMAIN t = SubgraphFields
    BY <1>1 DEF SubgraphFields, q
  <2>2. search' = t BY <1>3, <1>5
  <2> HIDE DEF t
  <2>3. depth > 0 /\ s.frontier # <<>> /\ Tail(s.frontier) # <<>> /\ rest = Tail(s.frontier)
    BY <1>1, <1>4, <1>5
  <2>4. Level(b, R, depth, s.d, rest, s.next, Image(R, {Head(rest)}), s.seen)
    <3> HIDE DEF s
    <3> QED BY <1>1, <1>2, <2>3, LevelNextNode
  <2>5. /\ {e.dst : e \in Forward(Head(rest)) \intersect kept} = Image(R, {Head(rest)})
        /\ \A e \in t.rows : e \in idx.edges /\ e.src = Head(t.frontier)
        /\ \A e \in kept : e.src = Head(rest) => e \in t.rows
    <3>1. /\ {e.dst : e \in Forward(Head(rest)) \intersect Kept(idx, q)}
               = Image(SubgraphRel(idx, q), {Head(rest)})
          /\ \A e \in Forward(Head(rest)) : e \in idx.edges /\ e.src = Head(rest)
          /\ \A e \in Kept(idx, q) : e.src = Head(rest) => e \in Forward(Head(rest))
      BY SubgraphImage
    <3> HIDE DEF s
    <3> QED BY <2>1, <3>1 DEF kept, R
  <2>6. Read(kept, b, depth, s.d, rest, t.rows, s.edges)
    <3>1. IsSeq(rest) /\ rest # <<>>
      BY <1>1, <2>3, TailIsSeq DEF Level
    <3>2. ToSet(rest) = {Head(rest)} \union ToSet(Tail(rest)) BY <3>1, TailIsSeq
    <3>3. ASSUME NEW e \in kept, depth > 0 /\ e.src \in b[s.d]
          PROVE  e \in s.edges \/ e \in t.rows \/ e.src \in ToSet(Tail(rest))
      <4>1. e \in s.edges \/ e.src \in ToSet(rest) BY <1>1, <2>3, <3>3 DEF Read
      <4> QED BY <2>5, <3>2, <4>1
    <3> QED BY <1>1, <3>1, <3>3 DEF Read
  <2>7. Level(SubgraphBall(idx, t.q), SubgraphRel(idx, t.q), t.q.depth, t.d, t.frontier, t.next,
              {e.dst : e \in t.rows \intersect Kept(idx, t.q)}, t.seen)
    <3> HIDE DEF s
    <3>1. Level(b, R, depth, t.d, t.frontier, t.next,
            {e.dst : e \in t.rows \intersect kept}, t.seen)
      BY <2>1, <2>4, <2>5
    <3> QED BY <2>1, <3>1 DEF R, b, kept, depth
  <2>8. Read(Kept(idx, t.q), SubgraphBall(idx, t.q), t.q.depth, t.d, t.frontier, t.rows, t.edges)
    BY <2>1, <2>6 DEF b, kept, depth
  <2>9. SubgraphWalks(idx, t)
    BY <1>1, <2>1, <2>5, <2>7, <2>8 DEF SubgraphWalks, depth
  <2> QED BY <1>1, <2>1, <2>2, <2>9 DEF SubgraphFits
<1>6. CASE ~(rest # <<>> /\ s.d < depth) /\ (s.next = <<>> \/ s.d + 1 >= depth)
  <2>1. search' = done BY <1>3, <1>6
  <2>2. /\ search'.tool = "subgraph" /\ search'.q = q /\ search'.seen = s.seen
        /\ search'.edges = s.edges /\ ~search'.truncated /\ search'.at = "done"
    BY <1>1, <2>1 DEF SubgraphFields, q
  <2>3. s.frontier = <<>> \/ Tail(s.frontier) = <<>> \/ depth = 0
    BY <1>1, <1>4, <1>6 DEF Level
  <2>4. /\ s.seen = b[depth]
        /\ depth > 0 => b[depth - 1] = b[s.d]
    <3> DEFINE k == s.d
    <3>2. s.next = <<>> \/ k + 1 >= depth BY <1>6
    <3>1. Level(b, R, depth, k, s.frontier, s.next, {}, s.seen) /\ depth \in Nat BY <1>1
    <3> HIDE DEF s, k, y
    <3>3. s.seen = b[depth] BY <1>2, <2>3, <3>1, <3>2, LevelLast
    <3>4. depth > 0 => b[depth - 1] = b[k] BY <1>2, <2>3, <3>1, <3>2, LevelLast
    <3> QED BY <3>3, <3>4 DEF k
  <2>5. s.edges = {e \in kept : depth > 0 /\ e.src \in b[depth - 1]}
    <3>1. ASSUME NEW e \in s.edges PROVE e \in kept /\ depth > 0 /\ e.src \in b[depth - 1]
      <4>1. e \in kept /\ depth > 0 /\ e.src \in b[s.d] BY <1>1 DEF Read
      <4> QED BY <2>4, <4>1
    <3>2. ASSUME NEW e \in kept, depth > 0, e.src \in b[depth - 1] PROVE e \in s.edges
      <4>1. e.src \in b[s.d] BY <2>4, <3>2
      <4>2. e \in s.edges \/ (s.frontier # <<>> /\ e.src \in ToSet(Tail(s.frontier)))
        BY <1>1, <3>2, <4>1 DEF Read
      <4>3. s.frontier = <<>> \/ Tail(s.frontier) = <<>> BY <2>3, <3>2
      <4> QED BY <4>2, <4>3, EmptyIsSeq
    <3> QED BY <3>1, <3>2
  <2>6. SubgraphEnds(idx, search')
    BY <2>2, <2>4, <2>5 DEF SubgraphEnds, b, kept, depth
  <2> QED BY <2>2, <2>6 DEF SubgraphFits
<1>7. CASE ~(rest # <<>> /\ s.d < depth) /\ s.next # <<>> /\ ~(s.d + 1 >= depth)
  <2> DEFINE t == to(s.next, y)
             new == s.next
  <2>1. /\ y.tool = s.tool /\ y.q = q /\ y.at = s.at /\ y.d = s.d + 1 /\ y.next = <<>>
        /\ y.seen = s.seen /\ y.edges = s.edges /\ y.truncated = s.truncated
        /\ DOMAIN y = SubgraphFields
    BY <1>1 DEF SubgraphFields, q
  <2> HIDE DEF y
  <2>2. /\ t.tool = s.tool /\ t.q = q /\ t.at = s.at /\ t.d = s.d + 1
        /\ t.frontier = new /\ t.next = <<>> /\ t.rows = Forward(Head(new))
        /\ t.seen = s.seen /\ t.edges = s.edges
        /\ t.truncated = s.truncated /\ DOMAIN t = SubgraphFields
    BY <1>1, <2>1 DEF SubgraphFields
  <2>3. search' = t BY <1>3, <1>7
  <2> HIDE DEF t
  <2>4. s.d + 1 < depth /\ t.d \in Nat /\ (s.frontier = <<>> \/ Tail(s.frontier) = <<>>)
        /\ depth > 0 /\ s.d < depth
    BY <1>1, <1>4, <1>7, <2>2
  <2>5. Level(b, R, depth, s.d + 1, new, <<>>, Image(R, {Head(new)}), s.seen)
    <3> DEFINE k == s.d
    <3>1. /\ Level(b, R, depth, k, s.frontier, s.next, {}, s.seen) /\ k + 1 < depth
          /\ depth \in Nat /\ s.next # <<>>
      BY <1>1, <1>7, <2>4
    <3> HIDE DEF s, k
    <3>2. Level(b, R, depth, k + 1, new, <<>>, Image(R, {Head(new)}), s.seen)
      BY <1>2, <2>4, <3>1, LevelNextLevel
    <3> QED BY <3>2 DEF k
  <2>6. /\ {e.dst : e \in Forward(Head(new)) \intersect kept} = Image(R, {Head(new)})
        /\ \A e \in t.rows : e \in idx.edges /\ e.src = Head(t.frontier)
        /\ \A e \in kept : e.src = Head(new) => e \in t.rows
    <3>1. /\ {e.dst : e \in Forward(Head(new)) \intersect Kept(idx, q)}
               = Image(SubgraphRel(idx, q), {Head(new)})
          /\ \A e \in Forward(Head(new)) : e \in idx.edges /\ e.src = Head(new)
          /\ \A e \in Kept(idx, q) : e.src = Head(new) => e \in Forward(Head(new))
      BY SubgraphImage
    <3> HIDE DEF s
    <3> QED BY <2>2, <3>1 DEF kept, R
  <2>7. Read(kept, b, depth, s.d + 1, new, t.rows, s.edges)
    <3>1. IsSeq(new) /\ new # <<>> /\ ToSet(new) = s.seen \ b[s.d] BY <1>1, <1>7 DEF Level
    <3>2. ToSet(new) = {Head(new)} \union ToSet(Tail(new)) BY <3>1, TailIsSeq
    <3> DEFINE k == s.d
    <3>4. s.seen = b[k + 1]
      <4>1. Level(b, R, depth, k, s.frontier, s.next, {}, s.seen) /\ depth \in Nat /\ depth > 0
        BY <1>1, <2>4
      <4> HIDE DEF s, k
      <4> QED BY <1>2, <2>4, <4>1, LevelRead
    <3>5. b[s.d] \subseteq b[s.d + 1] BY <1>1, <3>4 DEF Level
    <3>3. ASSUME NEW e \in kept, e.src \in b[s.d + 1]
          PROVE  e \in s.edges \/ e \in t.rows \/ e.src \in ToSet(Tail(new))
      <4>1. CASE e.src \in b[s.d]
        <5>1. e \in s.edges \/ (s.frontier # <<>> /\ e.src \in ToSet(Tail(s.frontier)))
          BY <1>1, <2>4, <4>1 DEF Read
        <5> QED BY <2>4, <5>1, EmptyIsSeq
      <4>2. CASE e.src \notin b[s.d]
        BY <2>6, <3>1, <3>2, <3>3, <3>4, <4>2
      <4> QED BY <4>1, <4>2
    <3> HIDE DEF k
    <3>6. s.edges \subseteq {e \in kept : depth > 0 /\ e.src \in b[s.d + 1]}
      BY <1>1, <3>5 DEF Read
    <3> QED BY <1>7, <3>3, <3>6 DEF Read
  <2>8. Level(SubgraphBall(idx, t.q), SubgraphRel(idx, t.q), t.q.depth, t.d, t.frontier, t.next,
              {e.dst : e \in t.rows \intersect Kept(idx, t.q)}, t.seen)
    <3> HIDE DEF s
    <3>1. Level(b, R, depth, t.d, t.frontier, t.next,
            {e.dst : e \in t.rows \intersect kept}, t.seen)
      BY <2>2, <2>5, <2>6
    <3> QED BY <2>2, <3>1 DEF R, b, kept, depth
  <2>9. Read(Kept(idx, t.q), SubgraphBall(idx, t.q), t.q.depth, t.d, t.frontier, t.rows, t.edges)
    BY <2>2, <2>7 DEF b, kept, depth
  <2>10. SubgraphWalks(idx, t)
    BY <1>1, <2>2, <2>4, <2>6, <2>8, <2>9 DEF SubgraphWalks, depth
  <2> QED BY <1>1, <2>2, <2>3, <2>10 DEF SubgraphFits
<1> QED BY <1>5, <1>6, <1>7

-----------------------------------------------------------------------------
(* detect_changes.                                                         *)

Numbered(i) ==
  /\ IsFiniteSet(i.edges)
  /\ \A e \in i.edges : e.src \in Nat /\ e.conf \in Nat

ChangesRel(i, q) ==
  {<<e.dst, e.src>> : e \in {x \in Calls(i) : x.conf >= q.conf /\ IsSymbol(i, x.src)}}

ChangesBall(i, s) == Within(s.seeds, ChangesRel(i, s.q), s.q.depth)

ChangesFields == {"tool", "q", "at", "d", "frontier", "seeds", "seen", "found", "truncated"}

(* What is seen is the ball of d - 1 steps, and its nodes outside the      *)
(* frontier have no caller but those.                                      *)
Reached(b, R, depth, d, frontier, seen) ==
  /\ d \in 1 .. depth + 1 /\ seen = b[d - 1] /\ frontier \subseteq seen
  /\ \A p \in R : p[1] \in seen => p[2] \in seen \/ p[1] \in frontier

(* Of an answer that left something out, nothing but the seeds is known.   *)
Seeded(i, s) ==
  \A f \in ChangedFiles(s.q) : FileStatus(f) = "indexed" => SymbolsOfFile(f) \subseteq s.seeds

(* detect_changes between two levels, and once it has ended.               *)
ChangesFits(i, s) ==
  /\ s.tool = "detect_changes" /\ DOMAIN s = ChangesFields
  /\ s.q.depth \in Nat
  /\ s.at = "search" /\ ~s.truncated =>
       /\ Hits(ChangesBall(i, s), s.seeds, s.q.depth, s.found, s.seen)
       /\ Reached(ChangesBall(i, s), ChangesRel(i, s.q), s.q.depth, s.d, s.frontier, s.seen)
       /\ Len(s.found) >= ImpactCap => s.d > s.q.depth
  /\ s.at # "search" /\ ~s.truncated =>
       AtDistance(s.found, ChangesBall(i, s), s.q.depth, FALSE, ImpactCap)

(* The statement of a whole level returns what any of its nodes is called  *)
(* from.                                                                   *)
LEMMA ChangesRelation ==
  ASSUME NEW q
  PROVE  /\ {<<e.dst, e.src>> : e \in CallersOf({x.dst : x \in idx.edges}, q.conf)}
              = ChangesRel(idx, q)
         /\ \A nodes : {e.src : e \in CallersOf(nodes, q.conf)} = Image(ChangesRel(idx, q), nodes)
<1> DEFINE D == {x \in Calls(idx) : x.conf >= q.conf /\ IsSymbol(idx, x.src)}
           all == CallersOf({x.dst : x \in idx.edges}, q.conf)
           R == ChangesRel(idx, q)
<1>1. \A e \in D : e \in idx.edges BY DEF Calls
<1>2. all = D BY <1>1 DEF CallersOf
<1>3. {<<e.dst, e.src>> : e \in all} = ChangesRel(idx, q)
  <2> HIDE DEF all
  <2> QED BY <1>2 DEF ChangesRel
<1>4. ASSUME NEW nodes PROVE {e.src : e \in CallersOf(nodes, q.conf)} = Image(R, nodes)
  <2> DEFINE C == CallersOf(nodes, q.conf)
  <2>1. \A e : e \in C <=> e \in D /\ e.dst \in nodes BY DEF CallersOf
  <2> HIDE DEF C
  <2>2. ASSUME NEW e \in C PROVE e.src \in Image(R, nodes)
    <3> DEFINE p == <<e.dst, e.src>>
    <3>1. p \in R /\ p[1] \in nodes /\ p[2] = e.src BY <2>1 DEF ChangesRel
    <3> HIDE DEF p, R
    <3> QED BY <3>1 DEF Image
  <2>3. ASSUME NEW x \in Image(R, nodes) PROVE \E e \in C : e.src = x
    <3>1. PICK p \in R : p[1] \in nodes /\ p[2] = x BY DEF Image
    <3>2. PICK e \in D : p = <<e.dst, e.src>> BY DEF ChangesRel
    <3>3. e.dst \in nodes /\ e.src = x BY <3>1, <3>2
    <3> QED BY <2>1, <3>3
  <2> HIDE DEF R
  <2> QED BY <2>2, <2>3 DEF C
<1> QED BY <1>3, <1>4

(* A level adds the nodes that the frontier leads to and were not seen.    *)
LEMMA ReachedNext ==
  ASSUME NEW S, NEW R, NEW depth \in Nat, NEW b, b = Within(S, R, depth),
         NEW d, NEW frontier, NEW seen, Reached(b, R, depth, d, frontier, seen), d <= depth,
         NEW pending, pending = Image(R, frontier) \ seen
  PROVE  Reached(b, R, depth, d + 1, pending, seen \union pending)
<1>1. d \in 1 .. depth /\ d + 1 \in 1 .. depth + 1 /\ (d + 1) - 1 = d BY DEF Reached
<1>2. b[d] = b[d - 1] \union Image(R, b[d - 1]) BY <1>1, BallsGrow
<1>3. seen = b[d - 1] /\ frontier \subseteq seen
      /\ \A p \in R : p[1] \in seen => p[2] \in seen \/ p[1] \in frontier
  BY DEF Reached
<1>4. seen \union pending = b[d]
  <2>1. ASSUME NEW x \in b[d] PROVE x \in seen \union pending
    <3>1. CASE x \in b[d - 1] BY <1>3, <3>1
    <3>2. CASE x \in Image(R, b[d - 1])
      <4>1. PICK p \in R : p[1] \in b[d - 1] /\ p[2] = x BY <3>2 DEF Image
      <4>2. x \in seen \/ p[1] \in frontier BY <1>3, <4>1
      <4>3. p[1] \in frontier => x \in Image(R, frontier) BY <4>1 DEF Image
      <4> QED BY <4>2, <4>3
    <3> QED BY <1>2, <2>1, <3>1, <3>2
  <2>2. Image(R, frontier) \subseteq Image(R, b[d - 1]) BY <1>3 DEF Image
  <2> QED BY <1>2, <1>3, <2>1, <2>2
<1>5. ASSUME NEW p \in R, p[1] \in seen \union pending
      PROVE  p[2] \in seen \union pending \/ p[1] \in pending
  <2>1. CASE p[1] \in seen
    <3>1. p[2] \in Image(R, b[d - 1]) BY <1>3, <2>1 DEF Image
    <3> QED BY <1>2, <1>4, <3>1
  <2> QED BY <1>5, <2>1
<1> QED BY <1>1, <1>4, <1>5 DEF Reached

(* When the frontier is empty, all within the depth is seen.               *)
LEMMA ReachedAll ==
  ASSUME NEW S, NEW R, NEW depth \in Nat, NEW b, b = Within(S, R, depth),
         NEW d, NEW frontier, NEW seen, Reached(b, R, depth, d, frontier, seen),
         d > depth \/ frontier = {}
  PROVE  seen = b[depth]
<1>1. d \in 1 .. depth + 1 /\ seen = b[d - 1] BY DEF Reached
<1>2. CASE d > depth
  <2>1. d - 1 = depth BY <1>1, <1>2
  <2> QED BY <1>1, <2>1
<1>3. CASE d <= depth /\ frontier = {}
  <2>1. d - 1 \in 0 .. depth /\ depth \in (d - 1) .. depth BY <1>1, <1>3
  <2>2. Image(R, b[d - 1]) \subseteq b[d - 1] BY <1>1, <1>3 DEF Reached, Image
  <2>3. \A j \in (d - 1) .. depth : b[j] = b[d - 1] BY <2>1, <2>2, BallsEnd
  <2> QED BY <1>1, <2>1, <2>3
<1> QED BY <1>1, <1>2, <1>3

LEMMA FunIsSeq ==
  ASSUME NEW n \in Nat, NEW f, f = [i \in 1 .. n |-> f[i]]
  PROVE  IsSeq(f) /\ Len(f) = n /\ ToSet(f) = {f[i] : i \in 1 .. n} /\ DOMAIN f = 1 .. n
<1> DEFINE H == {f[i] : i \in 1 .. n}
           g(i) == f[i]
<1>1. f = [i \in 1 .. n |-> g(i)] /\ \A i \in 1 .. n : g(i) \in H
  OBVIOUS
<1> HIDE DEF H, g
<1>2. f \in [1 .. n -> H] BY <1>1
<1>3. f \in Seq(H) /\ Len(f) = n /\ DOMAIN f = 1 .. n BY <1>2
<1> QED BY <1>3, SeqIsSeq

LEMMA ConcatIsSeq ==
  ASSUME NEW s, IsSeq(s), NEW t, IsSeq(t)
  PROVE  /\ IsSeq(s \o t) /\ Len(s \o t) = Len(s) + Len(t)
         /\ ToSet(s \o t) = ToSet(s) \union ToSet(t)
<1> DEFINE S == ToSet(s) \union ToSet(t)
           u == s \o t
<1>1. s \in Seq(S) /\ t \in Seq(S) BY SeqMonotonic DEF IsSeq
<1>2. /\ u \in Seq(S) /\ Len(u) = Len(s) + Len(t) /\ Len(s) \in Nat /\ Len(t) \in Nat
      /\ \A i \in 1 .. Len(s) + Len(t) : u[i] = IF i <= Len(s) THEN s[i] ELSE t[i - Len(s)]
  BY <1>1, ConcatProperties
<1>3. /\ ToSet(s) = {s[i] : i \in 1 .. Len(s)} /\ ToSet(t) = {t[i] : i \in 1 .. Len(t)}
      /\ ToSet(u) = {u[i] : i \in 1 .. Len(u)} /\ IsSeq(u) /\ ToSet(u) \subseteq S
  BY <1>1, <1>2, SeqIsSeq
<1> HIDE DEF u
<1>4. ASSUME NEW i \in 1 .. Len(s) PROVE s[i] \in ToSet(u)
  <2>1. i \in 1 .. Len(s) + Len(t) /\ i <= Len(s) BY <1>2
  <2>2. u[i] = s[i] BY <1>2, <2>1
  <2> QED BY <1>2, <1>3, <2>1, <2>2
<1>5. ASSUME NEW i \in 1 .. Len(t) PROVE t[i] \in ToSet(u)
  <2> DEFINE j == Len(s) + i
  <2>1. j \in 1 .. Len(s) + Len(t) /\ ~(j <= Len(s)) /\ j - Len(s) = i BY <1>2
  <2> HIDE DEF j
  <2>2. u[j] = t[i] BY <1>2, <2>1
  <2> QED BY <1>2, <1>3, <2>1, <2>2
<1> QED BY <1>2, <1>3, <1>4, <1>5 DEF u

(* A finite set of numbers has a greatest.                                 *)
LEMMA MaxIs ==
  ASSUME NEW S, IsFiniteSet(S), S \subseteq Nat, S # {}
  PROVE  Max(S) \in S
<1> DEFINE R == {p \in S \X S : p[1] > p[2]}
           p == [i \in 1 .. Cardinality(S) |->
                   CHOOSE r \in S : Cardinality(Below(R, S, r)) = i - 1]
<1>1. StrictOrder(R, S)
  <2>1. \A x, y \in S : <<x, y>> \in R <=> x > y OBVIOUS
  <2> HIDE DEF R
  <2> QED BY <2>1 DEF StrictOrder
<1>2. Placed(p, S, R)
  <2>1. \A i \in 1 .. Cardinality(S) : p[i] = CHOOSE r \in S : Cardinality(Below(R, S, r)) = i - 1
    OBVIOUS
  <2>2. p = [i \in 1 .. Cardinality(S) |-> p[i]]
    <3> DEFINE c(i) == CHOOSE r \in S : Cardinality(Below(R, S, r)) = i - 1
    <3>1. p = [i \in 1 .. Cardinality(S) |-> c(i)] OBVIOUS
    <3> HIDE DEF p, c
    <3> QED BY <3>1
  <2> HIDE DEF p, R
  <2> QED BY <2>1, <2>2 DEF Placed
<1>3. Cardinality(S) \in Nat /\ Cardinality(S) # 0 BY FS_CardinalityType, FS_EmptySet
<1> HIDE DEF p
<1>4. /\ p \in Seq(S) /\ Len(p) = Cardinality(S) /\ ToSet(p) = S
      /\ \A i, j \in 1 .. Cardinality(S) : i < j => <<p[i], p[j]>> \in R
  <2> HIDE DEF R
  <2> QED BY <1>1, <1>2, Sorted
<1>5. 1 \in 1 .. Cardinality(S) BY <1>3
<1>6. p[1] \in S BY <1>4, <1>5
<1>7. ASSUME NEW y \in S PROVE p[1] >= y
  <2>1. PICK i \in 1 .. Cardinality(S) : p[i] = y BY <1>4, SeqIsSeq
  <2>2. i = 1 \/ 1 < i BY <1>3
  <2>3. 1 < i => <<p[1], p[i]>> \in R BY <1>4, <1>5
  <2>4. <<p[1], y>> \in R => p[1] > y OBVIOUS
  <2>5. CASE i = 1
    <3>1. y = p[1] /\ y \in Nat BY <2>1, <2>5
    <3> QED BY <3>1
  <2>6. CASE 1 < i
    <3>1. p[1] > y BY <2>1, <2>3, <2>4, <2>6
    <3>2. p[1] \in Nat /\ y \in Nat BY <1>6
    <3> QED BY ONLY <3>1, <3>2
  <2> QED BY <2>2, <2>5, <2>6
<1> QED BY <1>6, <1>7 DEF Max

(* The walk begins at what the changed files hold, answers with what it    *)
(* has found, and each level before goes one call further.                 *)
LEMMA ChangesStarts ==
  ASSUME ImpactCap \in Nat \ {0}, NEW q, q.depth \in Nat, AskChanges(q)
  PROVE  ChangesFits(idx, search') /\ Seeded(idx, search')
<1> DEFINE s == search'
           seeds == UNION {SymbolsOfFile(f) : f \in {g \in ChangedFiles(q) :
                                                    FileStatus(g) = "indexed"}}
           b == Within(seeds, ChangesRel(idx, q), q.depth)
           none == <<>>
<1>1. s = [tool |-> "detect_changes", q |-> q, at |-> "search", d |-> 1,
           frontier |-> seeds, seeds |-> seeds, seen |-> seeds, found |-> <<>>,
           truncated |-> FALSE]
  BY DEF AskChanges
<1>2. \A f \in ChangedFiles(q) : FileStatus(f) = "indexed" => SymbolsOfFile(f) \subseteq seeds
  OBVIOUS
<1> HIDE DEF seeds
<1>3. /\ s.tool = "detect_changes" /\ s.q = q /\ s.at = "search" /\ s.d = 1 /\ s.frontier = seeds
      /\ s.seeds = seeds /\ s.seen = seeds /\ s.found = none /\ ~s.truncated
      /\ DOMAIN s = ChangesFields
  BY <1>1 DEF ChangesFields
<1> HIDE DEF s
<1>4. Hits(b, seeds, q.depth, none, seeds) BY HitsBegin
<1>5. Reached(b, ChangesRel(idx, q), q.depth, 1, seeds, seeds)
  <2>1. b[0] = seeds BY BallsGrow
  <2>2. b[1 - 1] = seeds /\ 1 \in 1 .. q.depth + 1 BY <2>1
  <2> HIDE DEF b
  <2> QED BY <2>2 DEF Reached
<1>6. Len(none) = 0 BY EmptyIsSeq
<1> HIDE DEF b, none
<1>7. b = ChangesBall(idx, s) BY <1>3 DEF ChangesBall, b
<1>8. Seeded(idx, s) BY <1>2, <1>3 DEF Seeded
<1> QED BY <1>3, <1>4, <1>5, <1>6, <1>7, <1>8 DEF ChangesFits, s

LEMMA ChangesAnswerFits ==
  ASSUME ImpactCap \in Nat \ {0}, ChangesFits(idx, search), Seeded(idx, search), ChangesAnswer
  PROVE  ChangesFits(idx, search') /\ Seeded(idx, search')
<1> DEFINE s == search
           t == search'
           b == ChangesBall(idx, s)
           R == ChangesRel(idx, s.q)
<1>1. /\ s.at = "search" /\ t = [s EXCEPT !.at = "done"]
      /\ s.d > s.q.depth \/ s.frontier = {} \/ Len(s.found) >= ImpactCap
  BY DEF ChangesAnswer, Running, Continue
<1>2. /\ t.tool = s.tool /\ t.q = s.q /\ t.at = "done" /\ t.seeds = s.seeds /\ t.found = s.found
      /\ t.truncated = s.truncated /\ DOMAIN t = ChangesFields
  BY <1>1 DEF ChangesFits, ChangesFields
<1> HIDE DEF t
<1>3. ASSUME ~s.truncated PROVE AtDistance(s.found, b, s.q.depth, FALSE, ImpactCap)
  <2>1. /\ Hits(b, s.seeds, s.q.depth, s.found, s.seen)
        /\ Reached(b, R, s.q.depth, s.d, s.frontier, s.seen)
        /\ Len(s.found) >= ImpactCap => s.d > s.q.depth
        /\ s.q.depth \in Nat
    BY <1>1, <1>3 DEF ChangesFits
  <2>2. s.d > s.q.depth \/ s.frontier = {} BY <1>1, <2>1
  <2>3. b = Within(s.seeds, R, s.q.depth) BY DEF ChangesBall
  <2> HIDE DEF s, b, R
  <2>4. s.seen = b[s.q.depth] BY <2>1, <2>2, <2>3, ReachedAll
  <2>5. b[0] = s.seeds BY <2>1, <2>3, BallsGrow
  <2>6. Found(s.found) = b[s.q.depth] \ b[0] BY <2>1, <2>4, <2>5 DEF Hits
  <2> QED BY <2>1, <2>6 DEF AtDistance, Hits
<1>4. ChangesBall(idx, t) = b BY <1>2 DEF ChangesBall
<1>5. Seeded(idx, t) BY <1>2 DEF Seeded
<1> HIDE DEF s
<1> QED BY <1>1, <1>2, <1>3, <1>4, <1>5 DEF ChangesFits, s, t

LEMMA TakeAll ==
  ASSUME NEW S, NEW s \in Seq(S), NEW n \in Int, Len(s) <= n
  PROVE  Take(n, s) = s
<1>1. Len(s) \in Nat /\ (n < Len(s) \/ n = Len(s) \/ n > Len(s)) BY LenProperties
<1>2. (IF n < Len(s) THEN n ELSE Len(s)) = Len(s) BY <1>1
<1>3. Take(n, s) = SubSeq(s, 1, Len(s)) BY <1>2 DEF Take
<1> QED BY <1>3

LEMMA ChangesLevelFits ==
  ASSUME ImpactCap \in Nat \ {0}, Numbered(idx),
         ChangesFits(idx, search), Seeded(idx, search), ChangesLevel
  PROVE  ChangesFits(idx, search') /\ Seeded(idx, search')
<1> DEFINE s == search
           t == search'
           q == s.q
           b == ChangesBall(idx, s)
           R == ChangesRel(idx, q)
           edges   == {e \in CallersOf(s.frontier, q.conf) : e.src \notin s.seen}
           pending == {e.src : e \in edges}
           confs(n) == {e.conf : e \in {x \in edges : x.src = n}}
           conf    == [n \in pending |-> Max(confs(n))]
           room    == ImpactCap - Len(s.found)
           rows    == Ordered(pending, LAMBDA x, y :
                         conf[x] > conf[y] \/ (conf[x] = conf[y] /\ x < y))
           level   == Take(room, rows)
           hits    == [i \in DOMAIN level |->
                         [node |-> level[i], conf |-> conf[level[i]], distance |-> s.d]]
           found   == s.found \o hits
<1>1. /\ s.at = "search" /\ s.d <= q.depth /\ s.frontier # {} /\ Len(s.found) < ImpactCap
      /\ t = [s EXCEPT !.frontier = ToSet(level), !.seen = @ \union ToSet(level),
                       !.found = found, !.d = @ + 1,
                       !.truncated = @ \/ CutOff(s, pending, found)]
  BY DEF ChangesLevel, Running, Continue
<1>2. /\ s.tool = "detect_changes" /\ DOMAIN s = ChangesFields /\ q.depth \in Nat
  BY DEF ChangesFits
<1> HIDE DEF found, level
<1>3. /\ t.tool = s.tool /\ t.q = q /\ t.at = "search" /\ t.d = s.d + 1 /\ t.seeds = s.seeds
      /\ t.frontier = ToSet(level) /\ t.seen = s.seen \union ToSet(level) /\ t.found = found
      /\ t.truncated = (s.truncated \/ CutOff(s, pending, found)) /\ DOMAIN t = ChangesFields
  BY <1>1, <1>2 DEF ChangesFields
<1>4. ChangesBall(idx, t) = b BY <1>3 DEF ChangesBall
<1>5. Seeded(idx, t) BY <1>3 DEF Seeded
<1>6. CASE t.truncated
  <2> HIDE DEF s, t
  <2> QED BY <1>2, <1>3, <1>5, <1>6 DEF ChangesFits, t
<1>7. CASE ~t.truncated
  <2>1. ~s.truncated /\ ~CutOff(s, pending, found) BY <1>3, <1>7
  <2>2. /\ Hits(b, s.seeds, q.depth, s.found, s.seen)
        /\ Reached(b, R, q.depth, s.d, s.frontier, s.seen)
    BY <1>1, <2>1 DEF ChangesFits
  <2>3. pending = Image(R, s.frontier) \ s.seen
    <3>1. {e.src : e \in CallersOf(s.frontier, q.conf)} = Image(R, s.frontier)
      BY ChangesRelation
    <3> QED BY <3>1
  <2>4. /\ edges \subseteq idx.edges
        /\ \A e \in edges : e.src \in Nat /\ e.conf \in Nat
        /\ IsFiniteSet(edges)
    <3>1. edges \subseteq idx.edges BY DEF CallersOf, Calls
    <3> HIDE DEF edges
    <3> QED BY <3>1, FS_Subset DEF Numbered
  <2>5. pending \subseteq Nat /\ IsFiniteSet(pending) /\ Cardinality(pending) \in Nat
    <3> DEFINE f == [e \in edges |-> e.src]
    <3>1. DOMAIN f = edges OBVIOUS
    <3>2. {f[e] : e \in edges} = pending OBVIOUS
    <3> HIDE DEF f, edges
    <3>3. IsFiniteSet(pending) BY <2>4, <3>1, <3>2, FiniteImage
    <3> QED BY <2>4, <3>3, FS_CardinalityType
  <2>6. \A n \in pending : conf[n] \in Nat
    <3> SUFFICES ASSUME NEW n \in pending PROVE conf[n] \in Nat
      OBVIOUS
    <3> DEFINE own == {x \in edges : x.src = n}
               f == [e \in own |-> e.conf]
    <3>1. DOMAIN f = own /\ {f[e] : e \in own} = confs(n) OBVIOUS
    <3>2. own \subseteq edges /\ own # {} OBVIOUS
    <3> HIDE DEF edges
    <3>3. IsFiniteSet(own) BY <2>4, <3>2, FS_Subset
    <3>4. confs(n) \subseteq Nat /\ confs(n) # {} BY <2>4, <3>2
    <3> HIDE DEF f, own
    <3>5. IsFiniteSet(confs(n)) BY <3>1, <3>3, FiniteImage
    <3>6. conf[n] = Max(confs(n)) OBVIOUS
    <3> HIDE DEF confs, conf
    <3> QED BY <3>4, <3>5, <3>6, MaxIs
  <2> DEFINE before(x, y) == conf[x] > conf[y] \/ (conf[x] = conf[y] /\ x < y)
             O == {p \in pending \X pending : before(p[1], p[2])}
  <2> HIDE DEF conf, pending
  <2>7. \A x, y \in pending : <<x, y>> \in O <=> before(x, y)
    <3> HIDE DEF before
    <3> QED OBVIOUS
  <2>8. StrictOrder(O, pending)
    <3> HIDE DEF O
    <3>1. \A x \in pending : ~before(x, x) BY <2>5, <2>6
    <3>2. \A x, y \in pending : x # y => before(x, y) \/ before(y, x) BY <2>5, <2>6
    <3>3. \A x, y, z \in pending : before(x, y) /\ before(y, z) => before(x, z) BY <2>5, <2>6
    <3> HIDE DEF before
    <3> QED BY <2>7, <3>1, <3>2, <3>3 DEF StrictOrder
  <2>9. Placed(rows, pending, O)
    <3> DEFINE c(i) == CHOOSE r \in pending : Cardinality({x \in pending : before(x, r)}) = i - 1
    <3>1. rows = [i \in 1 .. Cardinality(pending) |-> c(i)] BY DEF Ordered
    <3>2. \A r \in pending : Below(O, pending, r) = {x \in pending : before(x, r)}
      <4> HIDE DEF O, before
      <4> QED BY <2>7 DEF Below
    <3> HIDE DEF rows, O, before
    <3>3. ASSUME NEW i \in 1 .. Cardinality(pending),
                 \E r \in pending : Cardinality(Below(O, pending, r)) = i - 1
          PROVE  c(i) \in pending /\ Cardinality(Below(O, pending, c(i))) = i - 1
      <4>1. \E r \in pending : Cardinality({x \in pending : before(x, r)}) = i - 1
        BY <3>2, <3>3
      <4>2. c(i) \in pending /\ Cardinality({x \in pending : before(x, c(i))}) = i - 1
        BY <4>1
      <4> HIDE DEF c
      <4> QED BY <3>2, <4>2
    <3> HIDE DEF c
    <3> QED BY <3>1, <3>3 DEF Placed
  <2> HIDE DEF O, rows
  <2>10. rows \in Seq(pending) /\ Len(rows) = Cardinality(pending) /\ ToSet(rows) = pending
    BY <2>5, <2>8, <2>9, Sorted
  <2>11. Len(s.found) \in Nat BY <2>2 DEF Hits, IsSeq
  <2>12. /\ Cardinality(pending) <= room /\ room \in Int
         /\ Len(found) >= ImpactCap => s.d + 1 > q.depth \/ Len(found) = Len(s.found)
    <3>1. Cardinality(pending) <= room /\ room \in Int BY <2>1, <2>5, <2>11 DEF CutOff
    <3>2. /\ s.d \in Int BY <2>2 DEF Reached
    <3>3. IsSeq(hits) => Len(found) \in Nat /\ Len(found) >= Len(s.found)
      <4>1. ASSUME IsSeq(hits) PROVE Len(found) = Len(s.found) + Len(hits) /\ Len(hits) \in Nat
        <5> HIDE DEF hits
        <5> QED BY <2>2, <4>1, ConcatIsSeq DEF Hits, found, IsSeq
      <4> QED BY <2>11, <4>1
    <3>4. IsSeq(hits)
      <4>1. level = rows BY <2>10, <3>1, TakeAll DEF level
      <4>2. DOMAIN level = 1 .. Cardinality(pending) BY <2>10, <4>1
      <4> DEFINE hit(i) == [node |-> level[i], conf |-> conf[level[i]], distance |-> s.d]
      <4>3. hits = [i \in 1 .. Cardinality(pending) |-> hit(i)] BY <4>2
      <4> HIDE DEF hits, hit
      <4>4. hits = [i \in 1 .. Cardinality(pending) |-> hits[i]] BY <4>3
      <4> QED BY <2>5, <4>4, FunIsSeq
    <3>5. ~(Len(found) >= ImpactCap /\ s.d < q.depth /\ Len(found) > Len(s.found))
      BY <2>1 DEF CutOff
    <3> HIDE DEF hits, room, s, q
    <3> QED BY <1>2, <2>11, <3>1, <3>2, <3>3, <3>4, <3>5
  <2>13. level = rows BY <2>10, <2>12, TakeAll DEF level
  <2>14. ToSet(level) = pending /\ level \in Seq(pending) /\ Len(level) = Cardinality(pending)
    BY <2>10, <2>13
  <2>15. /\ Reached(b, R, q.depth, s.d + 1, pending, s.seen \union pending)
         /\ \A n \in pending : n \in b[s.d] \ b[s.d - 1]
    <3>1. b = Within(s.seeds, R, q.depth) BY DEF ChangesBall
    <3> HIDE DEF b, R
    <3>3. Reached(b, R, q.depth, s.d, s.frontier, s.seen) /\ q.depth \in Nat /\ s.d <= q.depth
      BY <1>1, <1>2, <2>2
    <3> DEFINE d == s.d
               depth == q.depth
    <3>4. Reached(b, R, depth, d, s.frontier, s.seen) /\ depth \in Nat /\ d <= depth
          /\ b = Within(s.seeds, R, depth)
      BY <3>1, <3>3
    <3> HIDE DEF s, q, d, depth
    <3>5. Reached(b, R, depth, d + 1, pending, s.seen \union pending)
      BY <2>3, <3>4, ReachedNext
    <3>6. pending \subseteq b[d]
      <4>1. (d + 1) - 1 = d BY <3>4 DEF Reached
      <4> QED BY <3>5, <4>1 DEF Reached
    <3>7. pending \intersect b[d - 1] = {}
      BY <2>3, <3>4 DEF Reached
    <3> QED BY <3>5, <3>6, <3>7 DEF d, depth
  <2>16. /\ IsSeq(hits) /\ Len(hits) = Cardinality(pending)
         /\ \A r \in ToSet(hits) : r.node \in pending /\ r.distance = s.d
         /\ \A n \in pending : \E r \in ToSet(hits) : r.node = n
    <3>1. DOMAIN level = 1 .. Cardinality(pending)
          /\ \A i \in 1 .. Cardinality(pending) : level[i] \in pending
      BY <2>14
    <3>2. pending = {level[i] : i \in 1 .. Cardinality(pending)} BY <2>14, SeqIsSeq
    <3>3. \A i \in 1 .. Cardinality(pending) : hits[i].node = level[i] /\ hits[i].distance = s.d
      BY <3>1
    <3> DEFINE hit(i) == [node |-> level[i], conf |-> conf[level[i]], distance |-> s.d]
    <3>4. hits = [i \in 1 .. Cardinality(pending) |-> hit(i)] BY <3>1
    <3> HIDE DEF hits, hit
    <3>6. hits = [i \in 1 .. Cardinality(pending) |-> hits[i]] BY <3>4
    <3>5. IsSeq(hits) /\ Len(hits) = Cardinality(pending)
          /\ ToSet(hits) = {hits[i] : i \in 1 .. Cardinality(pending)}
      BY <2>5, <3>6, FunIsSeq
    <3> QED BY <3>1, <3>2, <3>3, <3>5
  <2>17. Hits(b, s.seeds, q.depth, found, s.seen \union pending)
    <3>1. /\ IsSeq(found) /\ Len(found) = Len(s.found) + Cardinality(pending)
          /\ ToSet(found) = ToSet(s.found) \union ToSet(hits)
      <4> HIDE DEF hits
      <4> QED BY <2>2, <2>16, ConcatIsSeq DEF Hits, found
    <3> HIDE DEF hits
    <3>2. Found(hits) = pending BY <2>16 DEF Found
    <3>3. Found(found) = Found(s.found) \union pending BY <3>1, <3>2 DEF Found
    <3>4. /\ IsFiniteSet(Found(s.found)) /\ Found(s.found) \subseteq s.seen
          /\ Distinct(s.found) /\ s.seen = s.seeds \union Found(s.found)
          /\ Found(s.found) \intersect s.seeds = {}
      BY <2>2 DEF Hits
    <3>5. Found(s.found) \intersect pending = {} /\ pending \intersect s.seeds = {}
      BY <2>3, <3>4
    <3>6. /\ IsFiniteSet(Found(found))
          /\ Cardinality(Found(found)) = Cardinality(Found(s.found)) + Cardinality(pending)
      BY <2>5, <3>3, <3>4, <3>5, FS_Union, FS_EmptySet, FS_CardinalityType
    <3>7. Distinct(found) BY <3>1, <3>4, <3>6 DEF Distinct
    <3>8. ASSUME NEW r \in ToSet(found)
          PROVE  r.distance \in 1 .. q.depth /\ r.node \in b[r.distance] \ b[r.distance - 1]
      <4>1. CASE r \in ToSet(s.found) BY <2>2, <4>1 DEF Hits
      <4>2. CASE r \in ToSet(hits)
        <5>1. r.node \in pending /\ r.distance = s.d BY <2>16, <4>2
        <5>2. s.d \in 1 .. q.depth BY <1>1, <1>2, <2>2 DEF Reached
        <5> QED BY <2>15, <5>1, <5>2
      <4> QED BY <3>1, <3>8, <4>1, <4>2
    <3>9. /\ s.seen \union pending = s.seeds \union Found(found)
          /\ Found(found) \intersect s.seeds = {}
      BY <3>3, <3>4, <3>5
    <3> QED BY <3>1, <3>6, <3>7, <3>8, <3>9 DEF Hits
  <2>18. Len(found) >= ImpactCap => s.d + 1 > q.depth
    BY <1>1, <2>11, <2>12
  <2> HIDE DEF s, t
  <2>19. /\ Hits(ChangesBall(idx, t), t.seeds, t.q.depth, t.found, t.seen)
         /\ Reached(ChangesBall(idx, t), ChangesRel(idx, t.q), t.q.depth, t.d, t.frontier, t.seen)
         /\ Len(t.found) >= ImpactCap => t.d > t.q.depth
    BY <1>3, <1>4, <2>14, <2>15, <2>17, <2>18
  <2> QED BY <1>2, <1>3, <1>5, <2>19 DEF ChangesFits, t
<1> QED BY <1>6, <1>7

(* An answer that is called complete has the files of the commit, their    *)
(* symbols, and all callers within the depth.                              *)
LEMMA ChangesEndsIsExact ==
  ASSUME ChangesFits(idx, search), Seeded(idx, search), search.at = "done"
  PROVE  ChangesAreComplete(search)
<1> DEFINE s == search
           source == ChangedFiles(s.q) \intersect idx.source
           R == ChangesRel(idx, s.q)
<1> SUFFICES ASSUME AnalysisComplete(s)
             PROVE  /\ idx.commit = idx.compared
                    /\ \A f \in source : /\ idx.rows[f] # Missing /\ idx.rows[f] = idx.target[f]
                                         /\ SymbolsOfFile(f) \subseteq s.seeds
                    /\ AtDistance(s.found, Within(s.seeds, R, s.q.depth), s.q.depth, FALSE,
                         ImpactCap)
  <2> DEFINE Rel == {<<e.dst, e.src>> : e \in CallersOf({x.dst : x \in idx.edges}, s.q.conf)}
  <2>1. R = Rel BY ChangesRelation
  <2> HIDE DEF R, Rel
  <2> QED BY <2>1 DEF ChangesAreComplete, Rel
<1>1. idx.commit = idx.compared BY DEF AnalysisComplete, IndexRevision
<1>2. ASSUME NEW f \in source
      PROVE  /\ idx.rows[f] # Missing /\ idx.rows[f] = idx.target[f]
             /\ SymbolsOfFile(f) \subseteq s.seeds
  <2>1. ~Unmapped(f) /\ ~Unverified(f)
    <3>1. source # {} /\ MappingStatus(ChangedFiles(s.q)) \in {"complete", "no_source_changes"}
      BY <1>2 DEF AnalysisComplete
    <3> QED BY <1>2, <3>1 DEF MappingStatus
  <2>2. FileStatus(f) = "indexed" /\ SourceStatus(f) # "unknown"
    BY <1>2, <2>1 DEF Unmapped, Unverified
  <2>3. /\ idx.rows[f] # Missing
        /\ SourceStatus(f) \notin {"content_mismatch", "not_in_target_revision",
                                   "verification_limit_exceeded"}
    BY <2>2 DEF FileStatus
  <2>4. idx.target[f] = idx.rows[f] BY <2>2, <2>3 DEF SourceStatus
  <2> QED BY <1>2, <2>2, <2>3, <2>4 DEF Seeded
<1>3. AtDistance(s.found, Within(s.seeds, R, s.q.depth), s.q.depth, FALSE, ImpactCap)
  BY DEF ChangesFits, ChangesBall, AnalysisComplete
<1> QED BY <1>1, <1>2, <1>3

(* symbol_get with a key finds what has the key.                           *)
LEMMA SymbolGetFits ==
  ASSUME NEW h, h.by \in {"key", "id"}, AskSymbol(h)
  PROVE  /\ search'.tool = "symbol_get" /\ search'.at = "done"
         /\ search'.q.key = NoKey \/ search'.rows \subseteq {search'.q.key}
<1>1. search' = [tool |-> "symbol_get", q |-> h, at |-> "done",
                 rows |-> {KeyOf(n) : n \in {m \in Resolve(h) : IsSymbol(idx, m)}}]
  BY DEF AskSymbol
<1>2. ASSUME h.key # NoKey PROVE \A n \in Resolve(h) : KeyOf(n) = h.key
  <2>1. CASE h.by = "key" BY <2>1 DEF Resolve, KeyedNodes
  <2>2. CASE h.by = "id" BY <1>2, <2>2 DEF Resolve, KeyedNodes
  <2> QED BY <2>1, <2>2
<1> QED BY <1>1, <1>2

-----------------------------------------------------------------------------
(* shortest_path.  A queue is a tree: each place but the first has an      *)
(* earlier one as its parent.                                              *)

Tree(queue) ==
  /\ IsSeq(queue) /\ Len(queue) \in Nat \ {0}
  /\ \A i \in 2 .. Len(queue) : queue[i].parent \in 1 .. i - 1

(* The paths to the entries of a queue as a function, which exists and is  *)
(* unique although PathTo is defined by recursion.                         *)
IsPathing(f, queue, i) ==
  f = [j \in 1 .. i |-> IF j = 1 THEN <<queue[1].node>>
                        ELSE Append(f[queue[j].parent], queue[j].node)]

LEMMA PathingExists ==
  ASSUME NEW queue, NEW n \in Nat, \A j \in 2 .. n : queue[j].parent \in 1 .. j - 1
  PROVE  \E f : IsPathing(f, queue, n)
<1> DEFINE T == {i \in 0 .. n : \E f : IsPathing(f, queue, i)}
           up(j) == queue[j].parent
           one == <<queue[1].node>>
<1>1. 0 \in T
  <2> DEFINE f == [j \in 1 .. 0 |-> 0]
             e(j) == IF j = 1 THEN one ELSE Append(f[up(j)], queue[j].node)
  <2>1. f = [j \in 1 .. 0 |-> e(j)]
    <3> HIDE DEF e
    <3> QED OBVIOUS
  <2> HIDE DEF f
  <2>2. IsPathing(f, queue, 0) BY <2>1 DEF IsPathing
  <2> QED BY <2>2
<1>2. ASSUME NEW i \in 0 .. n - 1, i \in T PROVE i + 1 \in T
  <2>1. PICK f : IsPathing(f, queue, i) BY <1>2
  <2> DEFINE c(j) == IF j = 1 THEN one ELSE Append(f[up(j)], queue[j].node)
             g == [j \in 1 .. i + 1 |-> c(j)]
             e(j) == IF j = 1 THEN one ELSE Append(g[up(j)], queue[j].node)
  <2>2. \A j \in 1 .. i : f[j] = c(j)
    <3>1. f = [j \in 1 .. i |-> c(j)] BY <2>1 DEF IsPathing
    <3> HIDE DEF c
    <3> QED BY <3>1
  <2>3. ASSUME NEW j \in 1 .. i + 1 PROVE g[j] = e(j)
    <3>1. g[j] = c(j) OBVIOUS
    <3>2. CASE j = 1 BY <3>1, <3>2
    <3>3. CASE j # 1
      <4>1. j \in 2 .. n /\ up(j) \in 1 .. j - 1 BY <3>3
      <4>2. up(j) \in 1 .. i /\ up(j) \in 1 .. i + 1 BY <4>1
      <4>3. g[up(j)] = f[up(j)]
        <5> HIDE DEF c, up
        <5> QED BY <2>2, <4>2
      <4> HIDE DEF g
      <4> QED BY <3>1, <3>3, <4>3
    <3> QED BY <3>2, <3>3
  <2> HIDE DEF c
  <2>4. g = [j \in 1 .. i + 1 |-> g[j]] OBVIOUS
  <2> HIDE DEF g, e
  <2>5. g = [j \in 1 .. i + 1 |-> e(j)] BY <2>3, <2>4
  <2>6. IsPathing(g, queue, i + 1) BY <2>5 DEF IsPathing, e
  <2> QED BY <2>6
<1>3. \A i \in 0 .. n : i \in T
  <2> HIDE DEF T
  <2> QED BY <1>1, <1>2, InductionUpto
<1> QED BY <1>3

Agree(p, q, k) ==
  /\ \A j \in 1 .. k : p[j] = q[j]
  /\ \A j \in 2 .. k : p[j].parent \in 1 .. j - 1

(* Two of them are the same where the queues are.                          *)
LEMMA PathingAgrees ==
  ASSUME NEW p, NEW q, NEW m \in Nat, NEW n \in Nat, NEW k \in Nat, k <= m, k <= n,
         NEW f, IsPathing(f, p, m), NEW g, IsPathing(g, q, n),
         Agree(p, q, k)
  PROVE  \A j \in 1 .. k : f[j] = g[j]
<1> DEFINE T == {i \in 0 .. k : \A j \in 1 .. i : f[j] = g[j]}
<1>1. 0 \in T OBVIOUS
<1>2. ASSUME NEW i \in 0 .. k - 1, i \in T PROVE i + 1 \in T
  <2> DEFINE j == i + 1
  <2>1. j \in 1 .. k /\ j \in 1 .. m /\ j \in 1 .. n /\ 1 \in 1 .. k OBVIOUS
  <2>2. f[j] = IF j = 1 THEN <<p[1].node>> ELSE Append(f[p[j].parent], p[j].node)
    <3> HIDE DEF j
    <3> QED BY <2>1 DEF IsPathing
  <2>3. g[j] = IF j = 1 THEN <<q[1].node>> ELSE Append(g[q[j].parent], q[j].node)
    <3> HIDE DEF j
    <3> QED BY <2>1 DEF IsPathing
  <2>4. p[j] = q[j] /\ p[1] = q[1] BY <2>1 DEF Agree
  <2>5. ASSUME j = 1 PROVE f[j] = g[j] BY <2>2, <2>3, <2>4, <2>5
  <2>6. ASSUME j # 1 PROVE f[j] = g[j]
    <3>1. j \in 2 .. k BY <2>6
    <3>2. p[j].parent \in 1 .. j - 1 BY <3>1 DEF Agree
    <3>3. p[j].parent \in 1 .. i BY <3>2
    <3>4. f[p[j].parent] = g[p[j].parent] BY <1>2, <3>3
    <3> HIDE DEF j
    <3>5. f[j] = Append(f[p[j].parent], p[j].node) BY <2>2, <2>6
    <3>6. g[j] = Append(g[q[j].parent], q[j].node) BY <2>3, <2>6
    <3> QED BY <2>4, <3>4, <3>5, <3>6
  <2>7. f[j] = g[j] BY <2>5, <2>6
  <2>8. \A x \in 1 .. i + 1 : x \in 1 .. i \/ x = j OBVIOUS
  <2> HIDE DEF j
  <2> QED BY <1>2, <2>7, <2>8
<1>3. \A i \in 0 .. k : i \in T
  <2> HIDE DEF T
  <2> QED BY <1>1, <1>2, InductionUpto
<1> QED BY <1>3

(* PathTo is that function, and so has its equation.                       *)
LEMMA PathToIs ==
  ASSUME NEW queue, Tree(queue), NEW f, IsPathing(f, queue, Len(queue)), NEW i \in 1 .. Len(queue)
  PROVE  PathTo(queue, i) = f[i]
<1> DEFINE g == CHOOSE h : IsPathing(h, queue, i)
<1>1. i \in Nat /\ \A j \in 2 .. i : queue[j].parent \in 1 .. j - 1
  BY DEF Tree
<1>2. \E h : IsPathing(h, queue, i) BY <1>1, PathingExists
<1>3. IsPathing(g, queue, i) BY <1>2
<1>4. PathTo(queue, i) = g[i] BY DEF PathTo, IsPathing
<1> HIDE DEF g
<1>5. Len(queue) \in Nat /\ i <= Len(queue) /\ i \in 1 .. i BY DEF Tree
<1>6. \A j \in 1 .. i : g[j] = f[j]
  <2>1. Agree(queue, queue, i) /\ i <= i BY <1>1 DEF Agree
  <2> QED BY <1>1, <1>3, <1>5, <2>1, PathingAgrees
<1> QED BY <1>4, <1>5, <1>6

LEMMA PathToSteps ==
  ASSUME NEW queue, Tree(queue)
  PROVE  /\ PathTo(queue, 1) = <<queue[1].node>>
         /\ \A i \in 2 .. Len(queue) :
              PathTo(queue, i) = Append(PathTo(queue, queue[i].parent), queue[i].node)
<1>1. Len(queue) \in Nat /\ 1 \in 1 .. Len(queue) BY DEF Tree
<1>2. \A j \in 2 .. Len(queue) : queue[j].parent \in 1 .. j - 1 BY DEF Tree
<1>3. PICK f : IsPathing(f, queue, Len(queue)) BY <1>1, <1>2, PathingExists
<1>4. \A i \in 1 .. Len(queue) : PathTo(queue, i) = f[i] BY <1>3, PathToIs
<1>5. f[1] = <<queue[1].node>> BY <1>1, <1>3 DEF IsPathing
<1>6. ASSUME NEW i \in 2 .. Len(queue)
      PROVE  PathTo(queue, i) = Append(PathTo(queue, queue[i].parent), queue[i].node)
  <2>1. i \in 1 .. Len(queue) /\ i # 1 BY <1>1
  <2>2. queue[i].parent \in 1 .. Len(queue) BY <1>1, <1>2
  <2>3. f[i] = IF i = 1 THEN <<queue[1].node>> ELSE Append(f[queue[i].parent], queue[i].node)
    BY <1>3, <2>1 DEF IsPathing
  <2>4. f[i] = Append(f[queue[i].parent], queue[i].node) BY <2>1, <2>3
  <2> QED BY <1>4, <2>1, <2>2, <2>4
<1> QED BY <1>1, <1>4, <1>5, <1>6

(* A new place leaves the paths to the others as they are.                 *)
Grown(more, queue, h, x) ==
  /\ Tree(queue) /\ h \in 1 .. Len(queue) /\ x.parent = h
  /\ more = Append(queue, x)

(* One more entry at the end of a queue leaves the paths to the others.    *)
Longer(more, queue, x) ==
  /\ Len(more) = Len(queue) + 1 /\ more[Len(queue) + 1] = x
  /\ \A i \in 1 .. Len(queue) : more[i] = queue[i]

SamePaths(more, queue) ==
  \A i \in 1 .. Len(queue) : PathTo(more, i) = PathTo(queue, i)

LEMMA TreeGrows ==
  ASSUME NEW queue, NEW h, NEW x, NEW more, Grown(more, queue, h, x)
  PROVE  /\ Tree(more) /\ Longer(more, queue, x) /\ SamePaths(more, queue)
         /\ PathTo(more, Len(queue) + 1) = Append(PathTo(queue, h), x.node)
<1> DEFINE n == Len(queue)
<1>0. Tree(queue) /\ h \in 1 .. n /\ x.parent = h /\ more = Append(queue, x) BY DEF Grown
<1>1. IsSeq(queue) /\ n \in Nat \ {0} /\ \A i \in 2 .. n : queue[i].parent \in 1 .. i - 1
  BY <1>0 DEF Tree
<1>2. /\ IsSeq(more) /\ Len(more) = n + 1 /\ \A i \in 1 .. n : more[i] = queue[i]
      /\ more[n + 1] = x
  BY <1>0, <1>1, AppendIsSeq
<1> HIDE DEF n
<1>3. Tree(more)
  <2>1. ASSUME NEW i \in 2 .. n + 1 PROVE more[i].parent \in 1 .. i - 1
    <3>1. CASE i = n + 1
      <4>1. more[i].parent = h BY <1>0, <1>2, <3>1
      <4>2. h \in 1 .. n BY <1>0
      <4> QED BY <1>1, <3>1, <4>1, <4>2
    <3>2. CASE i \in 2 .. n
      <4>1. i \in 1 .. n BY <1>1, <3>2
      <4> QED BY <1>1, <1>2, <3>2, <4>1
    <3>3. i = n + 1 \/ i \in 2 .. n BY <1>1
    <3> QED BY <3>1, <3>2, <3>3
  <2> QED BY <1>1, <1>2, <2>1 DEF Tree
<1>4. ASSUME NEW i \in 1 .. n PROVE PathTo(more, i) = PathTo(queue, i)
  <2>1. PICK f : IsPathing(f, queue, n) BY <1>1, PathingExists
  <2>2. \A j \in 2 .. n + 1 : more[j].parent \in 1 .. j - 1 BY <1>2, <1>3 DEF Tree
  <2>3. PICK g : IsPathing(g, more, n + 1)
    <3>1. n + 1 \in Nat BY <1>1
    <3> QED BY <2>2, <3>1, PathingExists
  <2>4. PathTo(queue, i) = f[i] BY <1>0, <2>1, PathToIs DEF n
  <2>5. PathTo(more, i) = g[i]
    <3>1. i \in 1 .. Len(more) /\ IsPathing(g, more, Len(more)) BY <1>1, <1>2, <2>3
    <3> QED BY <1>3, <3>1, PathToIs
  <2>6. \A j \in 1 .. n : f[j] = g[j]
    <3>1. n \in Nat /\ n + 1 \in Nat /\ n <= n /\ n <= n + 1 BY <1>1
    <3>2. Agree(queue, more, n) BY <1>1, <1>2 DEF Agree
    <3> QED BY <1>1, <2>1, <2>3, <3>1, <3>2, PathingAgrees
  <2> QED BY <2>4, <2>5, <2>6
<1>5. PathTo(more, n + 1) = Append(PathTo(queue, h), x.node)
  <2>1. n + 1 \in 2 .. Len(more) BY <1>1, <1>2
  <2>2. PathTo(more, n + 1) = Append(PathTo(more, more[n + 1].parent), more[n + 1].node)
    BY <1>3, <2>1, PathToSteps
  <2>3. h \in 1 .. n BY <1>0
  <2> QED BY <1>0, <1>2, <1>4, <2>2, <2>3
<1>6. Longer(more, queue, x) BY <1>2 DEF Longer, n
<1>7. SamePaths(more, queue) BY <1>4 DEF SamePaths, n
<1> QED BY <1>3, <1>5, <1>6, <1>7 DEF n

(* Each path leads from the first place to its own along the relation.     *)
Leads(path, R, a, z) ==
  /\ IsSeq(path) /\ Len(path) \in Nat \ {0} /\ path[1] = a /\ path[Len(path)] = z
  /\ \A i \in 1 .. Len(path) - 1 : <<path[i], path[i + 1]>> \in R

(* A path of links grows by a link.                                        *)
LEMMA LeadsOn ==
  ASSUME NEW R, NEW a, NEW z, NEW path, Leads(path, R, a, z), NEW n, <<z, n>> \in R
  PROVE  Leads(Append(path, n), R, a, n)
<1> DEFINE more == Append(path, n)
           k == Len(path)
<1>1. /\ IsSeq(path) /\ k \in Nat \ {0} /\ path[1] = a /\ path[k] = z
      /\ \A i \in 1 .. k - 1 : <<path[i], path[i + 1]>> \in R
  BY DEF Leads
<1>2. /\ IsSeq(more) /\ Len(more) = k + 1 /\ \A i \in 1 .. k : more[i] = path[i]
      /\ more[k + 1] = n
  BY <1>1, AppendIsSeq
<1> HIDE DEF more, k
<1>3. ASSUME NEW i \in 1 .. k PROVE <<more[i], more[i + 1]>> \in R
  <2>1. CASE i = k
    <3>1. more[i] = z /\ more[i + 1] = n BY <1>1, <1>2, <2>1
    <3> QED BY <3>1
  <2>2. CASE i # k
    <3>1. i \in 1 .. k - 1 /\ i + 1 \in 1 .. k BY <1>1, <2>2
    <3>2. more[i] = path[i] /\ more[i + 1] = path[i + 1] BY <1>2, <3>1
    <3> QED BY <1>1, <3>1, <3>2
  <2> QED BY <2>1, <2>2
<1>4. (k + 1) - 1 = k /\ 1 \in 1 .. k BY <1>1
<1> QED BY <1>1, <1>2, <1>3, <1>4 DEF Leads, more

(* A tree each of whose entries is linked to its parent: all its paths are *)
(* paths of links.                                                         *)
Along(queue, R) ==
  \A i \in 2 .. Len(queue) : <<queue[queue[i].parent].node, queue[i].node>> \in R

LEMMA TreeLeads ==
  ASSUME NEW queue, Tree(queue), NEW R, Along(queue, R)
  PROVE  \A i \in 1 .. Len(queue) : Leads(PathTo(queue, i), R, queue[1].node, queue[i].node)
<1> DEFINE n == Len(queue)
           L(i) == Leads(PathTo(queue, i), R, queue[1].node, queue[i].node)
           T == {i \in 0 .. n : \A j \in 1 .. i : L(j)}
<1>1. n \in Nat \ {0} /\ \A i \in 2 .. n : queue[i].parent \in 1 .. i - 1
  BY DEF Tree
<1>2. L(1)
  <2> DEFINE one == <<queue[1].node>>
  <2>1. PathTo(queue, 1) = one BY PathToSteps
  <2>2. IsSeq(one) /\ Len(one) = 1 /\ one[1] = queue[1].node BY DEF IsSeq, ToSet
  <2> HIDE DEF one
  <2>3. Leads(one, R, queue[1].node, queue[1].node) BY <2>2 DEF Leads
  <2> QED BY <2>1, <2>3
<1>3. 0 \in T BY <1>1
<1>4. ASSUME NEW i \in 0 .. n - 1, i \in T PROVE i + 1 \in T
  <2> DEFINE j == i + 1
  <2>1. j \in 1 .. n OBVIOUS
  <2>2. ASSUME j = 1 PROVE L(j) BY <1>2, <2>2
  <2>3. ASSUME j # 1 PROVE L(j)
    <3>1. j \in 2 .. n BY <2>1, <2>3
    <3>2. queue[j].parent \in 1 .. i BY <1>1, <3>1
    <3>3. L(queue[j].parent) BY <1>4, <3>2
    <3> HIDE DEF j
    <3>4. PathTo(queue, j) = Append(PathTo(queue, queue[j].parent), queue[j].node)
      BY <3>1, PathToSteps
    <3>5. <<queue[queue[j].parent].node, queue[j].node>> \in R BY <3>1 DEF Along
    <3> DEFINE path == PathTo(queue, queue[j].parent)
               a == queue[1].node
               z == queue[queue[j].parent].node
               m == queue[j].node
    <3>6. Leads(path, R, a, z) /\ <<z, m>> \in R BY <3>3, <3>5
    <3> HIDE DEF path, a, z, m
    <3>7. Leads(Append(path, m), R, a, m) BY <3>6, LeadsOn
    <3>8. PathTo(queue, j) = Append(path, m) BY <3>4 DEF path, m
    <3>9. Leads(PathTo(queue, j), R, a, m) BY ONLY <3>7, <3>8, Zenon
    <3> QED BY <3>9 DEF a, m
  <2>4. L(j) BY <2>2, <2>3
  <2>5. \A x \in 1 .. i + 1 : x \in 1 .. i \/ x = j OBVIOUS
  <2> HIDE DEF j, L
  <2>6. \A x \in 1 .. i + 1 : L(x) BY <1>4, <2>4, <2>5
  <2>7. i + 1 \in 0 .. n BY <1>1
  <2> QED BY <2>6, <2>7
<1>5. \A i \in 0 .. n : i \in T
  <2> HIDE DEF T, n
  <2> QED BY <1>1, <1>3, <1>4, InductionUpto
<1>6. \A i \in 1 .. n : i \in 0 .. n /\ i \in 1 .. i BY <1>1
<1> HIDE DEF L
<1> QED BY <1>5, <1>6 DEF L

(* The search: depths do not fall along the queue, no place is the end,    *)
(* and what an expanded place leads to has a place no deeper than one more. *)

Reaches(queue, n, k) ==
  \E m \in 1 .. Len(queue) : queue[m].node = n /\ DepthAt(queue, m) <= k

(* The entries come in the order of their depths, and those behind the     *)
(* head are at most one step deeper;                                       *)
Depths(queue, depth, head) ==
  /\ \A i \in 1 .. Len(queue) : DepthAt(queue, i) \in 0 .. depth
  /\ \A i, j \in 1 .. Len(queue) : i <= j => DepthAt(queue, i) <= DepthAt(queue, j)
  /\ DepthAt(queue, Len(queue)) <= DepthAt(queue, head) + 1

(* what an entry before the head links to is in the queue, one step deeper *)
(* than it at most;                                                        *)
Expanded(R, depth, queue, head, rows) ==
  \A i \in 1 .. head : \A p \in R :
    p[1] = queue[i].node /\ DepthAt(queue, i) < depth =>
      \/ Reaches(queue, p[2], DepthAt(queue, i) + 1)
      \/ i = head /\ \E r \in rows : r.to = p[2]

(* and that is a breadth-first search that has not met its end.            *)
Bfs(R, src, dst, depth, queue, head, rows) ==
  /\ Tree(queue) /\ Along(queue, R) /\ queue[1].node = src /\ head \in 1 .. Len(queue)
  /\ \A i \in 1 .. Len(queue) : queue[i].node # dst
  /\ Depths(queue, depth, head)
  /\ rows # {} => DepthAt(queue, head) < depth
  /\ Expanded(R, depth, queue, head, rows)

LEMMA DepthsAre ==
  ASSUME NEW queue, Tree(queue)
  PROVE  /\ DepthAt(queue, 1) = 0
         /\ \A i \in 1 .. Len(queue) : DepthAt(queue, i) \in Nat
              /\ DepthAt(queue, i) = Len(PathTo(queue, i)) - 1
<1> DEFINE R == {<<queue[queue[i].parent].node, queue[i].node>> : i \in 2 .. Len(queue)}
<1>1. Along(queue, R) BY DEF Along
<1> HIDE DEF R
<1>2. \A i \in 1 .. Len(queue) : Leads(PathTo(queue, i), R, queue[1].node, queue[i].node)
  BY <1>1, TreeLeads
<1>3. \A i \in 1 .. Len(queue) : Len(PathTo(queue, i)) \in Nat \ {0} BY <1>2 DEF Leads
<1>4. DepthAt(queue, 1) = 0
  <2> DEFINE one == <<queue[1].node>>
  <2>1. PathTo(queue, 1) = one BY PathToSteps
  <2>2. Len(one) = 1 OBVIOUS
  <2> HIDE DEF one
  <2> QED BY <2>1, <2>2 DEF DepthAt
<1> QED BY <1>3, <1>4 DEF DepthAt

SameDepths(more, queue) ==
  \A i \in 1 .. Len(queue) : DepthAt(more, i) = DepthAt(queue, i)

(* A new place below the head is one deeper.                               *)
LEMMA DepthGrows ==
  ASSUME NEW queue, NEW h, NEW x, NEW more, Grown(more, queue, h, x)
  PROVE  /\ SameDepths(more, queue)
         /\ DepthAt(more, Len(queue) + 1) = DepthAt(queue, h) + 1
<1> DEFINE n == Len(queue)
           path == PathTo(queue, h)
           last == PathTo(more, n + 1)
<1>0. Tree(queue) /\ h \in 1 .. n BY DEF Grown
<1>1. SamePaths(more, queue) /\ last = Append(path, x.node) BY TreeGrows
<1>2. /\ DepthAt(queue, h) \in Nat /\ DepthAt(queue, h) = Len(path) - 1
  BY <1>0, DepthsAre
<1>3. IsSeq(path)
  <2> DEFINE R == {<<queue[queue[i].parent].node, queue[i].node>> : i \in 2 .. Len(queue)}
  <2>1. Along(queue, R) BY DEF Along
  <2> HIDE DEF R, path
  <2>2. Leads(path, R, queue[1].node, queue[h].node) BY <1>0, <2>1, TreeLeads DEF path
  <2> QED BY <2>2 DEF Leads
<1>7. DepthAt(more, n + 1) = Len(last) - 1 BY DEF DepthAt, last
<1>8. SameDepths(more, queue) BY <1>1 DEF DepthAt, SamePaths, SameDepths
<1> HIDE DEF path
<1>4. Len(Append(path, x.node)) = Len(path) + 1 BY <1>3, AppendIsSeq
<1> HIDE DEF last
<1>5. Len(last) = Len(path) + 1 BY <1>1, <1>4
<1>6. Len(path) \in Nat BY <1>3 DEF IsSeq
<1> QED BY <1>2, <1>5, <1>6, <1>7, <1>8

(* What is nearer than the head, or all when the search has ended, is in   *)
(* the queue.                                                              *)
LEMMA BfsBall ==
  ASSUME NEW R, NEW src, NEW dst, NEW depth \in Nat, NEW queue, NEW head, NEW rows,
         Bfs(R, src, dst, depth, queue, head, rows), NEW b, b = Within({src}, R, depth),
         NEW m \in 0 .. depth, m <= DepthAt(queue, head) \/ (head = Len(queue) /\ rows = {})
  PROVE  dst \notin b[m]
<1> DEFINE D(i) == DepthAt(queue, i)
           n == Len(queue)
           Near(j) == \A x \in b[j] : Reaches(queue, x, j)
           T == {j \in 0 .. m : Near(j)}
<1>1. /\ n \in Nat \ {0} /\ head \in 1 .. n /\ queue[1].node = src
      /\ \A i \in 1 .. n : D(i) \in Nat
      /\ \A i, j \in 1 .. n : i <= j => D(i) <= D(j)
      /\ D(1) = 0
  BY DepthsAre DEF Bfs, Depths, Tree
<1>2. b[0] = {src} /\ \A j \in 1 .. depth : b[j] = b[j - 1] \union Image(R, b[j - 1])
  <2> HIDE DEF D, n, Near, T
  <2> DEFINE one == {src}
  <2>1. b = Within(one, R, depth) OBVIOUS
  <2> HIDE DEF one
  <2>2. b[0] = one BY <2>1, BallsGrow
  <2>3. \A j \in 1 .. depth : b[j] = b[j - 1] \union Image(R, b[j - 1]) BY <2>1, BallsGrow
  <2> QED BY <2>2, <2>3 DEF one
<1>3. 0 \in T
  <2>1. 1 \in 1 .. n BY <1>1
  <2>2. 0 \in 0 .. m OBVIOUS
  <2>3. DepthAt(queue, 1) <= 0 BY <1>1
  <2>4. Reaches(queue, src, 0)
    <3>1. 1 \in 1 .. Len(queue) /\ queue[1].node = src BY <1>1, <2>1
    <3> HIDE DEF D, n, Near, T
    <3> QED BY <3>1, <2>3 DEF Reaches
  <2>5. Near(0) BY <1>2, <2>4
  <2> QED BY <2>2, <2>5
<1>4. ASSUME NEW j \in 0 .. m - 1, j \in T PROVE j + 1 \in T
  <2>1. ASSUME NEW x \in b[j + 1] PROVE Reaches(queue, x, j + 1)
    <3>1. j + 1 \in 1 .. depth /\ (j + 1) - 1 = j OBVIOUS
    <3>2. b[j + 1] = b[j] \union Image(R, b[j]) BY <1>2, <3>1
    <3>3. CASE x \in b[j]
      <4>1. Reaches(queue, x, j) BY <1>4, <3>3
      <4>2. PICK i \in 1 .. n : queue[i].node = x /\ D(i) <= j BY <4>1 DEF Reaches
      <4>3. D(i) <= j + 1 BY <1>1, <4>2
      <4> QED BY <4>2, <4>3 DEF Reaches
    <3>4. CASE x \in Image(R, b[j])
      <4>1. PICK p \in R : p[1] \in b[j] /\ p[2] = x BY <3>4 DEF Image
      <4>2. Reaches(queue, p[1], j) BY <1>4, <4>1
      <4>3. PICK i \in 1 .. n : queue[i].node = p[1] /\ D(i) <= j BY <4>2 DEF Reaches
      <4>4. D(i) < depth BY <1>1, <3>1, <4>3
      <4>5. i < head \/ (i = head /\ rows = {})
        <5>1. CASE m <= D(head)
          <6>1. ~(head <= i)
            <7>1. head <= i => D(head) <= D(i) BY <1>1
            <7>2. D(head) \in Nat /\ D(i) \in Nat BY <1>1
            <7> HIDE DEF D
            <7> QED BY <4>3, <5>1, <7>1, <7>2
          <6> QED BY <1>1, <6>1
        <5>2. CASE head = n /\ rows = {} BY <1>1, <5>2
        <5> QED BY <5>1, <5>2
      <4>6. i \in 1 .. head BY <1>1, <4>5
      <4>7. Reaches(queue, x, D(i) + 1)
        <5>1. Expanded(R, depth, queue, head, rows) BY DEF Bfs
        <5> QED BY <1>1, <4>1, <4>3, <4>4, <4>5, <4>6, <5>1 DEF Expanded
      <4>8. PICK k \in 1 .. n : queue[k].node = x /\ D(k) <= D(i) + 1 BY <4>7 DEF Reaches
      <4>9. D(k) <= j + 1
        <5>1. D(k) \in Nat /\ D(i) \in Nat BY <1>1
        <5> HIDE DEF D
        <5> QED BY <4>3, <4>8, <5>1
      <4> QED BY <4>8, <4>9 DEF Reaches
    <3> QED BY <2>1, <3>2, <3>3, <3>4
  <2>2. j + 1 \in 0 .. m OBVIOUS
  <2> QED BY <2>1, <2>2
<1>5. \A j \in 0 .. m : j \in T
  <2> HIDE DEF T
  <2> QED BY <1>3, <1>4, InductionUpto
<1>6. m \in 0 .. m OBVIOUS
<1>7. Near(m) BY <1>5, <1>6
<1> QED BY <1>7 DEF Reaches, Bfs

(* The search begins.                                                      *)
LEMMA BfsBegins ==
  ASSUME NEW R, NEW src, NEW dst, src # dst, NEW depth \in Nat, NEW queue,
         queue = <<[node |-> src, parent |-> 0]>>, NEW rows, 0 < depth \/ rows = {},
         0 < depth => \A p \in R : p[1] = src => \E r \in rows : r.to = p[2]
  PROVE  Bfs(R, src, dst, depth, queue, 1, rows)
<1>1. /\ IsSeq(queue) /\ Len(queue) = 1 /\ queue[1].node = src
  BY DEF IsSeq, ToSet
<1>2. \A i \in 1 .. 1 : i = 1 OBVIOUS
<1>3. Tree(queue) /\ Along(queue, R) BY <1>1 DEF Tree, Along
<1>4. DepthAt(queue, 1) = 0 BY <1>3, DepthsAre
<1>5. Depths(queue, depth, 1) BY <1>1, <1>2, <1>4 DEF Depths
<1>6. Expanded(R, depth, queue, 1, rows) BY <1>1, <1>2, <1>4 DEF Expanded
<1> QED BY <1>1, <1>2, <1>3, <1>4, <1>5, <1>6 DEF Bfs

(* A row that leads nowhere new.                                           *)
LEMMA BfsSkips ==
  ASSUME NEW R, NEW src, NEW dst, NEW depth \in Nat, NEW queue, NEW head, NEW rows,
         Bfs(R, src, dst, depth, queue, head, rows), NEW r \in rows,
         \/ \E i \in DOMAIN queue : queue[i].node = r.to
         \/ \A p \in R : p[2] # r.to
  PROVE  Bfs(R, src, dst, depth, queue, head, rows \ {r})
<1>1. IsSeq(queue) /\ Len(queue) \in Nat \ {0} /\ head \in 1 .. Len(queue) BY DEF Bfs, Tree
<1>2. DOMAIN queue = 1 .. Len(queue) BY <1>1, SeqIsSeq DEF IsSeq
<1>3. ASSUME NEW i \in DOMAIN queue, queue[i].node = r.to
      PROVE  Reaches(queue, r.to, DepthAt(queue, head) + 1)
  <2>1. i \in 1 .. Len(queue) /\ i <= Len(queue) /\ Len(queue) \in 1 .. Len(queue) BY <1>1, <1>2
  <2>2. DepthAt(queue, i) <= DepthAt(queue, Len(queue)) BY <2>1 DEF Bfs, Depths
  <2>3. DepthAt(queue, Len(queue)) <= DepthAt(queue, head) + 1 BY DEF Bfs, Depths
  <2>4. \A j \in 1 .. Len(queue) : DepthAt(queue, j) \in Nat BY DepthsAre DEF Bfs
  <2>5. DepthAt(queue, i) <= DepthAt(queue, head) + 1 BY <1>1, <2>1, <2>2, <2>3, <2>4
  <2> QED BY <1>3, <2>1, <2>5 DEF Reaches
<1>4. Expanded(R, depth, queue, head, rows \ {r})
  <2>1. SUFFICES ASSUME NEW i \in 1 .. head, NEW p \in R,
                        p[1] = queue[i].node, DepthAt(queue, i) < depth,
                        ~Reaches(queue, p[2], DepthAt(queue, i) + 1)
                 PROVE  i = head /\ \E x \in rows \ {r} : x.to = p[2]
    BY DEF Expanded
  <2>2. i = head /\ \E x \in rows : x.to = p[2] BY <2>1 DEF Bfs, Expanded
  <2>3. p[2] # r.to BY <1>3, <2>1, <2>2
  <2> QED BY <2>2, <2>3
<1> QED BY <1>4 DEF Bfs

(* A row that leads to a new place.                                        *)
LEMMA BfsGrows ==
  ASSUME NEW R, NEW src, NEW dst, NEW depth \in Nat, NEW queue, NEW head, NEW rows,
         Bfs(R, src, dst, depth, queue, head, rows), NEW r \in rows,
         r.to # dst, <<queue[head].node, r.to>> \in R,
         NEW more, more = Append(queue, [node |-> r.to, parent |-> head])
  PROVE  Bfs(R, src, dst, depth, more, head, rows \ {r})
<1> DEFINE n == Len(queue)
           x == [node |-> r.to, parent |-> head]
<1>1. Tree(queue) /\ n \in Nat \ {0} /\ head \in 1 .. n BY DEF Bfs, Tree
<1>2. x.parent = head /\ x.node = r.to OBVIOUS
<1> HIDE DEF x
<1>3. /\ Tree(more) /\ Len(more) = n + 1 /\ more[n + 1] = x
      /\ \A i \in 1 .. n : more[i] = queue[i]
  <2>1. more = Append(queue, x) BY DEF x
  <2>2. Grown(more, queue, head, x) BY <1>1, <1>2, <2>1 DEF Grown
  <2>3. Tree(more) /\ Longer(more, queue, x) BY <2>2, TreeGrows
  <2> QED BY <2>3 DEF Longer
<1>4. /\ \A i \in 1 .. n : DepthAt(more, i) = DepthAt(queue, i)
      /\ DepthAt(more, n + 1) = DepthAt(queue, head) + 1
  <2>1. more = Append(queue, x) BY DEF x
  <2>2. Grown(more, queue, head, x) BY <1>1, <1>2, <2>1 DEF Grown
  <2>3. SameDepths(more, queue) BY <2>2, DepthGrows
  <2>4. DepthAt(more, n + 1) = DepthAt(queue, head) + 1 BY <2>2, DepthGrows
  <2> QED BY <2>3, <2>4 DEF SameDepths
<1>5. DepthAt(queue, head) < depth BY DEF Bfs
<1>6. \A i \in 1 .. n + 1 : i \in 1 .. n \/ i = n + 1 BY <1>1
<1>7. \A i \in 1 .. n : DepthAt(queue, i) \in Nat BY <1>1, DepthsAre
<1>8. 1 \in 1 .. n /\ head \in 1 .. n + 1 /\ n \in 1 .. n /\ n + 1 \in 1 .. n + 1 BY <1>1
<1>9. Along(more, R)
  <2>1. ASSUME NEW i \in 2 .. n + 1 PROVE <<more[more[i].parent].node, more[i].node>> \in R
    <3>1. CASE i = n + 1
      <4>1. more[i].parent = head /\ more[i].node = r.to BY <1>2, <1>3, <3>1
      <4>2. more[head].node = queue[head].node BY <1>1, <1>3
      <4> QED BY <4>1, <4>2
    <3>2. CASE i \in 2 .. n
      <4>1. i \in 1 .. n BY <3>2
      <4>2. queue[i].parent \in 1 .. i - 1 BY <1>1, <3>2 DEF Tree
      <4>3. queue[i].parent \in 1 .. n BY <1>1, <4>1, <4>2
      <4>4. <<queue[queue[i].parent].node, queue[i].node>> \in R BY <3>2 DEF Bfs, Along
      <4> QED BY <1>3, <4>1, <4>3, <4>4
    <3>3. i = n + 1 \/ i \in 2 .. n BY <1>1
    <3> QED BY <3>1, <3>2, <3>3
  <2> QED BY <1>3, <2>1 DEF Along
<1>10. more[1].node = src /\ \A i \in 1 .. Len(more) : more[i].node # dst
  <2>1. queue[1].node = src /\ \A i \in 1 .. n : queue[i].node # dst BY DEF Bfs
  <2> QED BY <1>2, <1>3, <1>6, <1>8, <2>1
<1>11. Depths(more, depth, head)
  <2>1. /\ \A i \in 1 .. n : DepthAt(queue, i) \in 0 .. depth
        /\ \A i, j \in 1 .. n : i <= j => DepthAt(queue, i) <= DepthAt(queue, j)
        /\ DepthAt(queue, n) <= DepthAt(queue, head) + 1
    BY DEF Bfs, Depths
  <2>2. \A i \in 1 .. n : DepthAt(queue, i) <= DepthAt(queue, head) + 1
    <3> SUFFICES ASSUME NEW i \in 1 .. n PROVE DepthAt(queue, i) <= DepthAt(queue, head) + 1
      OBVIOUS
    <3>1. DepthAt(queue, i) <= DepthAt(queue, n) BY <1>8, <2>1
    <3>2. DepthAt(queue, i) \in Nat /\ DepthAt(queue, n) \in Nat /\ DepthAt(queue, head) \in Nat
      BY <1>1, <1>7, <1>8
    <3> QED BY <2>1, <3>1, <3>2
  <2>3. ASSUME NEW i \in 1 .. n + 1 PROVE DepthAt(more, i) \in 0 .. depth
    <3>1. CASE i \in 1 .. n BY <1>4, <2>1, <3>1
    <3>2. CASE i = n + 1 BY <1>1, <1>4, <1>5, <1>7, <3>2
    <3> QED BY <1>6, <3>1, <3>2
  <2>4. ASSUME NEW i \in 1 .. n + 1, NEW j \in 1 .. n + 1, i <= j
        PROVE  DepthAt(more, i) <= DepthAt(more, j)
    <3>1. CASE i \in 1 .. n /\ j \in 1 .. n BY <1>4, <2>1, <2>4, <3>1
    <3>2. CASE i \in 1 .. n /\ j = n + 1 BY <1>4, <2>2, <3>2
    <3>3. CASE i = n + 1
      <4>1. j = i BY <1>6, <1>1, <2>4, <3>3
      <4>2. DepthAt(more, i) \in Nat BY <1>1, <1>4, <1>7, <3>3
      <4> QED BY <4>1, <4>2
    <3> QED BY <1>6, <3>1, <3>2, <3>3
  <2>5. DepthAt(more, n + 1) <= DepthAt(more, head) + 1 BY <1>1, <1>4, <1>7
  <2> QED BY <1>3, <2>3, <2>4, <2>5 DEF Depths
<1>12. Expanded(R, depth, more, head, rows \ {r})
  <2>1. SUFFICES ASSUME NEW i \in 1 .. head, NEW p \in R,
                        p[1] = more[i].node, DepthAt(more, i) < depth,
                        ~Reaches(more, p[2], DepthAt(more, i) + 1)
                 PROVE  i = head /\ \E y \in rows \ {r} : y.to = p[2]
    BY DEF Expanded
  <2>2. i \in 1 .. n /\ p[1] = queue[i].node /\ DepthAt(more, i) = DepthAt(queue, i)
    BY <1>1, <1>3, <1>4, <2>1
  <2>3. ~Reaches(queue, p[2], DepthAt(queue, i) + 1)
    BY <1>1, <1>3, <1>4, <2>1, <2>2 DEF Reaches
  <2>4. i = head /\ \E y \in rows : y.to = p[2] BY <2>1, <2>2, <2>3 DEF Bfs, Expanded
  <2>5. p[2] # r.to
    <3>1. ASSUME p[2] = r.to PROVE FALSE
      <4>1. more[n + 1].node = p[2] /\ n + 1 \in 1 .. Len(more) BY <1>2, <1>3, <1>8, <3>1
      <4>2. DepthAt(more, n + 1) <= DepthAt(more, i) + 1 BY <1>1, <1>4, <1>7, <2>2, <2>4
      <4> QED BY <2>1, <4>1, <4>2 DEF Reaches
    <3> QED BY <3>1
  <2> QED BY <2>4, <2>5
<1>13. rows \ {r} # {} => DepthAt(more, head) < depth BY <1>1, <1>4, <1>5
<1> QED BY <1>1, <1>3, <1>8, <1>9, <1>10, <1>11, <1>12, <1>13 DEF Bfs

(* The next place.                                                         *)
LEMMA BfsNext ==
  ASSUME NEW R, NEW src, NEW dst, NEW depth \in Nat, NEW queue, NEW head,
         Bfs(R, src, dst, depth, queue, head, {}), NEW h, h = head + 1, h <= Len(queue),
         NEW rows, DepthAt(queue, h) < depth \/ rows = {},
         DepthAt(queue, h) < depth =>
           \A p \in R : p[1] = queue[h].node => \E r \in rows : r.to = p[2]
  PROVE  Bfs(R, src, dst, depth, queue, h, rows)
<1>1. Tree(queue) /\ Len(queue) \in Nat \ {0} /\ head \in 1 .. Len(queue) BY DEF Bfs, Tree
<1>2. h \in 1 .. Len(queue) /\ head <= h BY <1>1
<1>3. Depths(queue, depth, h)
  <2>1. DepthAt(queue, head) <= DepthAt(queue, h) BY <1>1, <1>2 DEF Bfs, Depths
  <2>2. DepthAt(queue, Len(queue)) <= DepthAt(queue, head) + 1 BY DEF Bfs, Depths
  <2>3. /\ DepthAt(queue, head) \in Nat /\ DepthAt(queue, h) \in Nat
        /\ DepthAt(queue, Len(queue)) \in Nat
    <3>1. Len(queue) \in 1 .. Len(queue) BY <1>1
    <3> QED BY <1>1, <1>2, <3>1, DepthsAre
  <2>4. DepthAt(queue, Len(queue)) <= DepthAt(queue, h) + 1 BY <2>1, <2>2, <2>3
  <2> QED BY <2>4 DEF Bfs, Depths
<1>4. Expanded(R, depth, queue, h, rows)
  <2>1. SUFFICES ASSUME NEW i \in 1 .. h, NEW p \in R,
                        p[1] = queue[i].node, DepthAt(queue, i) < depth,
                        ~Reaches(queue, p[2], DepthAt(queue, i) + 1)
                 PROVE  i = h /\ \E y \in rows : y.to = p[2]
    BY DEF Expanded
  <2>2. i \in 1 .. head \/ i = h BY <1>1
  <2>3. i \notin 1 .. head BY <2>1 DEF Bfs, Expanded
  <2>4. i = h BY <2>2, <2>3
  <2> QED BY <2>1, <2>4
<1> QED BY <1>2, <1>3, <1>4 DEF Bfs

(* The links that a search may take after k paths.                         *)
LinksOf(i, kinds) ==
  LET kept == {e \in i.edges : kinds = {} \/ e.kind \in kinds} IN
  {<<e.src, e.dst>> : e \in kept} \union {<<e.dst, e.src>> : e \in kept}

(* The links left when the inner nodes of k paths are blocked.             *)
OpenLinks(i, q, paths, k) ==
  {p \in LinksOf(i, q.kinds) : p[2] = q.dst \/ \A j \in 1 .. k : p[2] \notin Inner(paths[j])}

(* A path of these links, within the depth, than which none is shorter.    *)
ShortestIn(path, R, src, dst, depth) ==
  /\ path[1] = src /\ path[Len(path)] = dst
  /\ \A i \in 1 .. Len(path) - 1 : <<path[i], path[i + 1]>> \in R
  /\ Len(path) - 1 <= depth
  /\ Len(path) = 2 \/ dst \notin Within({src}, R, depth)[Len(path) - 2]

(* Each path is a shortest one among those that avoid the paths before it. *)
PathsFit(i, q, paths) ==
  /\ IsSeq(paths)
  /\ \A k \in 1 .. Len(paths) :
       ShortestIn(paths[k], OpenLinks(i, q, paths, k - 1), q.src, q.dst, q.depth)

PathFields == {"tool", "q", "at", "queue", "head", "rows", "blocked", "paths"}

(* shortest_path between two rows,                                         *)
PathWalks(i, s) ==
  /\ Bfs(OpenLinks(i, s.q, s.paths, Len(s.paths)), s.q.src, s.q.dst, s.q.depth,
         s.queue, s.head, s.rows)
  /\ \A r \in s.rows : <<s.queue[s.head].node, r.to>> \in LinksOf(i, s.q.kinds)

(* and once it has ended: with as many paths as it was asked for, or with  *)
(* no further path within the depth, or where it gives up.                 *)
PathEnds(i, s) ==
  Len(s.paths) < s.q.paths =>
    \/ s.q.dst \notin Within({s.q.src}, OpenLinks(i, s.q, s.paths, Len(s.paths)),
                             s.q.depth)[s.q.depth]
    \/ s.head > s.q.depth * HeadFactor

PathFits(i, s) ==
  /\ s.tool = "shortest_path" /\ DOMAIN s = PathFields /\ s.q.depth \in Nat
  /\ s.q.src # s.q.dst =>
       /\ PathsFit(i, s.q, s.paths)
       /\ s.blocked = UNION {Inner(s.paths[j]) : j \in 1 .. Len(s.paths)}
       /\ IF s.at = "search" THEN PathWalks(i, s) ELSE PathEnds(i, s)

(* So the paths of an answer are shortest.                                 *)
LEMMA PathEndsIsShortest ==
  ASSUME NEW s, PathFits(idx, s), s.at # "search"
  PROVE  PathsAreShortest(s)
<1> DEFINE n == Len(s.paths)
           open(k) == {p \in Links(s.q.kinds) :
                    p[2] = s.q.dst \/ \A i \in 1 .. k : p[2] \notin Inner(s.paths[i])}
<1>1. SUFFICES ASSUME s.q.src # s.q.dst
      PROVE /\ \A k \in 1 .. n :
                 LET path == s.paths[k] IN
                 /\ path[1] = s.q.src /\ Last(path) = s.q.dst
                 /\ \A i \in 1 .. Len(path) - 1 : <<path[i], path[i + 1]>> \in open(k - 1)
                 /\ Len(path) - 1 <= s.q.depth
                 /\ Len(path) = 2
                   \/ s.q.dst \notin Within({s.q.src}, open(k - 1), s.q.depth)[Len(path) - 2]
            /\ n < s.q.paths => \/ s.q.dst \notin Within({s.q.src}, open(n), s.q.depth)[s.q.depth]
                                \/ s.head > s.q.depth * HeadFactor
  BY DEF PathsAreShortest
<1>2. \A k : open(k) = OpenLinks(idx, s.q, s.paths, k) BY DEF OpenLinks, Links, LinksOf
<1> HIDE DEF open
<1>3. PathsFit(idx, s.q, s.paths) /\ PathEnds(idx, s) BY <1>1 DEF PathFits
<1>4. \A path : Last(path) = path[Len(path)] BY DEF Last
<1>5. ASSUME NEW k \in 1 .. n
      PROVE  LET path == s.paths[k] IN
                 /\ path[1] = s.q.src /\ Last(path) = s.q.dst
                 /\ \A i \in 1 .. Len(path) - 1 : <<path[i], path[i + 1]>> \in open(k - 1)
                 /\ Len(path) - 1 <= s.q.depth
                 /\ Len(path) = 2
                   \/ s.q.dst \notin Within({s.q.src}, open(k - 1), s.q.depth)[Len(path) - 2]
  <2>1. ShortestIn(s.paths[k], open(k - 1), s.q.src, s.q.dst, s.q.depth)
    BY <1>2, <1>3 DEF PathsFit
  <2> QED BY <1>4, <2>1 DEF ShortestIn
<1>6. n < s.q.paths => \/ s.q.dst \notin Within({s.q.src}, open(n), s.q.depth)[s.q.depth]
                       \/ s.head > s.q.depth * HeadFactor
  BY <1>2, <1>3 DEF PathEnds
<1> QED BY <1>5, <1>6

(* The rows that the statements of a node return are the links from it.    *)
LEMMA StepsAre ==
  ASSUME NEW n, NEW kinds
  PROVE  /\ \A r \in Steps(n, kinds) : <<n, r.to>> \in LinksOf(idx, kinds)
         /\ \A p \in LinksOf(idx, kinds) : p[1] = n => \E r \in Steps(n, kinds) : r.to = p[2]
<1> DEFINE out(e) == [to |-> e.dst, kind |-> e.kind]
           back(e) == [to |-> e.src, kind |-> e.kind]
           ok(e) == kinds = {} \/ e.kind \in kinds
<1>1. ASSUME NEW r \in Steps(n, kinds) PROVE <<n, r.to>> \in LinksOf(idx, kinds)
  <2>1. PICK e \in idx.edges : \/ e.src = n /\ r = out(e)
                               \/ e.dst = n /\ r = back(e)
    BY DEF Steps
  <2>2. r.kind = e.kind BY <2>1
  <2>3. kinds = {} \/ r.kind \in kinds BY DEF Steps
  <2>4. \/ r.to = e.dst /\ e.src = n
        \/ r.to = e.src /\ e.dst = n BY <2>1
  <2>5. ok(e) BY <2>2, <2>3
  <2> QED BY <2>4, <2>5 DEF LinksOf
<1>2. ASSUME NEW p \in LinksOf(idx, kinds), p[1] = n PROVE \E r \in Steps(n, kinds) : r.to = p[2]
  <2>1. PICK e \in idx.edges : ok(e) /\ (p = <<e.src, e.dst>> \/ p = <<e.dst, e.src>>)
    BY DEF LinksOf
  <2>2. CASE p = <<e.src, e.dst>>
    <3>1. e.src = n /\ p[2] = e.dst BY <1>2, <2>2
    <3>2. out(e).to = e.dst /\ out(e).kind = e.kind OBVIOUS
    <3>3. out(e) \in Steps(n, kinds) BY <2>1, <3>1 DEF Steps
    <3> QED BY <3>1, <3>2, <3>3
  <2>3. CASE p = <<e.dst, e.src>>
    <3>1. e.dst = n /\ p[2] = e.src BY <1>2, <2>3
    <3>2. back(e).to = e.src /\ back(e).kind = e.kind OBVIOUS
    <3>3. back(e) \in Steps(n, kinds) BY <2>1, <3>1 DEF Steps
    <3> QED BY <3>1, <3>2, <3>3
  <2> QED BY <2>1, <2>2, <2>3
<1> QED BY <1>1, <1>2

(* The path to the end is a shortest one.                                  *)
LEMMA PathIsShortest ==
  ASSUME NEW R, NEW src, NEW dst, NEW depth \in Nat, NEW queue, NEW head, NEW rows,
         Bfs(R, src, dst, depth, queue, head, rows), rows # {},
         <<queue[head].node, dst>> \in R, NEW x, x.parent = head, x.node = dst,
         NEW more, more = Append(queue, x)
  PROVE  ShortestIn(PathTo(more, Len(more)), R, src, dst, depth)
<1> DEFINE n == Len(queue)
           m == DepthAt(queue, head)
           path == PathTo(queue, head)
           one == {src}
           b == Within(one, R, depth)
           z == queue[head].node
           last == Append(path, dst)
<1>1. Tree(queue) /\ n \in Nat \ {0} /\ head \in 1 .. n /\ m < depth /\ queue[1].node = src
      /\ Along(queue, R)
  BY DEF Bfs, Tree
<1>2. Grown(more, queue, head, x) BY <1>1 DEF Grown
<1>3. PathTo(more, n + 1) = Append(path, x.node) BY <1>2, TreeGrows
<1>4. Len(more) = n + 1
  <2>1. Longer(more, queue, x) BY <1>2, TreeGrows
  <2> QED BY <2>1 DEF Longer
<1>5. PathTo(more, Len(more)) = last BY <1>3, <1>4
<1>6. m \in Nat /\ m = Len(path) - 1 BY <1>1, DepthsAre
<1>7. Leads(path, R, src, z)
  <2> HIDE DEF path, z
  <2>1. \A i \in 1 .. Len(queue) : Leads(PathTo(queue, i), R, queue[1].node, queue[i].node)
    BY <1>1, TreeLeads
  <2> QED BY <1>1, <2>1 DEF path, z
<1>8. <<z, dst>> \in R OBVIOUS
<1> HIDE DEF path, z, m, n
<1>9. Leads(last, R, src, dst) BY <1>7, <1>8, LeadsOn
<1>10. Len(last) = Len(path) + 1
  <2>1. IsSeq(path) BY <1>7 DEF Leads
  <2> QED BY <2>1, AppendIsSeq
<1> HIDE DEF last
<1>11. Len(path) \in Nat BY <1>7 DEF Leads
<1>12. Len(last) - 2 = m /\ Len(last) - 1 <= depth /\ m \in 0 .. depth
  BY <1>1, <1>6, <1>10, <1>11
<1>13. dst \notin b[m]
  <2>1. m <= DepthAt(queue, head) BY <1>6 DEF m
  <2> DEFINE c == b
  <2>2. c = Within({src}, R, depth) OBVIOUS
  <2> HIDE DEF c, b
  <2>3. dst \notin c[m] BY <1>12, <2>1, <2>2, BfsBall
  <2> QED BY <2>3 DEF c
<1>14. ShortestIn(last, R, src, dst, depth) BY <1>9, <1>12, <1>13 DEF ShortestIn, Leads
<1> QED BY <1>5, <1>14

(* A path found goes behind the others.                                    *)
LEMMA PathsGrow ==
  ASSUME NEW i, NEW q, NEW paths, PathsFit(i, q, paths), NEW path,
         ShortestIn(path, OpenLinks(i, q, paths, Len(paths)), q.src, q.dst, q.depth),
         NEW more, more = Append(paths, path)
  PROVE  /\ PathsFit(i, q, more) /\ Len(more) = Len(paths) + 1
         /\ UNION {Inner(more[j]) : j \in 1 .. Len(more)} =
              (UNION {Inner(paths[j]) : j \in 1 .. Len(paths)}) \union Inner(path)
<1> DEFINE n == Len(paths)
<1>1. IsSeq(paths) BY DEF PathsFit
<1>2. /\ IsSeq(more) /\ Len(more) = n + 1 /\ \A j \in 1 .. n : more[j] = paths[j]
      /\ more[n + 1] = path
  BY <1>1, AppendIsSeq
<1>3. n \in Nat BY <1>1 DEF IsSeq
<1>4. \A j \in 1 .. n + 1 : j \in 1 .. n \/ j = n + 1 BY <1>3
<1>5. ASSUME NEW k \in 0 .. n PROVE OpenLinks(i, q, more, k) = OpenLinks(i, q, paths, k)
  <2>1. \A j \in 1 .. k : more[j] = paths[j] BY <1>2, <1>3
  <2> QED BY <2>1 DEF OpenLinks
<1>6. ASSUME NEW k \in 1 .. n + 1
      PROVE  ShortestIn(more[k], OpenLinks(i, q, more, k - 1), q.src, q.dst, q.depth)
  <2>1. CASE k \in 1 .. n
    <3>1. k - 1 \in 0 .. n BY <1>3, <2>1
    <3>2. ShortestIn(paths[k], OpenLinks(i, q, paths, k - 1), q.src, q.dst, q.depth)
      BY <2>1 DEF PathsFit
    <3> QED BY <1>2, <1>5, <2>1, <3>1, <3>2
  <2>2. CASE k = n + 1
    <3>1. k - 1 = n /\ n \in 0 .. n BY <1>3, <2>2
    <3> QED BY <1>2, <1>5, <2>2, <3>1
  <2>3. k \in 1 .. n \/ k = n + 1 BY <1>3
  <2> QED BY <2>1, <2>2, <2>3
<1>7. PathsFit(i, q, more) BY <1>2, <1>6 DEF PathsFit
<1>8. UNION {Inner(more[j]) : j \in 1 .. n + 1} =
              (UNION {Inner(paths[j]) : j \in 1 .. n}) \union Inner(path)
  <2>1. \A j \in 1 .. n : j \in 1 .. n + 1 /\ Inner(more[j]) = Inner(paths[j]) BY <1>2, <1>3
  <2>2. n + 1 \in 1 .. n + 1 /\ Inner(more[n + 1]) = Inner(path) BY <1>2, <1>3
  <2> DEFINE A(j) == Inner(more[j])
             B(j) == Inner(paths[j])
  <2>3. (\A j \in 1 .. n : A(j) = B(j)) /\ A(n + 1) = Inner(path) BY <2>1, <2>2
  <2> HIDE DEF A, B, n
  <2>4. \A x : x \in UNION {A(j) : j \in 1 .. n + 1} <=> \E j \in 1 .. n + 1 : x \in A(j) OBVIOUS
  <2>5. \A x : x \in UNION {B(j) : j \in 1 .. n} <=> \E j \in 1 .. n : x \in B(j) OBVIOUS
  <2>6. \A x : (\E j \in 1 .. n + 1 : x \in A(j)) <=>
                 (\E j \in 1 .. n : x \in B(j)) \/ x \in Inner(path)
    BY <1>4, <2>1, <2>2, <2>3
  <2> DEFINE U == UNION {A(j) : j \in 1 .. n + 1}
             V == UNION {B(j) : j \in 1 .. n}
             W == Inner(path)
  <2>7. \A y : y \in U <=> y \in V \/ y \in W
    <3> SUFFICES ASSUME NEW y PROVE y \in U <=> y \in V \/ y \in W OBVIOUS
    <3>1. y \in U <=> \E j \in 1 .. n + 1 : y \in A(j) BY <2>4
    <3>2. y \in V <=> \E j \in 1 .. n : y \in B(j) BY <2>5
    <3>3. (\E j \in 1 .. n + 1 : y \in A(j)) <=> (\E j \in 1 .. n : y \in B(j)) \/ y \in W
      BY <2>6
    <3> HIDE DEF U, V, W
    <3> QED BY <3>1, <3>2, <3>3
  <2> HIDE DEF U, V, W
  <2>8. U = V \union W BY <2>7
  <2>9. U = UNION {Inner(more[j]) : j \in 1 .. n + 1} BY DEF U, A
  <2>10. V = UNION {Inner(paths[j]) : j \in 1 .. n} BY DEF V, B
  <2>11. W = Inner(path) BY DEF W
  <2> QED BY <2>8, <2>9, <2>10, <2>11
<1> QED BY <1>2, <1>7, <1>8

(* A search is begun or continued.                                         *)
LEMMA PathBegins ==
  ASSUME NEW q, q.src # q.dst, q.depth \in Nat, NEW paths,
         NEW m, m.queue = Start(q), m.q = q
  PROVE  /\ Bfs(OpenLinks(idx, q, paths, Len(paths)), q.src, q.dst, q.depth, m.queue, 1,
                Expandable(m, 1))
         /\ \A r \in Expandable(m, 1) : <<m.queue[1].node, r.to>> \in LinksOf(idx, q.kinds)
<1> DEFINE R == OpenLinks(idx, q, paths, Len(paths))
           queue == m.queue
           src == q.src
           dst == q.dst
           depth == q.depth
           rows == Expandable(m, 1)
           S == Steps(src, q.kinds)
<1>1. queue = <<[node |-> src, parent |-> 0]>> BY DEF Start
<1>2. Len(queue) = 1 /\ queue[1].node = src BY <1>1
<1>3. IsSeq(queue) BY <1>1 DEF IsSeq, ToSet
<1>4. Tree(queue) BY <1>2, <1>3 DEF Tree
<1>5. DepthAt(queue, 1) = 0 BY <1>4, DepthsAre
<1>6. rows = IF 0 < depth THEN S ELSE {} BY <1>2, <1>5 DEF Expandable
<1>7. /\ \A r \in S : <<src, r.to>> \in LinksOf(idx, q.kinds)
      /\ \A p \in LinksOf(idx, q.kinds) : p[1] = src => \E r \in S : r.to = p[2]
  <2> DEFINE kinds == q.kinds
  <2> HIDE DEF kinds
  <2>1. /\ \A r \in Steps(src, kinds) : <<src, r.to>> \in LinksOf(idx, kinds)
        /\ \A p \in LinksOf(idx, kinds) : p[1] = src => \E r \in Steps(src, kinds) : r.to = p[2]
    BY StepsAre
  <2> QED BY <2>1 DEF kinds
<1>8. \A p \in R : p \in LinksOf(idx, q.kinds) BY DEF OpenLinks
<1>9. \A r \in rows : <<queue[1].node, r.to>> \in LinksOf(idx, q.kinds)
  BY <1>2, <1>6, <1>7
<1>10. 0 < depth => \A p \in R : p[1] = src => \E r \in rows : r.to = p[2]
  BY <1>6, <1>7, <1>8
<1>11. src # dst /\ depth \in Nat /\ (0 < depth \/ rows = {}) BY <1>6
<1>12. Bfs(R, src, dst, depth, queue, 1, rows)
  <2> HIDE DEF R, src, dst, depth, queue, rows, S
  <2> QED BY <1>1, <1>10, <1>11, BfsBegins
<1> QED BY <1>9, <1>12

(* All this holds in the first state of a search, and each row and each    *)
(* change to another entry of the queue keeps it.                          *)
LEMMA PathStarts ==
  ASSUME NEW q, AskPath(q), q.depth \in Nat
  PROVE  PathFits(idx, search')
<1> DEFINE m == [tool |-> "shortest_path", q |-> q, at |-> "search",
                 queue |-> Start(q), head |-> 1, rows |-> {}, blocked |-> {}, paths |-> <<>>]
           s == search'
<1>1. s = [m EXCEPT !.head = 1, !.rows = Expandable(m, 1)] BY DEF AskPath, Expand
<1>2. /\ DOMAIN m = PathFields /\ m.tool = "shortest_path" /\ m.q = q /\ m.at = "search"
      /\ m.queue = Start(q) /\ m.blocked = {} /\ m.paths = <<>>
  BY DEF PathFields
<1> HIDE DEF m
<1>3. /\ DOMAIN s = PathFields /\ s.tool = "shortest_path" /\ s.q = q /\ s.at = "search"
      /\ s.queue = m.queue /\ s.blocked = {} /\ s.paths = <<>> /\ s.head = 1
      /\ s.rows = Expandable(m, 1)
  BY <1>1, <1>2 DEF PathFields
<1> HIDE DEF s
<1>4. ASSUME q.src # q.dst PROVE PathWalks(idx, s)
  <2>1. /\ Bfs(OpenLinks(idx, q, <<>>, Len(<<>>)), q.src, q.dst, q.depth, m.queue, 1,
                Expandable(m, 1))
        /\ \A r \in Expandable(m, 1) : <<m.queue[1].node, r.to>> \in LinksOf(idx, q.kinds)
    BY <1>2, <1>4, PathBegins
  <2> QED BY <1>3, <2>1 DEF PathWalks
<1>5. PathsFit(idx, q, <<>>) BY EmptyIsSeq DEF PathsFit
<1>6. UNION {Inner(s.paths[j]) : j \in 1 .. Len(s.paths)} = {} BY <1>3
<1>7. PathFits(idx, s) BY <1>3, <1>4, <1>5, <1>6 DEF PathFits
<1> QED BY <1>7 DEF s

LEMMA PathRowFits ==
  ASSUME PathFits(idx, search), PathRow
  PROVE  PathFits(idx, search')
<1> DEFINE s == search
           t == search'
           q == s.q
           n == Len(s.paths)
           depth == s.q.depth
           R == OpenLinks(idx, s.q, s.paths, Len(s.paths))
<1>1. s.tool = "shortest_path" /\ s.at = "search" /\ DOMAIN s = PathFields /\ depth \in Nat
  BY DEF PathRow, Running, PathFits
<1>2. PICK r \in s.rows :
        LET read  == [s EXCEPT !.rows = @ \ {r}]
            known == \E i \in DOMAIN s.queue : s.queue[i].node = r.to
            queue == Append(s.queue, [node |-> r.to, parent |-> s.head]) IN
        t = IF known \/ (r.to # s.q.dst /\ r.to \in s.blocked) THEN read
            ELSE IF r.to = s.q.dst THEN WithPath(read, PathTo(queue, Len(queue)))
            ELSE [read EXCEPT !.queue = queue]
  BY DEF PathRow, Continue
<1> DEFINE read  == [s EXCEPT !.rows = @ \ {r}]
           known == \E i \in DOMAIN s.queue : s.queue[i].node = r.to
           x     == [node |-> r.to, parent |-> s.head]
           queue == Append(s.queue, x)
           path  == PathTo(queue, Len(queue))
           skip  == known \/ (r.to # s.q.dst /\ r.to \in s.blocked)
<1>3. t = IF skip THEN read ELSE IF r.to = s.q.dst THEN WithPath(read, path)
          ELSE [read EXCEPT !.queue = queue]
  BY <1>2
<1>4. /\ DOMAIN read = PathFields /\ read.tool = "shortest_path" /\ read.q = s.q
      /\ read.at = "search" /\ read.queue = s.queue /\ read.head = s.head
      /\ read.blocked = s.blocked /\ read.paths = s.paths /\ read.rows = s.rows \ {r}
  BY <1>1 DEF PathFields
<1>5. x.node = r.to /\ x.parent = s.head OBVIOUS
<1> HIDE DEF s, t, read, known, x, path
<1>6. ASSUME s.q.src # s.q.dst
      PROVE  /\ PathsFit(idx, s.q, s.paths)
             /\ s.blocked = UNION {Inner(s.paths[j]) : j \in 1 .. n}
             /\ Bfs(R, s.q.src, s.q.dst, depth, s.queue, s.head, s.rows)
             /\ \A y \in s.rows : <<s.queue[s.head].node, y.to>> \in LinksOf(idx, s.q.kinds)
  BY <1>1, <1>6 DEF PathFits, PathWalks, s
<1>7. CASE skip
  <2>1. t = read BY <1>3, <1>7
  <2>2. ASSUME s.q.src # s.q.dst
        PROVE  Bfs(R, s.q.src, s.q.dst, depth, s.queue, s.head, s.rows \ {r})
    <3> DEFINE src == s.q.src
               dst == s.q.dst
               rows == s.rows
               q1 == s.queue
               h == s.head
    <3>1. Bfs(R, src, dst, depth, q1, h, rows) /\ r \in rows BY <1>6, <2>2
    <3>2. \/ \E i \in DOMAIN q1 : q1[i].node = r.to
          \/ \A p \in R : p[2] # r.to
      <4>1. CASE known BY <4>1 DEF known
      <4>2. CASE r.to # s.q.dst /\ r.to \in s.blocked
        <5>1. PICK j \in 1 .. n : r.to \in Inner(s.paths[j]) BY <1>6, <2>2, <4>2
        <5> QED BY <4>2, <5>1 DEF OpenLinks
      <4> QED BY <1>7, <4>1, <4>2
    <3> HIDE DEF src, dst, rows, q1, h, R, depth
    <3>3. depth \in Nat BY <1>1 DEF depth
    <3>4. Bfs(R, src, dst, depth, q1, h, rows \ {r}) BY <3>1, <3>2, <3>3, BfsSkips
    <3> QED BY <3>4 DEF src, dst, rows, q1, h
  <2>3. s.q.src # s.q.dst => PathWalks(idx, t) BY <1>4, <1>6, <2>1, <2>2 DEF PathWalks
  <2>4. PathFits(idx, t) BY <1>1, <1>4, <1>6, <2>1, <2>3 DEF PathFits
  <2> QED BY <2>4 DEF t
<1>8. CASE ~skip /\ r.to # s.q.dst
  <2>1. t = [read EXCEPT !.queue = queue] BY <1>3, <1>8
  <2>2. /\ DOMAIN t = PathFields /\ t.tool = "shortest_path" /\ t.q = s.q
        /\ t.at = "search" /\ t.queue = queue /\ t.head = s.head
        /\ t.blocked = s.blocked /\ t.paths = s.paths /\ t.rows = s.rows \ {r}
    BY <1>4, <2>1 DEF PathFields
  <2>3. ASSUME s.q.src # s.q.dst
        PROVE  /\ Bfs(R, s.q.src, s.q.dst, depth, queue, s.head, s.rows \ {r})
               /\ queue[s.head] = s.queue[s.head]
    <3> DEFINE src == s.q.src
               dst == s.q.dst
               rows == s.rows
               q1 == s.queue
               h == s.head
    <3>1. Bfs(R, src, dst, depth, q1, h, rows) /\ r \in rows /\ r.to # dst BY <1>6, <1>8, <2>3
    <3>2. <<q1[h].node, r.to>> \in R
      <4>1. <<q1[h].node, r.to>> \in LinksOf(idx, s.q.kinds) BY <1>6, <2>3
      <4>2. r.to \notin s.blocked BY <1>8
      <4>3. \A j \in 1 .. n : r.to \notin Inner(s.paths[j]) BY <1>6, <2>3, <4>2
      <4> QED BY <4>1, <4>3 DEF OpenLinks
    <3> HIDE DEF src, dst, rows, q1, h, R, depth
    <3>3. depth \in Nat BY <1>1 DEF depth
    <3>4. queue = Append(q1, [node |-> r.to, parent |-> h]) BY DEF q1, h, x
    <3>5. Bfs(R, src, dst, depth, queue, h, rows \ {r})
      <4> HIDE DEF queue
      <4> QED BY <3>1, <3>2, <3>3, <3>4, BfsGrows
    <3>6. h \in 1 .. Len(q1) /\ IsSeq(q1) BY <3>1 DEF Bfs, Tree
    <3>7. queue[h] = q1[h] BY <3>6, AppendIsSeq DEF q1
    <3> QED BY <3>5, <3>7 DEF src, dst, rows, q1, h
  <2> HIDE DEF queue
  <2>4. s.q.src # s.q.dst => PathWalks(idx, t) BY <1>6, <2>2, <2>3 DEF PathWalks
  <2>5. PathFits(idx, t) BY <1>1, <1>6, <2>2, <2>4 DEF PathFits
  <2> QED BY <2>5 DEF t
<1>9. CASE ~skip /\ r.to = s.q.dst
  <2> DEFINE more == [read EXCEPT !.paths = Append(@, path), !.blocked = @ \union Inner(path),
                                  !.queue = Start(read.q)]
             full == Len(more.paths) = read.q.paths
  <2>1. t = IF full THEN [more EXCEPT !.at = "done", !.rows = {}] ELSE Expand(more, 1)
    BY <1>3, <1>9 DEF WithPath
  <2>2. /\ DOMAIN more = PathFields /\ more.tool = "shortest_path" /\ more.q = s.q
        /\ more.at = "search" /\ more.queue = Start(s.q)
        /\ more.blocked = s.blocked \union Inner(path) /\ more.paths = Append(s.paths, path)
    BY <1>4 DEF PathFields
  <2> DEFINE paths == Append(s.paths, path)
  <2>3. ASSUME s.q.src # s.q.dst
        PROVE  /\ PathsFit(idx, s.q, paths)
               /\ s.blocked \union Inner(path) = UNION {Inner(paths[j]) : j \in 1 .. Len(paths)}
    <3>1. ShortestIn(path, R, s.q.src, s.q.dst, depth)
      <4> DEFINE src == s.q.src
                 dst == s.q.dst
                 rows == s.rows
                 q1 == s.queue
                 h == s.head
      <4>1. Bfs(R, src, dst, depth, q1, h, rows) /\ rows # {} BY <1>6, <2>3
      <4>2. <<q1[h].node, dst>> \in R
        <5>1. <<q1[h].node, dst>> \in LinksOf(idx, s.q.kinds) BY <1>6, <1>9, <2>3
        <5> QED BY <5>1 DEF OpenLinks
      <4>3. x.node = dst /\ x.parent = h BY <1>5, <1>9
      <4>4. queue = Append(q1, x) OBVIOUS
      <4> HIDE DEF src, dst, rows, q1, h, R, depth, queue
      <4>5. depth \in Nat BY <1>1 DEF depth
      <4>6. ShortestIn(PathTo(queue, Len(queue)), R, src, dst, depth)
        BY <4>1, <4>2, <4>3, <4>4, <4>5, PathIsShortest
      <4> QED BY <4>6 DEF path, src, dst
    <3> DEFINE old == s.paths
               p == s.q
    <3>2. PathsFit(idx, p, old) /\ s.blocked = UNION {Inner(old[j]) : j \in 1 .. Len(old)}
      BY <1>6, <2>3
    <3>3. ShortestIn(path, OpenLinks(idx, p, old, Len(old)), p.src, p.dst, p.depth) BY <3>1
    <3>4. paths = Append(old, path) OBVIOUS
    <3>7. p = s.q OBVIOUS
    <3> HIDE DEF old, p, paths
    <3>5. PathsFit(idx, p, paths) BY <3>2, <3>3, <3>4, PathsGrow
    <3>6. UNION {Inner(paths[j]) : j \in 1 .. Len(paths)} =
              (UNION {Inner(old[j]) : j \in 1 .. Len(old)}) \union Inner(path)
      BY <3>2, <3>3, <3>4, PathsGrow
    <3>8. s.blocked \union Inner(path) = UNION {Inner(paths[j]) : j \in 1 .. Len(paths)}
      <4> DEFINE U == UNION {Inner(old[j]) : j \in 1 .. Len(old)}
                 V == UNION {Inner(paths[j]) : j \in 1 .. Len(paths)}
                 W == Inner(path)
      <4>3. s.blocked = U BY <3>2
      <4>4. V = U \union W BY <3>6
      <4>1. s.blocked = U /\ V = U \union W BY <4>3, <4>4
      <4> HIDE DEF U, V, W
      <4>2. s.blocked \union W = V BY <4>1
      <4> QED BY <4>2 DEF V, W
    <3> QED BY <3>5, <3>7, <3>8
  <2> HIDE DEF more, paths, queue
  <2>4. CASE full
    <3>1. t = [more EXCEPT !.at = "done", !.rows = {}] BY <2>1, <2>4
    <3>2. /\ DOMAIN t = PathFields /\ t.tool = "shortest_path" /\ t.q = s.q
          /\ t.at = "done" /\ t.blocked = s.blocked \union Inner(path) /\ t.paths = paths
      BY <2>2, <3>1 DEF PathFields, paths
    <3>3. s.q.src # s.q.dst => PathEnds(idx, t)
      <4>1. SUFFICES ASSUME s.q.src # s.q.dst PROVE ~(Len(t.paths) < t.q.paths)
        BY DEF PathEnds
      <4>2. Len(t.paths) = t.q.paths BY <1>4, <2>2, <2>4, <3>2 DEF paths
      <4>3. IsSeq(paths) BY <2>3, <4>1 DEF PathsFit
      <4>4. Len(t.paths) \in Nat BY <3>2, <4>3 DEF IsSeq
      <4> QED BY <4>2, <4>4
    <3>4. PathFits(idx, t) BY <1>1, <2>3, <3>2, <3>3 DEF PathFits
    <3> QED BY <3>4 DEF t
  <2>5. CASE ~full
    <3>1. t = [more EXCEPT !.head = 1, !.rows = Expandable(more, 1)] BY <2>1, <2>5 DEF Expand
    <3>2. /\ DOMAIN t = PathFields /\ t.tool = "shortest_path" /\ t.q = s.q
          /\ t.at = "search" /\ t.blocked = s.blocked \union Inner(path) /\ t.paths = paths
          /\ t.queue = more.queue /\ t.head = 1 /\ t.rows = Expandable(more, 1)
      BY <2>2, <3>1 DEF PathFields, paths
    <3>3. s.q.src # s.q.dst => PathWalks(idx, t)
      <4> DEFINE p == s.q
      <4>1. SUFFICES ASSUME p.src # p.dst PROVE PathWalks(idx, t) OBVIOUS
      <4>2. more.queue = Start(p) /\ more.q = p /\ p.depth \in Nat BY <1>1, <2>2
      <4> HIDE DEF p
      <4>3. /\ Bfs(OpenLinks(idx, p, paths, Len(paths)), p.src, p.dst, p.depth, more.queue, 1,
                    Expandable(more, 1))
            /\ \A y \in Expandable(more, 1) :
                 <<more.queue[1].node, y.to>> \in LinksOf(idx, p.kinds)
        BY <4>1, <4>2, PathBegins
      <4>4. t.q = p BY <3>2 DEF p
      <4> QED BY <3>2, <4>3, <4>4 DEF PathWalks
    <3>4. PathFits(idx, t) BY <1>1, <2>3, <3>2, <3>3 DEF PathFits
    <3> QED BY <3>4 DEF t
  <2> QED BY <2>4, <2>5
<1> QED BY <1>7, <1>8, <1>9

LEMMA PathNextFits ==
  ASSUME PathFits(idx, search), PathNext
  PROVE  PathFits(idx, search')
<1> DEFINE s == search
           t == search'
           n == Len(s.queue)
           h == s.head + 1
           depth == s.q.depth
           R == OpenLinks(idx, s.q, s.paths, Len(s.paths))
           last == h > n \/ h - 1 > s.q.depth * HeadFactor
<1>1. /\ s.tool = "shortest_path" /\ s.at = "search" /\ DOMAIN s = PathFields
      /\ depth \in Nat /\ s.rows = {}
  BY DEF PathNext, Running, PathFits
<1>2. t = IF last THEN [s EXCEPT !.at = "done"] ELSE Expand(s, h)
  BY DEF PathNext, Continue
<1>3. ASSUME s.q.src # s.q.dst
      PROVE  /\ PathsFit(idx, s.q, s.paths)
             /\ s.blocked = UNION {Inner(s.paths[j]) : j \in 1 .. Len(s.paths)}
             /\ Bfs(R, s.q.src, s.q.dst, depth, s.queue, s.head, {})
  BY <1>1, <1>3 DEF PathFits, PathWalks
<1> HIDE DEF s, t
<1>4. CASE last
  <2>1. t = [s EXCEPT !.at = "done"] BY <1>2, <1>4
  <2>2. /\ DOMAIN t = PathFields /\ t.tool = "shortest_path" /\ t.q = s.q
        /\ t.at = "done" /\ t.queue = s.queue /\ t.head = s.head
        /\ t.blocked = s.blocked /\ t.paths = s.paths
    BY <1>1, <2>1 DEF PathFields
  <2>3. s.q.src # s.q.dst => PathEnds(idx, t)
    <3>1. SUFFICES ASSUME s.q.src # s.q.dst,
                          ~(s.head > s.q.depth * HeadFactor)
                   PROVE  s.q.dst \notin Within({s.q.src}, R, depth)[depth]
      BY <2>2 DEF PathEnds
    <3> DEFINE src == s.q.src
               dst == s.q.dst
               queue == s.queue
               head == s.head
    <3>2. Bfs(R, src, dst, depth, queue, head, {}) /\ depth \in Nat BY <1>1, <1>3, <3>1
    <3>3. Len(queue) \in Nat \ {0} /\ head \in 1 .. Len(queue)
      <4> HIDE DEF src, dst, queue, head, depth, R
      <4> QED BY <3>2 DEF Bfs, Tree
    <3>4. h - 1 = head BY <3>3
    <3>5. head = Len(queue)
      <4>1. h > n BY <1>4, <3>1, <3>4
      <4> HIDE DEF s
      <4> QED BY <3>3, <4>1
    <3> HIDE DEF src, dst, queue, head, depth, R
    <3> DEFINE b == Within({src}, R, depth)
    <3>6. b = Within({src}, R, depth) /\ depth \in 0 .. depth BY <3>2
    <3> HIDE DEF b
    <3>7. dst \notin b[depth] BY <3>2, <3>5, <3>6, BfsBall
    <3> QED BY <3>6, <3>7 DEF src, dst
  <2>4. PathFits(idx, t) BY <1>1, <1>3, <2>2, <2>3 DEF PathFits
  <2> QED BY <2>4 DEF t
<1>5. CASE ~last
  <2> DEFINE new == Expandable(s, h)
  <2>1. t = [s EXCEPT !.head = h, !.rows = new] BY <1>2, <1>5 DEF Expand
  <2> HIDE DEF new
  <2>2. /\ DOMAIN t = PathFields /\ t.tool = "shortest_path" /\ t.q = s.q
        /\ t.at = "search" /\ t.queue = s.queue /\ t.head = h
        /\ t.blocked = s.blocked /\ t.paths = s.paths /\ t.rows = new
    BY <1>1, <2>1 DEF PathFields
  <2>3. ASSUME s.q.src # s.q.dst
        PROVE  /\ Bfs(R, s.q.src, s.q.dst, depth, s.queue, h, new)
               /\ \A r \in new : <<s.queue[h].node, r.to>> \in LinksOf(idx, s.q.kinds)
    <3> DEFINE src == s.q.src
               dst == s.q.dst
               queue == s.queue
               head == s.head
               kinds == s.q.kinds
    <3>1. Bfs(R, src, dst, depth, queue, head, {}) /\ depth \in Nat BY <1>1, <1>3, <2>3
    <3>2. Len(queue) \in Nat \ {0} /\ head \in 1 .. Len(queue)
      <4> HIDE DEF src, dst, queue, head, depth, R
      <4> QED BY <3>1 DEF Bfs, Tree
    <3>3. h <= Len(queue) BY <1>5, <3>2
    <3>4. new = IF DepthAt(queue, h) < depth THEN Steps(queue[h].node, kinds) ELSE {}
      BY <3>3 DEF Expandable, new
    <3>5. h = head + 1 OBVIOUS
    <3>6. \A p \in R : p \in LinksOf(idx, kinds) BY DEF OpenLinks
    <3> HIDE DEF src, dst, queue, head, kinds, h, depth, R
    <3> DEFINE z == queue[h].node
    <3>7. /\ \A r \in Steps(z, kinds) : <<z, r.to>> \in LinksOf(idx, kinds)
          /\ \A p \in LinksOf(idx, kinds) : p[1] = z => \E r \in Steps(z, kinds) : r.to = p[2]
      <4> HIDE DEF z
      <4> QED BY StepsAre
    <3>8. DepthAt(queue, h) < depth \/ new = {} BY <3>4
    <3>9. DepthAt(queue, h) < depth =>
            \A p \in R : p[1] = queue[h].node => \E r \in new : r.to = p[2]
      BY <3>4, <3>6, <3>7
    <3>10. Bfs(R, src, dst, depth, queue, h, new)
      <4> HIDE DEF z
      <4> QED BY <3>1, <3>3, <3>5, <3>8, <3>9, BfsNext
    <3>11. \A r \in new : <<queue[h].node, r.to>> \in LinksOf(idx, kinds)
      BY <3>4, <3>7
    <3> QED BY <3>10, <3>11 DEF src, dst, queue, kinds
  <2>4. s.q.src # s.q.dst => PathWalks(idx, t) BY <1>3, <2>2, <2>3 DEF PathWalks
  <2>5. PathFits(idx, t) BY <1>1, <1>3, <2>2, <2>4 DEF PathFits
  <2> QED BY <2>5 DEF t
<1> QED BY <1>4, <1>5

(* The callers of a symbol are answered at once.                           *)
CallersFit(i, s) == s.q \in Requests.callers /\ s.rows = CallersApprox(i, s.q)

(* Every state of every search that has an inductive form has that form.   *)
SearchFits ==
  /\ search.tool = "impact_of"      => ImpactFits(idx, search)
  /\ search.tool = "detect_changes" => ChangesFits(idx, search) /\ Seeded(idx, search)
  /\ search.tool = "subgraph"       => SubgraphFits(idx, search)
  /\ search.tool = "shortest_path"  => PathFits(idx, search)
  /\ search.tool = "callers_approx" => CallersFit(idx, search)
  /\ search.tool = "symbol_get"     =>
       search.q.key = NoKey \/ search.rows \subseteq {search.q.key}

(* The inductive invariant of the searches.                                *)
SearchInv == IsIndex(idx) /\ SearchFits

(* The requests of a session.                                              *)
SearchAsks ==
  \/ \E q \in Requests.impact   : AskImpact(q)
  \/ \E q \in Requests.changes  : AskChanges(q)
  \/ \E q \in Requests.subgraph : AskSubgraph(q)
  \/ \E q \in Requests.path     : AskPath(q)
  \/ \E q \in Requests.callers  : AskCallers(q)
  \/ \E q \in Requests.around   : AskCallees(q) \/ AskRefs(q)
  \/ \E q \in Requests.deps     : AskDeps(q)
  \/ \E q \in Requests.impls    : AskImpls(q)

(* What the answers of the other tools are is not said here.               *)
LEMMA OtherTools ==
  ASSUME NEW tool \in {"callers_approx", "callees_approx", "references", "file_deps",
                       "find_implementations"}, NEW q, NEW rows, Answer(tool, q, rows)
  PROVE  search'.tool = tool /\ search'.q = q /\ search'.rows = rows /\ UNCHANGED idx
BY DEF Answer, Ask

(* A request starts a search, or answers at once, in that form;            *)
LEMMA AsksFit ==
  ASSUME SearchInv, SearchAsks
  PROVE  /\ UNCHANGED idx
         /\ search'.tool = "impact_of"      => ImpactFits(idx, search')
         /\ search'.tool = "detect_changes" => ChangesFits(idx, search') /\ Seeded(idx, search')
         /\ search'.tool = "subgraph"       => SubgraphFits(idx, search')
         /\ search'.tool = "shortest_path"  => PathFits(idx, search')
         /\ search'.tool = "callers_approx" => CallersFit(idx, search')
         /\ search'.tool # "symbol_get"
<1>1. CASE \E q \in Requests.impact : AskImpact(q)
  <2>1. PICK q \in Requests.impact : AskImpact(q) BY <1>1
  <2>2. q.depth \in Nat /\ q.max \in Nat BY RequestsAssumption
  <2>3. UNCHANGED idx BY <2>1 DEF AskImpact, Ask
  <2>4. CASE q.node \in NodeIds(idx)
    <3>1. search'.tool = "impact_of" /\ ImpactFits(idx, search') BY <2>1, <2>2, <2>4, ImpactStarts
    <3> QED BY <2>3, <3>1
  <2>5. CASE q.node \notin NodeIds(idx)
    <3>1. search' = NotFound(q) BY <2>1, <2>5 DEF AskImpact
    <3>2. search'.tool = "not_found" BY <3>1 DEF NotFound
    <3> QED BY <2>3, <3>2
  <2> QED BY <2>4, <2>5
<1>2. CASE \E q \in Requests.changes : AskChanges(q)
  <2>1. PICK q \in Requests.changes : AskChanges(q) BY <1>2
  <2>2. q.depth \in Nat BY RequestsAssumption
  <2>3. UNCHANGED idx BY <2>1 DEF AskChanges, Ask
  <2>4. ChangesFits(idx, search') /\ Seeded(idx, search')
    BY <2>1, <2>2, ChangesStarts, SearchAssumption
  <2>5. search'.tool = "detect_changes" BY <2>4 DEF ChangesFits
  <2> QED BY <2>3, <2>4, <2>5
<1>3. CASE \E q \in Requests.subgraph : AskSubgraph(q)
  <2>1. PICK q \in Requests.subgraph : AskSubgraph(q) BY <1>3
  <2>2. q.depth \in Nat /\ q.max \in Nat /\ q.seeds \in Seq(Nat) BY RequestsAssumption
  <2>3. UNCHANGED idx BY <2>1 DEF AskSubgraph, Ask
  <2>4. IsSeq(q.seeds) BY <2>2, SeqIsSeq
  <2>5. search'.tool = "subgraph" /\ SubgraphFits(idx, search')
    BY <2>1, <2>2, <2>4, SubgraphStarts
  <2> QED BY <2>3, <2>5
<1>4. CASE \E q \in Requests.path : AskPath(q)
  <2>1. PICK q \in Requests.path : AskPath(q) BY <1>4
  <2>2. q.depth \in Nat BY RequestsAssumption
  <2>3. UNCHANGED idx BY <2>1 DEF AskPath, Ask
  <2>4. PathFits(idx, search') BY <2>1, <2>2, PathStarts
  <2>5. search'.tool = "shortest_path" BY <2>4 DEF PathFits
  <2> QED BY <2>3, <2>4, <2>5
<1>5. CASE \E q \in Requests.callers : AskCallers(q)
  <2>1. PICK q \in Requests.callers : AskCallers(q) BY <1>5
  <2> DEFINE rows == CallersApprox(idx, q)
  <2>2. Answer("callers_approx", q, rows) BY <2>1 DEF AskCallers
  <2> HIDE DEF rows
  <2>3. search'.tool = "callers_approx" /\ search'.q = q /\ search'.rows = rows /\ UNCHANGED idx
    BY <2>2, OtherTools
  <2>4. CallersFit(idx, search') BY <2>3 DEF CallersFit, rows
  <2> QED BY <2>3, <2>4
<1>6. CASE \E q \in Requests.around : AskCallees(q) \/ AskRefs(q)
  BY <1>6, OtherTools DEF AskCallees, AskRefs
<1>7. CASE \E q \in Requests.deps : AskDeps(q)
  BY <1>7, OtherTools DEF AskDeps
<1>8. CASE \E q \in Requests.impls : AskImpls(q)
  BY <1>8, OtherTools DEF AskImpls
<1> QED BY <1>1, <1>2, <1>3, <1>4, <1>5, <1>6, <1>7, <1>8 DEF SearchAsks

(* a step of a search stays in it,                                         *)
LEMMA StepsFit ==
  ASSUME SearchInv, SearchSteps
  PROVE  /\ UNCHANGED idx
         /\ search'.tool = "impact_of"      => ImpactFits(idx, search')
         /\ search'.tool = "detect_changes" => ChangesFits(idx, search') /\ Seeded(idx, search')
         /\ search'.tool = "subgraph"       => SubgraphFits(idx, search')
         /\ search'.tool = "shortest_path"  => PathFits(idx, search')
         /\ search'.tool \notin {"callers_approx", "symbol_get"}
<1> USE DEF Running
<1>1. UNCHANGED idx
  BY DEF SearchSteps, ImpactRow, ImpactNext, ChangesLevel, ChangesAnswer, SubgraphRow,
         SubgraphNext, PathRow, PathNext, Continue
<1>2. CASE ImpactRow \/ ImpactNext
  <2>1. search.tool = "impact_of" /\ search.at = "search" BY <1>2 DEF ImpactRow, ImpactNext
  <2>2. ImpactWalks(idx, search) BY <2>1 DEF SearchInv, SearchFits, ImpactFits
  <2>3. search'.tool = "impact_of" /\ ImpactFits(idx, search')
    BY <1>2, <2>1, <2>2, ImpactRowFits, ImpactNextFits
  <2> QED BY <1>1, <2>3
<1>3. CASE ChangesLevel \/ ChangesAnswer
  <2>1. search.tool = "detect_changes" BY <1>3 DEF ChangesLevel, ChangesAnswer
  <2>2. ChangesFits(idx, search) /\ Seeded(idx, search) BY <2>1 DEF SearchInv, SearchFits
  <2>3. Numbered(idx) BY DEF SearchInv, IsIndex, Numbered
  <2>4. ChangesFits(idx, search') /\ Seeded(idx, search')
    BY <1>3, <2>2, <2>3, ChangesLevelFits, ChangesAnswerFits, SearchAssumption
  <2>5. search'.tool = "detect_changes" BY <2>4 DEF ChangesFits
  <2> QED BY <1>1, <2>4, <2>5
<1>4. CASE SubgraphRow \/ SubgraphNext
  <2>1. search.tool = "subgraph" /\ search.at = "search" BY <1>4 DEF SubgraphRow, SubgraphNext
  <2>2. SubgraphWalks(idx, search) BY <2>1 DEF SearchInv, SearchFits, SubgraphFits
  <2>3. search'.tool = "subgraph" /\ SubgraphFits(idx, search')
    BY <1>4, <2>1, <2>2, SubgraphRowFits, SubgraphNextFits
  <2> QED BY <1>1, <2>3
<1>5. CASE PathRow \/ PathNext
  <2>1. search.tool = "shortest_path" BY <1>5 DEF PathRow, PathNext
  <2>2. PathFits(idx, search) BY <2>1 DEF SearchInv, SearchFits
  <2>3. PathFits(idx, search') BY <1>5, <2>2, PathRowFits, PathNextFits
  <2>4. search'.tool = "shortest_path" BY <2>3 DEF PathFits
  <2> QED BY <1>1, <2>3, <2>4
<1> QED BY <1>2, <1>3, <1>4, <1>5 DEF SearchSteps

(* What does not change the index leaves the answers about it right.       *)
LEMMA SameIndexFits ==
  ASSUME IsIndex(idx), UNCHANGED idx,
         search'.tool = "impact_of"      => ImpactFits(idx, search'),
         search'.tool = "detect_changes" => ChangesFits(idx, search') /\ Seeded(idx, search'),
         search'.tool = "subgraph"       => SubgraphFits(idx, search'),
         search'.tool = "shortest_path"  => PathFits(idx, search'),
         search'.tool = "callers_approx" => CallersFit(idx, search'),
         search'.tool = "symbol_get"     =>
           search'.q.key = NoKey \/ search'.rows \subseteq {search'.q.key}
  PROVE  SearchInv'
<1>1. IsIndex(idx)' BY DEF IsIndex
<1>2. (search.tool = "impact_of" => ImpactFits(idx, search))'
  OBVIOUS
<1>3. (search.tool = "detect_changes" => ChangesFits(idx, search) /\ Seeded(idx, search))'
  <2>1. ASSUME Seeded(idx, search') PROVE Seeded(idx, search)'
    BY <2>1 DEF Seeded, ChangedFiles, FileStatus, SourceStatus, SymbolsOfFile, IsSymbol, NodeIds
  <2>2. ASSUME ChangesFits(idx, search') PROVE ChangesFits(idx, search)'
    BY <2>2
  <2> QED BY <2>1, <2>2
<1>4. (search.tool = "subgraph" => SubgraphFits(idx, search))'
  OBVIOUS
<1>5. (search.tool = "shortest_path" => PathFits(idx, search))'
  OBVIOUS
<1>6. (search.tool = "callers_approx" => CallersFit(idx, search))'
  OBVIOUS
<1> QED BY <1>1, <1>2, <1>3, <1>4, <1>5, <1>6 DEF SearchInv, SearchFits

(* and nothing else changes a search, except that a commit drops it.       *)
LEMMA SearchInductive ==
  SearchInv /\ [Next]_vars => SearchInv'
<1> SUFFICES ASSUME SearchInv, [Next]_vars PROVE SearchInv' OBVIOUS
<1>1. ASSUME UNCHANGED <<idx, search>> PROVE SearchInv'
  BY <1>1, SameIndexFits DEF SearchInv, SearchFits
<1>2. CASE Search
  <2>1. SearchAsks \/ SearchSteps BY <1>2 DEF Search, SearchAsks
  <2>2. CASE SearchAsks BY <2>2, AsksFit, SameIndexFits DEF SearchInv
  <2>3. CASE SearchSteps BY <2>3, StepsFit, SameIndexFits DEF SearchInv
  <2> QED BY <2>1, <2>2, <2>3
<1>3. CASE \E r \in Requests.lists : List(r) BY <1>1, <1>3 DEF List
<1>4. CASE More BY <1>1, <1>4 DEF More
<1>5. CASE Follow
  <2>1. PICK h \in walk.handles, by \in {"key", "id"}, checked \in BOOLEAN :
          AskSymbol([by |-> by, id |-> h.id, key |-> IF checked THEN h.key ELSE NoKey])
    BY <1>5 DEF Follow
  <2> DEFINE q == [by |-> by, id |-> h.id, key |-> IF checked THEN h.key ELSE NoKey]
  <2>2. AskSymbol(q) /\ q.by \in {"key", "id"} BY <2>1
  <2> HIDE DEF q
  <2>3. /\ search'.tool = "symbol_get"
        /\ search'.q.key = NoKey \/ search'.rows \subseteq {search'.q.key}
    BY <2>2, SymbolGetFits
  <2>4. UNCHANGED idx BY <2>2 DEF AskSymbol, Ask
  <2> QED BY <2>3, <2>4, SameIndexFits DEF SearchInv
<1>6. CASE \E new \in Commits : Change(new)
  <2>1. PICK new \in Commits : Change(new) BY <1>6
  <2>2. idx' = new /\ search' = NoSearch BY <2>1 DEF Change
  <2>3. IsIndex(idx)' BY <2>2, SessionsAssumption DEF IsIndex
  <2>4. search'.tool = "none" BY <2>2 DEF NoSearch
  <2> QED BY <2>3, <2>4 DEF SearchInv, SearchFits
<1>7. CASE UNCHANGED vars BY <1>1, <1>7 DEF vars
<1> QED BY <1>2, <1>3, <1>4, <1>5, <1>6, <1>7 DEF Next

LEMMA SearchInitially ==
  Init => SearchInv
<1> SUFFICES ASSUME Init PROVE SearchInv OBVIOUS
<1>1. PICK s \in Sessions : idx = s.idx BY DEF Init
<1>2. IsIndex(idx) BY <1>1, SessionsAssumption
<1>3. search.tool = "none" BY DEF Init, NoSearch
<1> QED BY <1>2, <1>3 DEF SearchInv, SearchFits

(* Whatever the graph, the request and the order in which SQLite returns   *)
(* the rows of a statement: the answer of impact_of has what depends on a  *)
(* node within the depth, at its distance, and of detect_changes what the  *)
(* changed files are called from; subgraph has the nodes and edges within  *)
(* its depth; each path of shortest_path is a shortest one that avoids the *)
(* paths before it; an answer that is cut short says so, and has nothing   *)
(* that does not belong to it; a handle with a key finds no other symbol.  *)
THEOREM SearchesAreExactAlways ==
  Spec => []SearchesAreExact
<1>1. SearchInv => SearchesAreExact
  <2> SUFFICES ASSUME SearchInv, search.at = "done"
               PROVE  CASE search.tool = "impact_of"      -> ImpactIsExact(search)
                        [] search.tool = "detect_changes" -> ChangesAreComplete(search)
                        [] search.tool = "subgraph"       -> SubgraphIsExact(search)
                        [] search.tool = "shortest_path"  -> PathsAreShortest(search)
                        [] search.tool = "symbol_get"     ->
                             search.q.key = NoKey \/ search.rows \subseteq {search.q.key}
                        [] OTHER -> TRUE
    BY DEF SearchesAreExact
  <2>1. ASSUME search.tool = "impact_of" PROVE ImpactIsExact(search)
    BY <2>1, ImpactEndsIsExact DEF SearchInv, SearchFits, ImpactFits
  <2>2. ASSUME search.tool = "detect_changes" PROVE ChangesAreComplete(search)
    BY <2>2, ChangesEndsIsExact DEF SearchInv, SearchFits
  <2>3. ASSUME search.tool = "subgraph" PROVE SubgraphIsExact(search)
    BY <2>3, SubgraphEndsIsExact DEF SearchInv, SearchFits, SubgraphFits
  <2>4. ASSUME search.tool = "shortest_path" PROVE PathsAreShortest(search)
    BY <2>4, PathEndsIsShortest DEF SearchInv, SearchFits
  <2>5. search.tool = "symbol_get" =>
         search.q.key = NoKey \/ search.rows \subseteq {search.q.key}
    BY DEF SearchInv, SearchFits
  <2> QED BY <2>1, <2>2, <2>3, <2>4, <2>5
<1> QED BY <1>1, SearchInitially, SearchInductive, PTL DEF Spec

-----------------------------------------------------------------------------
(* Pages.                                                                  *)

(* Part of what was read after an offset, and all that was read so far.    *)
LEMMA PartOf ==
  ASSUME NEW all, IsSeq(all), NEW offset \in 0 .. Len(all), NEW end \in offset .. Len(all),
         NEW read, read = SubSeq(all, offset + 1, end), NEW k \in 0 .. end - offset
  PROVE  /\ IsSeq(read) /\ Len(read) = end - offset
         /\ SubSeq(read, 1, k) = SubSeq(all, offset + 1, offset + k)
         /\ Len(SubSeq(read, 1, k)) = k
         /\ SubSeq(all, 1, offset) \o SubSeq(read, 1, k) = SubSeq(all, 1, offset + k)
<1> DEFINE S == ToSet(all)
           n == Len(all)
<1>1. all \in Seq(S) /\ n \in Nat /\ \A i \in 1 .. n : all[i] \in S
  BY LenProperties, ElementOfSeq DEF IsSeq
<1> HIDE DEF S, n
<1>2. offset \in 0 .. n /\ end \in offset .. n BY DEF n
<1>3. /\ read \in Seq(S)
      /\ Len(read) = IF offset + 1 <= end THEN end - (offset + 1) + 1 ELSE 0
  <2>1. offset + 1 \in Int /\ end \in Int /\ \A i \in offset + 1 .. end : all[i] \in S
    BY <1>1, <1>2
  <2>2. SubSeq(all, offset + 1, end) \in Seq(S) BY <2>1, SubSeqProperties
  <2>3. Len(SubSeq(all, offset + 1, end)) =
          IF offset + 1 <= end THEN end - (offset + 1) + 1 ELSE 0
    BY <2>1, SubSeqProperties
  <2> QED BY <2>2, <2>3
<1>4. Len(read) = end - offset BY <1>1, <1>2, <1>3
<1>5. IsSeq(read) BY <1>3, SeqIsSeq
<1>6. SubSeq(read, 1, k) = SubSeq(all, offset + 1, offset + k)
  <2>1. CASE k = 0
    <3>1. SubSeq(read, 1, k) = <<>>
      <4>1. 1 \in Int /\ k \in Int /\ k < 1 BY <2>1
      <4> QED BY <4>1, SubSeqEmpty
    <3>2. SubSeq(all, offset + 1, offset + k) = <<>>
      <4>1. offset + 1 \in Int /\ offset + k \in Int /\ offset + k < offset + 1
        BY <1>1, <1>2, <2>1
      <4> QED BY <4>1, SubSeqEmpty
    <3> QED BY <3>1, <3>2
  <2>2. CASE k # 0
    <3> DEFINE i == offset + 1
    <3>1. i \in 1 .. n /\ end \in 1 .. n BY <1>1, <1>2, <2>2
    <3>2. 1 \in 1 .. end - i + 1 /\ k \in 1 .. end - i + 1 BY <1>1, <1>2, <2>2
    <3>3. i + 1 - 1 = offset + 1 /\ i + k - 1 = offset + k BY <1>1, <1>2
    <3> HIDE DEF i
    <3>4. i \in 1 .. Len(all) /\ end \in 1 .. Len(all) BY <3>1 DEF n
    <3>5. SubSeq(SubSeq(all, i, end), 1, k) = SubSeq(all, i + 1 - 1, i + k - 1)
      BY <1>1, <3>2, <3>4, SubSeqOfSubSeq
    <3> QED BY <3>3, <3>5 DEF i
  <2> QED BY <2>1, <2>2
<1>7. Len(SubSeq(read, 1, k)) = k
  <2>1. 1 \in Int /\ k \in Int /\ \A i \in 1 .. k : read[i] \in S
    <3>1. \A i \in 1 .. k : i \in 1 .. Len(read) BY <1>1, <1>2, <1>4
    <3> QED BY <1>2, <1>3, <3>1, ElementOfSeq
  <2>2. Len(SubSeq(read, 1, k)) = IF 1 <= k THEN k - 1 + 1 ELSE 0 BY <2>1, SubSeqProperties
  <2> QED BY <2>2
<1>8. SubSeq(all, 1, offset) \o SubSeq(all, offset + 1, offset + k) = SubSeq(all, 1, offset + k)
  <2>1. /\ 1 \in 1 .. Len(all) + 1 /\ offset \in 1 - 1 .. Len(all)
        /\ offset + k \in offset .. Len(all)
    BY <1>1, <1>2 DEF n
  <2> QED BY <1>1, <2>1, ConcatAdjacentSubSeq
<1> QED BY <1>4, <1>5, <1>6, <1>7, <1>8

(* A page holds rows from the first on, at most limit, and one at least if *)
(* there is any, whatever the rows take.                                   *)
LEMMA PageOfIs ==
  ASSUME NEW rows, IsSeq(rows), NEW limit \in Nat \ {0}, NEW budget, NEW size
  PROVE  \E k \in 0 .. Len(rows) :
           /\ PageOf(rows, limit, budget, size) = SubSeq(rows, 1, k)
           /\ k <= limit /\ (Len(rows) # 0 => k # 0)
<1> DEFINE n == Len(rows)
           used == CHOOSE u : u = [m \in 0 .. n |->
                                    IF m = 0 THEN 0 ELSE u[m - 1] + size[rows[m]]]
           fits(m) == m <= limit /\ (m <= 1 \/ budget = 0 \/ used[m] <= budget)
           ends(m) == fits(m) /\ (m = n \/ ~fits(m + 1))
           most == CHOOSE m \in 0 .. n : ends(m)
           page == PageOf(rows, limit, budget, size)
<1>1. n \in Nat BY DEF IsSeq
<1>2. page = Take(most, rows) BY DEF PageOf
<1> HIDE DEF used, page
<1>3. fits(0) /\ fits(1) BY <1>1
<1>4. \A m : fits(m) => m <= limit OBVIOUS
<1> HIDE DEF fits
<1>5. \E m \in 0 .. n : ends(m)
  <2> DEFINE T == {m \in 0 .. n : m = n \/ ~fits(m + 1)}
  <2>1. n \in T /\ T \subseteq Nat BY <1>1
  <2>2. PICK m \in T : \A j \in T : m <= j
    <3> HIDE DEF T
    <3> QED BY <2>1, Least
  <2>3. fits(m)
    <3>1. CASE m = 0 BY <1>3, <3>1
    <3>2. CASE m # 0
      <4>1. m - 1 \in 0 .. n /\ (m - 1) + 1 = m /\ ~(m <= m - 1) BY <1>1, <3>2
      <4>2. m - 1 \notin T BY <2>2, <4>1
      <4> QED BY <4>1, <4>2
    <3> QED BY <3>1, <3>2
  <2> QED BY <2>3
<1>6. most \in 0 .. n /\ ends(most)
  <2> HIDE DEF ends
  <2> QED BY <1>5
<1> HIDE DEF most
<1>7. most <= limit BY <1>4, <1>6
<1>8. n # 0 => most # 0
  <2> SUFFICES ASSUME n # 0, most = 0 PROVE FALSE OBVIOUS
  <2>1. ~fits(0 + 1) BY <1>6
  <2>2. 0 + 1 = 1 OBVIOUS
  <2> QED BY <1>3, <2>1, <2>2
<1>9. (IF most < Len(rows) THEN most ELSE Len(rows)) = most BY <1>1, <1>6
<1>10. page = SubSeq(rows, 1, most) BY <1>2, <1>9 DEF Take
<1> QED BY <1>6, <1>7, <1>8, <1>10 DEF page

(* Without a budget a page has as many rows as there is room for.          *)
LEMMA PageIs ==
  ASSUME NEW rows, IsSeq(rows), NEW limit \in Nat \ {0}, NEW budget
  PROVE  \E k \in 0 .. Len(rows) :
           /\ Page(rows, limit, budget) = SubSeq(rows, 1, k)
           /\ k <= limit /\ (Len(rows) # 0 => k # 0)
           /\ budget = 0 => k = limit \/ k = Len(rows)
<1> DEFINE n == Len(rows)
<1>1. n \in Nat BY DEF IsSeq
<1>2. CASE budget = 0
  <2> DEFINE k == IF limit < Len(rows) THEN limit ELSE Len(rows)
  <2>1. Page(rows, limit, budget) = SubSeq(rows, 1, k) BY <1>2 DEF Page, Take
  <2>2. k \in 0 .. n /\ k <= limit /\ (n # 0 => k # 0) /\ (k = limit \/ k = n) BY <1>1
  <2> QED BY <2>1, <2>2
<1>3. CASE budget # 0
  <2> DEFINE size == [m \in ToSet(rows) |-> idx.nodes[m].size]
  <2>1. Page(rows, limit, budget) = PageOf(rows, limit, budget, size) BY <1>3 DEF Page
  <2> HIDE DEF size
  <2>2. \E k \in 0 .. Len(rows) :
          /\ PageOf(rows, limit, budget, size) = SubSeq(rows, 1, k)
          /\ k <= limit /\ (Len(rows) # 0 => k # 0)
    BY PageOfIs
  <2> QED BY <1>3, <2>1, <2>2
<1> QED BY <1>2, <1>3

-----------------------------------------------------------------------------
(* Values that are bound, and the conditions they make.                    *)

(* Values that a tool binds, by role.                                      *)
IsBinds(s) == IsSeq(s) /\ \A b \in ToSet(s) : b = Bind(b.role, b.value)

LEMMA BindIs ==
  ASSUME NEW role, NEW value
  PROVE  /\ Bind(role, value).role = role /\ Bind(role, value).value = value
         /\ Bind(role, value) = Bind(Bind(role, value).role, Bind(role, value).value)
BY DEF Bind

LEMMA IfBinds ==
  ASSUME NEW given, NEW role, NEW value, NEW s, s = If(given, Bind(role, value))
  PROVE  IsBinds(s) /\ ToSet(s) = With(given, Bind(role, value)) /\ Roles(s) = If(given, role)
<1> DEFINE b == Bind(role, value)
<1>1. b.role = role /\ b = Bind(b.role, b.value) BY BindIs
<1> HIDE DEF b
<1>2. CASE given
  <2>1. s = <<b>> BY <1>2 DEF If, b
  <2>2. DOMAIN s = {1} /\ s[1] = b /\ Len(s) = 1 /\ s \in Seq({b}) BY <2>1
  <2>3. ToSet(s) = {b} BY <2>2 DEF ToSet
  <2>4. IsSeq(s) BY <2>2, <2>3 DEF IsSeq
  <2>5. Roles(s) = <<role>>
    <3> DEFINE f == Roles(s)
    <3>1. f = [i \in {1} |-> s[i].role] BY <2>2 DEF Roles
    <3> HIDE DEF f
    <3>2. DOMAIN f = {1} /\ f[1] = role BY <1>1, <2>2, <3>1
    <3>3. f = [i \in 1 .. 1 |-> role] BY <1>1, <2>2, <3>1
    <3>4. <<role>> = [i \in 1 .. 1 |-> role] OBVIOUS
    <3> QED BY <3>3, <3>4 DEF f
  <2> QED BY <1>1, <1>2, <2>3, <2>4, <2>5 DEF IsBinds, If, With, b
<1>3. CASE ~given
  <2>1. s = <<>> BY <1>3 DEF If
  <2>2. Roles(s) = <<>>
    <3>1. Roles(s) = [i \in 1 .. 0 |-> s[i].role] BY <2>1 DEF Roles
    <3>2. \A i \in 1 .. 0 : FALSE OBVIOUS
    <3>3. Roles(s) \in Seq({}) /\ Len(Roles(s)) = 0 BY <3>1, <3>2
    <3> QED BY <3>3, EmptySeq
  <2> QED BY <1>3, <2>1, <2>2, EmptyIsSeq DEF IsBinds, If, With
<1> QED BY <1>2, <1>3

LEMMA RolesAre ==
  ASSUME NEW s, IsSeq(s)
  PROVE  /\ IsSeq(Roles(s)) /\ Len(Roles(s)) = Len(s)
         /\ \A i \in 1 .. Len(s) : Roles(s)[i] = s[i].role
<1> DEFINE f == Roles(s)
<1>1. DOMAIN s = 1 .. Len(s) /\ Len(s) \in Nat BY SeqIsSeq DEF IsSeq
<1>2. f = [i \in 1 .. Len(s) |-> s[i].role] BY <1>1 DEF Roles
<1> HIDE DEF f
<1>3. f = [i \in 1 .. Len(s) |-> f[i]] BY <1>2
<1>4. IsSeq(f) /\ Len(f) = Len(s) BY <1>1, <1>3, FunIsSeq
<1> QED BY <1>2, <1>4 DEF f

LEMMA ConcatBinds ==
  ASSUME NEW s, IsBinds(s), NEW t, IsBinds(t)
  PROVE  /\ IsBinds(s \o t) /\ ToSet(s \o t) = ToSet(s) \union ToSet(t)
         /\ Roles(s \o t) = Roles(s) \o Roles(t)
<1> DEFINE u == s \o t
           S == ToSet(s) \union ToSet(t)
<1>1. IsSeq(s) /\ IsSeq(t) BY DEF IsBinds
<1>2. IsSeq(u) /\ Len(u) = Len(s) + Len(t) /\ ToSet(u) = S BY <1>1, ConcatIsSeq
<1>3. s \in Seq(S) /\ t \in Seq(S) /\ Len(s) \in Nat /\ Len(t) \in Nat
  BY <1>1, SeqMonotonic, LenProperties DEF IsSeq
<1>4. \A i \in 1 .. Len(s) + Len(t) : u[i] = IF i <= Len(s) THEN s[i] ELSE t[i - Len(s)]
  BY <1>3, ConcatProperties
<1> HIDE DEF u, S
<1>5. IsBinds(u) BY <1>2 DEF IsBinds, S
<1>6. Roles(u) = Roles(s) \o Roles(t)
  <2> DEFINE a == Roles(s)
             b == Roles(t)
             c == Roles(u)
             d == a \o b
             T == ToSet(a) \union ToSet(b)
  <2>1. /\ IsSeq(a) /\ Len(a) = Len(s) /\ \A i \in 1 .. Len(s) : a[i] = s[i].role
        /\ IsSeq(b) /\ Len(b) = Len(t) /\ \A i \in 1 .. Len(t) : b[i] = t[i].role
        /\ IsSeq(c) /\ Len(c) = Len(u) /\ \A i \in 1 .. Len(u) : c[i] = u[i].role
    BY <1>1, <1>2, RolesAre
  <2> HIDE DEF a, b, c
  <2>2. a \in Seq(T) /\ b \in Seq(T) BY <2>1, SeqMonotonic DEF IsSeq
  <2>3. /\ d \in Seq(T) /\ Len(d) = Len(a) + Len(b)
        /\ \A i \in 1 .. Len(a) + Len(b) : d[i] = IF i <= Len(a) THEN a[i] ELSE b[i - Len(a)]
    BY <2>2, ConcatProperties
  <2> HIDE DEF d, T
  <2> DEFINE n == Len(s)
             m == Len(t)
  <2>4. ASSUME NEW i \in 1 .. n + m PROVE c[i] = d[i]
    <3>1. CASE i <= n
      <4>1. i \in 1 .. n BY <1>3, <3>1
      <4> QED BY <1>2, <1>4, <2>1, <2>3, <3>1, <4>1
    <3>2. CASE ~(i <= n)
      <4>1. i - n \in 1 .. m BY <1>3, <3>2
      <4> QED BY <1>2, <1>4, <2>1, <2>3, <3>2, <4>1
    <3> QED BY <3>1, <3>2
  <2>5. c \in Seq(ToSet(c)) /\ Len(c) = Len(d) BY <1>2, <2>1, <2>3 DEF IsSeq
  <2>6. \A i \in 1 .. Len(c) : c[i] = d[i] BY <1>2, <2>1, <2>4
  <2>7. c = d BY <2>3, <2>5, <2>6, SeqEqual
  <2> QED BY <2>7 DEF a, b, c, d
<1> QED BY <1>2, <1>5, <1>6 DEF S, u

(* Executed with its own statement a request selects what all its          *)
(* conditions do, and of that the rows after the offset.                   *)
LEMMA ExecuteIs ==
  ASSUME NEW plan, IsBinds(plan.binds), NEW limit, limit \in Nat, NEW offset, offset \in Nat,
         NEW rows, rows = Select(plan.table, plan.fixed \union ToSet(plan.binds))
  PROVE  Execute(Statement(plan), plan, limit, offset) =
           IF plan.page = "all" THEN rows
           ELSE SubSeq(rows, offset + 1, Smaller(Len(rows), offset + limit))
<1> DEFINE binds == plan.binds
           n      == Len(binds)
           values == [i \in DOMAIN binds |-> binds[i].value]
           ends   == <<limit, offset>>
           given  == values \o ends
           stmt   == Statement(plan)
           conditions == {Bind(stmt.vars[i], given[i]) : i \in 1 .. Len(stmt.vars)}
                           \union stmt.fixed
           number(i) == i <= Len(given) /\ (i > n \/ binds[i].role = "span")
           read == Select(plan.table, conditions)
<1>1. Execute(stmt, plan, limit, offset) =
        IF plan.page = "all" THEN read
        ELSE IF number(Len(stmt.vars) + 1) /\ number(Len(stmt.vars) + 2)
        THEN SubSeq(read, given[Len(stmt.vars) + 2] + 1,
                    Smaller(Len(read), given[Len(stmt.vars) + 2] + given[Len(stmt.vars) + 1]))
        ELSE <<>>
  BY DEF Execute
<1>2. stmt.fixed = plan.fixed /\ stmt.vars = Roles(binds) BY DEF Statement
<1>3. IsSeq(binds) BY DEF IsBinds
<1>4. DOMAIN binds = 1 .. n /\ n \in Nat /\ ToSet(binds) = {binds[i] : i \in 1 .. n}
  BY <1>3, SeqIsSeq DEF IsSeq
<1>5. Len(stmt.vars) = n /\ \A i \in 1 .. n : stmt.vars[i] = binds[i].role
  BY <1>2, <1>3, RolesAre
<1> HIDE DEF stmt, binds, n
<1>6. IsSeq(values) /\ Len(values) = n /\ \A i \in 1 .. n : values[i] = binds[i].value
  <2> DEFINE v == values
  <2>1. v = [i \in 1 .. n |-> binds[i].value] BY <1>4
  <2> HIDE DEF v
  <2>2. v = [i \in 1 .. n |-> v[i]] BY <2>1
  <2>3. IsSeq(v) /\ Len(v) = n BY <1>4, <2>2, FunIsSeq
  <2> QED BY <2>1, <2>3 DEF v
<1> HIDE DEF values
<1>7. /\ Len(given) = n + 2 /\ \A i \in 1 .. n : given[i] = values[i]
      /\ given[n + 1] = limit /\ given[n + 2] = offset
  <2> DEFINE T == ToSet(values) \union {limit, offset}
  <2>1. values \in Seq(T) BY <1>6, SeqMonotonic DEF IsSeq
  <2>2. ends \in Seq(T) /\ Len(ends) = 2 /\ ends[1] = limit /\ ends[2] = offset OBVIOUS
  <2> HIDE DEF ends, T
  <2>3. /\ Len(given) = Len(values) + Len(ends)
        /\ \A i \in 1 .. Len(values) + Len(ends) :
             given[i] = IF i <= Len(values) THEN values[i] ELSE ends[i - Len(values)]
    BY <2>1, <2>2, ConcatProperties
  <2> HIDE DEF given
  <2>4. \A i \in 1 .. n : given[i] = values[i]
    <3> SUFFICES ASSUME NEW i \in 1 .. n PROVE given[i] = values[i] OBVIOUS
    <3>1. i \in 1 .. n + 2 /\ i <= n BY <1>4
    <3> QED BY <1>6, <2>2, <2>3, <3>1
  <2>5. n + 1 \in 1 .. n + 2 /\ n + 2 \in 1 .. n + 2 /\ ~(n + 1 <= n) /\ ~(n + 2 <= n)
        /\ (n + 1) - n = 1 /\ (n + 2) - n = 2
    BY <1>4
  <2> QED BY <1>6, <2>2, <2>3, <2>4, <2>5
<1> HIDE DEF given
<1>8. number(n + 1) /\ number(n + 2) BY <1>4, <1>7
<1>9. conditions = plan.fixed \union ToSet(plan.binds)
  <2>1. ASSUME NEW i \in 1 .. n PROVE Bind(stmt.vars[i], given[i]) = binds[i]
    <3>1. binds[i] \in ToSet(binds) BY <1>4
    <3>2. binds[i] = Bind(binds[i].role, binds[i].value) BY <3>1 DEF IsBinds, binds
    <3> QED BY <1>5, <1>6, <1>7, <3>2
  <2>2. {Bind(stmt.vars[i], given[i]) : i \in 1 .. n} = {binds[i] : i \in 1 .. n} BY <2>1
  <2> QED BY <1>2, <1>4, <1>5, <2>2 DEF binds
<1> HIDE DEF conditions, number
<1>10. read = rows BY <1>9
<1> QED BY <1>1, <1>5, <1>7, <1>8, <1>10 DEF stmt

-----------------------------------------------------------------------------
(* What a statement selects is what its request means.                     *)

(* A row meets all conditions of a statement.                              *)
AllNode(n, C) == \A c \in C : NodeHolds(n, c.role, c.value)
AllFile(f, C) == \A c \in C : FileHolds(f, c.role, c.value)

LEMMA AllUnion ==
  ASSUME NEW n, NEW C, NEW D
  PROVE  /\ AllNode(n, C \union D) <=> AllNode(n, C) /\ AllNode(n, D)
         /\ AllFile(n, C \union D) <=> AllFile(n, C) /\ AllFile(n, D)
<1>1. AllNode(n, C \union D) <=> AllNode(n, C) /\ AllNode(n, D)
  BY DEF AllNode
<1>2. AllFile(n, C \union D) <=> AllFile(n, C) /\ AllFile(n, D)
  BY DEF AllFile
<1> QED BY <1>1, <1>2

LEMMA AllWith ==
  ASSUME NEW n, NEW given, NEW role, NEW value
  PROVE  /\ AllNode(n, With(given, Bind(role, value))) <=> (given => NodeHolds(n, role, value))
         /\ AllFile(n, With(given, Bind(role, value))) <=> (given => FileHolds(n, role, value))
<1> DEFINE b == Bind(role, value)
<1>1. b.role = role /\ b.value = value BY BindIs
<1> HIDE DEF b
<1>2. CASE given
  <2>1. With(given, b) = {b} BY <1>2 DEF With
  <2>2. AllNode(n, {b}) <=> NodeHolds(n, role, value) BY <1>1 DEF AllNode
  <2>3. AllFile(n, {b}) <=> FileHolds(n, role, value) BY <1>1 DEF AllFile
  <2> QED BY <1>2, <2>1, <2>2, <2>3 DEF b
<1>3. CASE ~given
  <2>1. With(given, b) = {} BY <1>3 DEF With
  <2>2. AllNode(n, {}) BY DEF AllNode
  <2>3. AllFile(n, {}) BY DEF AllFile
  <2> QED BY <1>3, <2>1, <2>2, <2>3 DEF b
<1> QED BY <1>2, <1>3

(* What each condition says of a symbol, and of a file.                    *)
LEMMA NodeHoldsIs ==
  ASSUME NEW n, NEW v
  PROVE  /\ NodeHolds(n, "file", v) <=> (IsSymbol(idx, n) /\ idx.nodes[n].file = v)
         /\ NodeHolds(n, "kind", v) <=> idx.nodes[n].kind = v
         /\ NodeHolds(n, "callables", v) <=> idx.nodes[n].kind \in {"function", "method"}
         /\ NodeHolds(n, "span", v) <=> (idx.nodes[n].span >= v \/ idx.nodes[n].public)
         /\ NodeHolds(n, "name", v) <=> (v = <<>> \/ BareName(idx.nodes[n].qual) = BareName(v))
         /\ NodeHolds(n, "under", v) <=> (IsSymbol(idx, n) /\ Under(idx.nodes[n].file, v))
         /\ NodeHolds(n, "not_deep", v) <=> (IsSymbol(idx, n) /\ Directly(idx.nodes[n].file, v))
         /\ NodeHolds(n, "primary", v) <=> (IsSymbol(idx, n) /\ IsPrimary(idx.nodes[n].file))
         /\ NodeHolds(n, "flat", v) <=> (IsSymbol(idx, n) /\ Directly(idx.nodes[n].file, <<>>))
         /\ NodeHolds(n, "symbol", v) <=> IsSymbol(idx, n)
         /\ NodeHolds(n, "holder", v) <=>
              \E e \in idx.edges : e.src = v /\ e.dst = n /\ e.kind = "contains"
<1>1. NodeHolds(n, "file", v) <=> (IsSymbol(idx, n) /\ idx.nodes[n].file = v)
  BY DEF NodeHolds, InFile
<1>2. NodeHolds(n, "kind", v) <=> idx.nodes[n].kind = v
  BY DEF NodeHolds
<1>3. NodeHolds(n, "callables", v) <=> idx.nodes[n].kind \in {"function", "method"}
  BY DEF NodeHolds
<1>4. NodeHolds(n, "span", v) <=> (idx.nodes[n].span >= v \/ idx.nodes[n].public)
  BY DEF NodeHolds
<1>5. NodeHolds(n, "name", v) <=> (v = <<>> \/ BareName(idx.nodes[n].qual) = BareName(v))
  BY DEF NodeHolds
<1>6. NodeHolds(n, "under", v) <=> (IsSymbol(idx, n) /\ Under(idx.nodes[n].file, v))
  BY DEF NodeHolds, InFile
<1>7. NodeHolds(n, "not_deep", v) <=> (IsSymbol(idx, n) /\ Directly(idx.nodes[n].file, v))
  BY DEF NodeHolds, InFile
<1>8. NodeHolds(n, "primary", v) <=> (IsSymbol(idx, n) /\ IsPrimary(idx.nodes[n].file))
  BY DEF NodeHolds, InFile
<1>9. NodeHolds(n, "flat", v) <=> (IsSymbol(idx, n) /\ Directly(idx.nodes[n].file, <<>>))
  BY DEF NodeHolds, InFile
<1>10. NodeHolds(n, "symbol", v) <=> IsSymbol(idx, n)
  BY DEF NodeHolds
<1>11. NodeHolds(n, "holder", v) <=>
              \E e \in idx.edges : e.src = v /\ e.dst = n /\ e.kind = "contains"
  BY DEF NodeHolds
<1> QED BY <1>1, <1>2, <1>3, <1>4, <1>5, <1>6, <1>7, <1>8, <1>9, <1>10, <1>11

LEMMA FileHoldsIs ==
  ASSUME NEW f, NEW v
  PROVE  /\ FileHolds(f, "under", v) <=> Under(f, v)
         /\ FileHolds(f, "primary", v) <=> IsPrimary(f)
         /\ FileHolds(f, "language", v) <=> idx.language[f] = v
<1>1. FileHolds(f, "under", v) <=> Under(f, v) BY DEF FileHolds
<1>2. FileHolds(f, "primary", v) <=> IsPrimary(f) BY DEF FileHolds
<1>3. FileHolds(f, "language", v) <=> idx.language[f] = v BY DEF FileHolds
<1> QED BY <1>1, <1>2, <1>3

(* A statement that has the conditions of a request returns what the       *)
(* request means, for each table.                                          *)
LEMMA SelectNodes ==
  ASSUME NEW C, NEW r, r.tool \in Symbols,
         \A n \in NodeIds(idx) : AllNode(n, C) <=> Wanted(r, n)
  PROVE  Select("nodes", C) = Meant(r)
<1> DEFINE S == {n \in NodeIds(idx) : \A c \in C : NodeHolds(n, c.role, c.value)}
           T == {n \in NodeIds(idx) : Wanted(r, n)}
<1>1. S = T BY DEF AllNode
<1>2. Select("nodes", C) = InOrder(S, LAMBDA n : idx.nodes[n].place) BY DEF Select
<1>3. Meant(r) = InOrder(T, LAMBDA n : idx.nodes[n].place) BY DEF Meant, Symbols
<1> QED BY <1>1, <1>2, <1>3

LEMMA SelectFiles ==
  ASSUME NEW C, NEW r, r.tool = "file_search",
         \A f \in Files : AllFile(f, C) <=> WantedFile(r, f)
  PROVE  Select("files", C) = Meant(r)
<1> DEFINE S == {f \in Files : \A c \in C : FileHolds(f, c.role, c.value)}
           T == {f \in Files : WantedFile(r, f)}
<1>1. S = T BY DEF AllFile
<1>2. Select("files", C) = InOrder(S, LAMBDA f : f) BY DEF Select
<1>3. Meant(r) = InOrder(T, LAMBDA f : f) BY DEF Meant, Symbols
<1> QED BY <1>1, <1>2, <1>3

LEMMA SelectHttp ==
  ASSUME NEW C, NEW r, r.tool = "list_http_calls",
         \A x \in HttpCalls : AllFile(x.file, C) <=> WantedFile(r, x.file)
  PROVE  Select("http", C) = Meant(r)
<1> DEFINE S == {x \in HttpCalls : \A c \in C : FileHolds(x.file, c.role, c.value)}
           T == {x \in HttpCalls : WantedFile(r, x.file)}
<1>1. S = T BY DEF AllFile
<1>2. Select("http", C) = InOrder(S, LAMBDA x : x.site) BY DEF Select
<1>3. Meant(r) = InOrder(T, LAMBDA x : x.site) BY DEF Meant, Symbols
<1> QED BY <1>1, <1>2, <1>3

LEMMA SelectEntries ==
  ASSUME NEW C, NEW r, r.tool = "dir_list",
         C = With(r.primary, Bind("primary", 0)) \union {Bind("dir", r.dir)}
  PROVE  Select("entries", C) = Meant(r)
<1> DEFINE dir == (CHOOSE c \in C : c.role = "dir").value
           p == Bind("primary", 0)
           d == Bind("dir", r.dir)
<1>1. p.role = "primary" /\ d.role = "dir" /\ d.value = r.dir BY BindIs
<1> HIDE DEF p, d
<1>2. d \in C /\ \A c \in C : c = d \/ (c = p /\ r.primary) BY DEF With, p, d
<1>3. \A c \in C : c.role = "dir" => c = d BY <1>1, <1>2
<1>4. dir = r.dir BY <1>1, <1>2, <1>3
<1>5. (\E c \in C : c.role = "primary") <=> r.primary
  <2>1. ASSUME r.primary PROVE p \in C BY <2>1 DEF With, p
  <2> QED BY <1>1, <1>2, <2>1
<1>6. Select("entries", C) = Ordered(Entries(dir, \E c \in C : c.role = "primary"), Before)
  BY DEF Select
<1>7. Entries(dir, \E c \in C : c.role = "primary") = Entries(r.dir, r.primary)
  BY <1>4, <1>5 DEF Entries
<1>8. Meant(r) = Ordered(Entries(r.dir, r.primary), Before) BY DEF Meant, Symbols
<1> QED BY <1>6, <1>7, <1>8

(* Of each tool: what is bound, and that this selects what is meant.       *)
Vars(r) ==
  CASE r.tool = "file_search"     -> <<"under">> \o If(r.language # "", "language")
    [] r.tool = "dir_list"        -> <<"dir">>
    [] r.tool = "list_http_calls" -> If(r.dir # <<>>, "under")
    [] r.tool = "symbol_search"   ->
         (If(r.name # <<>>, "name") \o If(r.kind \notin {"", "function"}, "kind"))
           \o If(r.dir # <<>>, "under")
    [] r.tool = "symbol_list"     ->
         ((If(r.file # 0, "file") \o If(r.name # <<>>, "name")) \o If(r.kind # "", "kind"))
           \o If(r.span > 0 /\ r.kind # "method", "span")
    [] r.tool = "symbols_in_path" ->
         ((CASE Scope(r) = "file" -> <<"file">>
             [] Scope(r) = "dir"  -> <<"under">> \o If(~r.recursive, "not_deep")
             [] OTHER             -> <<>>)
           \o If(r.kind # "", "kind")) \o If(r.span > 0 /\ r.kind # "method", "span")
    [] r.tool = "file_summary"    -> <<"file">>
    [] OTHER                      -> <<IF r.holder # 0 THEN "holder" ELSE "file">>

(* The statement that a tool builds has the values in the order of its     *)
(* markers, and returns, without LIMIT and OFFSET, what the request means. *)
Selects(r) ==
  /\ IsBinds(PlanOf(r).binds)
  /\ Roles(PlanOf(r).binds) = Vars(r)
  /\ Select(PlanOf(r).table, PlanOf(r).fixed \union ToSet(PlanOf(r).binds)) = Meant(r)

LEMMA PlanIs ==
  ASSUME NEW table, NEW name, NEW fixed, NEW binds, NEW page,
         NEW p, p = Plan(table, name, fixed, binds, page)
  PROVE  /\ p.table = table /\ p.name = name /\ p.fixed = fixed
         /\ p.binds = binds /\ p.page = page
BY DEF Plan

LEMMA OneBind ==
  ASSUME NEW role, NEW value, NEW s, s = <<Bind(role, value)>>
  PROVE  /\ IsBinds(s) /\ ToSet(s) = {Bind(role, value)} /\ Roles(s) = <<role>>
         /\ \A n : AllNode(n, ToSet(s)) <=> NodeHolds(n, role, value)
         /\ \A f : AllFile(f, ToSet(s)) <=> FileHolds(f, role, value)
<1> DEFINE given == TRUE
           b == Bind(role, value)
<1>1. s = If(given, b) BY DEF If
<1>2. b.role = role /\ b.value = value BY BindIs
<1>3. given OBVIOUS
<1> HIDE DEF given
<1>4. IsBinds(s) /\ ToSet(s) = With(given, b) /\ Roles(s) = If(given, role) BY <1>1, IfBinds
<1> HIDE DEF b
<1>5. ToSet(s) = {b} BY <1>3, <1>4 DEF With
<1>6. Roles(s) = <<role>> BY <1>3, <1>4 DEF If
<1>7. \A n : AllNode(n, ToSet(s)) <=> NodeHolds(n, role, value) BY <1>2, <1>5 DEF AllNode
<1>8. \A f : AllFile(f, ToSet(s)) <=> FileHolds(f, role, value) BY <1>2, <1>5 DEF AllFile
<1> QED BY <1>4, <1>5, <1>6, <1>7, <1>8 DEF b

LEMMA NoRoles == Roles(<<>>) = <<>>
<1> DEFINE no == FALSE
           s == If(no, Bind("file", 0))
<1>1. s = <<>> /\ If(no, "file") = <<>> BY DEF If
<1>2. s = If(no, Bind("file", 0)) OBVIOUS
<1> HIDE DEF s, no
<1>3. Roles(s) = If(no, "file") BY <1>2, IfBinds
<1> QED BY <1>1, <1>3

LEMMA OptionalBind ==
  ASSUME NEW given, NEW role, NEW value, NEW s, s = If(given, Bind(role, value))
  PROVE  /\ IsBinds(s) /\ Roles(s) = If(given, role)
         /\ \A n : AllNode(n, ToSet(s)) <=> (given => NodeHolds(n, role, value))
         /\ \A f : AllFile(f, ToSet(s)) <=> (given => FileHolds(f, role, value))
<1>1. IsBinds(s) /\ Roles(s) = If(given, role) /\ ToSet(s) = With(given, Bind(role, value))
  BY IfBinds
<1>2. \A n : AllNode(n, ToSet(s)) <=> (given => NodeHolds(n, role, value)) BY <1>1, AllWith
<1>3. \A f : AllFile(f, ToSet(s)) <=> (given => FileHolds(f, role, value)) BY <1>1, AllWith
<1> QED BY <1>1, <1>2, <1>3

LEMMA FixedBind ==
  ASSUME NEW given, NEW role, NEW C, C = Fixed(given, role)
  PROVE  /\ \A n : AllNode(n, C) <=> (given => NodeHolds(n, role, 0))
         /\ \A f : AllFile(f, C) <=> (given => FileHolds(f, role, 0))
<1>1. C = With(given, Bind(role, 0)) BY DEF Fixed
<1>2. \A n : AllNode(n, C) <=> (given => NodeHolds(n, role, 0)) BY <1>1, AllWith
<1>3. \A f : AllFile(f, C) <=> (given => FileHolds(f, role, 0)) BY <1>1, AllWith
<1> QED BY <1>2, <1>3

LEMMA ConcatAll ==
  ASSUME NEW s, IsBinds(s), NEW t, IsBinds(t), NEW u, u = s \o t
  PROVE  /\ IsBinds(u) /\ Roles(u) = Roles(s) \o Roles(t)
         /\ \A n : AllNode(n, ToSet(u)) <=> AllNode(n, ToSet(s)) /\ AllNode(n, ToSet(t))
         /\ \A f : AllFile(f, ToSet(u)) <=> AllFile(f, ToSet(s)) /\ AllFile(f, ToSet(t))
<1>1. /\ IsBinds(u) /\ ToSet(u) = ToSet(s) \union ToSet(t)
      /\ Roles(u) = Roles(s) \o Roles(t)
  BY ConcatBinds
<1>2. \A n : AllNode(n, ToSet(u)) <=> AllNode(n, ToSet(s)) /\ AllNode(n, ToSet(t))
  BY <1>1, AllUnion
<1>3. \A f : AllFile(f, ToSet(u)) <=> AllFile(f, ToSet(s)) /\ AllFile(f, ToSet(t))
  BY <1>1, AllUnion
<1> QED BY <1>1, <1>2, <1>3

(* Every file is under the root.                                           *)
LEMMA UnderRoot ==
  ASSUME NEW f, f \in DOMAIN idx.rows, idx.rows[f] # Missing, idx.paths[f] \in Seq(Nat) \ {<<>>}
  PROVE  Under(f, <<>>)
<1> DEFINE q == PathOf[f]
           w == Front(q)
           S == SubSeq(w, 1, 0)
<1>1. q = idx.paths[f] BY DEF PathOf, Files
<1>2. q \in Seq(Nat) /\ q # <<>> BY <1>1
<1> HIDE DEF q
<1>3. Len(q) \in Nat /\ Len(q) # 0 BY <1>2, EmptySeq
<1>4. w \in Seq(Nat) /\ w = SubSeq(q, 1, Len(q) - 1)
  <2>1. w = SubSeq(q, 1, Len(q) - 1) BY DEF Front
  <2>2. \A i \in 1 .. Len(q) - 1 : q[i] \in Nat BY <1>2, <1>3, ElementOfSeq
  <2> QED BY <1>3, <2>1, <2>2, SubSeqProperties
<1> HIDE DEF w
<1>5. Len(<<>>) = 0 /\ Len(w) \in Nat BY <1>4
<1>6. SubSeq(w, 1, 0) = <<>> BY SubSeqEmpty
<1>7. IsPrefix(<<>>, w) BY <1>5, <1>6 DEF IsPrefix
<1> QED BY <1>7 DEF Under, w, q

(* Tool by tool, whatever parameters are given.                            *)
LEMMA FileSearchSelects ==
  ASSUME NEW r, IsList(r), r.tool = "file_search"
  PROVE  Selects(r)
<1> DEFINE given == r.language # ""
           name == {"file_search"} \union With(r.primary, "primary")
                     \union With(r.language # "", "lang")
           a == <<Bind("under", r.dir)>>
           b == If(given, Bind("language", r.language))
           fixed == Fixed(r.primary, "primary")
           binds == a \o b
           C == fixed \union ToSet(binds)
           p == PlanOf(r)
<1>1. p.table = "files" /\ p.fixed = fixed /\ p.binds = binds
  <2>1. p = FileSearch(r) BY DEF PlanOf
  <2>2. p = Plan("files", name, fixed, binds, "probe") BY <2>1 DEF FileSearch
  <2> HIDE DEF name, fixed, binds, p
  <2> QED BY <2>2, PlanIs
<1>2. /\ IsBinds(a) /\ Roles(a) = <<"under">>
      /\ \A f : AllFile(f, ToSet(a)) <=> FileHolds(f, "under", r.dir)
  <2>1. a = <<Bind("under", r.dir)>> OBVIOUS
  <2> HIDE DEF a
  <2> QED BY <2>1, OneBind
<1>3. b = If(given, Bind("language", r.language)) /\ (given <=> r.language # "") OBVIOUS
<1> HIDE DEF a, b, given, p
<1>4. /\ IsBinds(b) /\ Roles(b) = If(given, "language")
      /\ \A f : AllFile(f, ToSet(b)) <=> (given => FileHolds(f, "language", r.language))
  <2>1. b = If(given, Bind("language", r.language)) BY <1>3
  <2> QED BY <2>1, OptionalBind
<1>5. \A f : AllFile(f, fixed) <=> (r.primary => FileHolds(f, "primary", 0))
  BY FixedBind
<1>6. /\ IsBinds(binds) /\ Roles(binds) = Roles(a) \o Roles(b)
      /\ \A f : AllFile(f, ToSet(binds)) <=> AllFile(f, ToSet(a)) /\ AllFile(f, ToSet(b))
  BY <1>2, <1>4, ConcatAll
<1> HIDE DEF binds, fixed
<1>7. ASSUME NEW f \in Files PROVE AllFile(f, C) <=> WantedFile(r, f)
  <2>1. AllFile(f, C) <=> AllFile(f, fixed) /\ AllFile(f, ToSet(a)) /\ AllFile(f, ToSet(b))
    BY <1>6, AllUnion
  <2>2. /\ FileHolds(f, "primary", 0) <=> IsPrimary(f)
        /\ FileHolds(f, "under", r.dir) <=> Under(f, r.dir)
        /\ FileHolds(f, "language", r.language) <=> idx.language[f] = r.language
    BY FileHoldsIs
  <2> QED BY <1>2, <1>3, <1>4, <1>5, <2>1, <2>2 DEF WantedFile
<1> HIDE DEF C
<1>8. Select("files", C) = Meant(r) BY <1>7, SelectFiles
<1>9. Roles(binds) = Vars(r)
  BY <1>2, <1>4, <1>6 DEF Vars, given
<1> QED BY <1>1, <1>6, <1>8, <1>9 DEF Selects, C, p

LEMMA ListHttpSelects ==
  ASSUME NEW r, IsList(r), r.tool = "list_http_calls", IsIndex(idx)
  PROVE  Selects(r)
<1> DEFINE given == r.dir # <<>>
           name == {"list_http_calls"} \union With(r.dir # <<>>, "glob")
                     \union With(r.primary, "primary")
           b == If(given, Bind("under", r.dir))
           fixed == Fixed(r.primary, "primary")
           C == fixed \union ToSet(b)
           p == PlanOf(r)
<1>1. p.table = "http" /\ p.fixed = fixed /\ p.binds = b
  <2>1. p = ListHttpCalls(r) BY DEF PlanOf
  <2>2. p = Plan("http", name, fixed, b, "count") BY <2>1 DEF ListHttpCalls
  <2> HIDE DEF name, fixed, b, p
  <2> QED BY <2>2, PlanIs
<1>2. b = If(given, Bind("under", r.dir)) /\ (given <=> r.dir # <<>>) OBVIOUS
<1> HIDE DEF b, given, p
<1>3. /\ IsBinds(b) /\ Roles(b) = If(given, "under")
      /\ \A f : AllFile(f, ToSet(b)) <=> (given => FileHolds(f, "under", r.dir))
  BY <1>2, OptionalBind
<1>4. \A f : AllFile(f, fixed) <=> (r.primary => FileHolds(f, "primary", 0)) BY FixedBind
<1> HIDE DEF fixed
<1>5. ASSUME NEW x \in HttpCalls PROVE AllFile(x.file, C) <=> WantedFile(r, x.file)
  <2> DEFINE f == x.file
  <2>6. f \in DOMAIN idx.rows /\ idx.rows[f] # Missing /\ idx.paths[f] \in Seq(Nat) \ {<<>>}
    BY DEF HttpCalls, IsIndex
  <2> HIDE DEF f
  <2>1. Under(f, <<>>) BY <2>6, UnderRoot
  <2>2. AllFile(f, C) <=> AllFile(f, fixed) /\ AllFile(f, ToSet(b)) BY AllUnion
  <2>3. FileHolds(f, "primary", 0) <=> IsPrimary(f) BY FileHoldsIs
  <2>4. FileHolds(f, "under", r.dir) <=> Under(f, r.dir) BY FileHoldsIs
  <2>5. (given => Under(f, r.dir)) <=> Under(f, r.dir) BY <1>2, <2>1
  <2> QED BY <1>3, <1>4, <2>2, <2>3, <2>4, <2>5 DEF WantedFile, f
<1> HIDE DEF C
<1>6. Select("http", C) = Meant(r) BY <1>5, SelectHttp
<1>7. Roles(b) = Vars(r)
  BY <1>3 DEF Vars, given
<1> QED BY <1>1, <1>3, <1>6, <1>7 DEF Selects, C, p

LEMMA DirListSelects ==
  ASSUME NEW r, IsList(r), r.tool = "dir_list"
  PROVE  Selects(r)
<1> DEFINE name == {"dir_list"} \union With(r.primary, "primary")
           b == <<Bind("dir", r.dir)>>
           fixed == Fixed(r.primary, "primary")
           C == fixed \union ToSet(b)
           p == PlanOf(r)
<1>1. p.table = "entries" /\ p.fixed = fixed /\ p.binds = b
  <2>1. p = DirList(r) BY DEF PlanOf
  <2>2. p = Plan("entries", name, fixed, b, "probe") BY <2>1 DEF DirList
  <2> HIDE DEF name, fixed, b, p
  <2> QED BY <2>2, PlanIs
<1>2. b = <<Bind("dir", r.dir)>> /\ fixed = With(r.primary, Bind("primary", 0)) BY DEF Fixed
<1> HIDE DEF b, fixed, p
<1>3. IsBinds(b) /\ ToSet(b) = {Bind("dir", r.dir)} /\ Roles(b) = <<"dir">> BY <1>2, OneBind
<1>4. C = With(r.primary, Bind("primary", 0)) \union {Bind("dir", r.dir)} BY <1>2, <1>3
<1> HIDE DEF C
<1>5. Select("entries", C) = Meant(r) BY <1>4, SelectEntries
<1>6. Roles(b) = Vars(r)
  BY <1>3 DEF Vars
<1> QED BY <1>1, <1>3, <1>5, <1>6 DEF Selects, C, p

LEMMA SymbolSearchSelects ==
  ASSUME NEW r, IsList(r), r.tool = "symbol_search"
  PROVE  Selects(r)
<1> DEFINE named == r.name # <<>>
           kept  == r.kind \notin {"", "function"}
           below == r.dir # <<>>
           calls == r.kind = "function"
           name  == {"symbol_search", IF r.name = <<>> THEN "wild" ELSE "fts",
                      CASE r.kind = "" -> "all" [] r.kind = "function" -> "fn" [] OTHER -> "kind"}
                      \union With(r.dir # <<>>, "fp") \union With(r.primary, "primary")
           a == If(named, Bind("name", r.name))
           b == If(kept, Bind("kind", r.kind))
           c == If(below, Bind("under", r.dir))
           k == Fixed(calls, "callables")
           m == Fixed(r.primary, "primary")
           ab == a \o b
           binds == ab \o c
           C == (k \union m) \union ToSet(binds)
           p == PlanOf(r)
<1>1. p.table = "nodes" /\ p.fixed = k \union m /\ p.binds = binds
  <2>1. p = SymbolSearch(r) BY DEF PlanOf
  <2>2. p = Plan("nodes", name, k \union m, binds, "probe") BY <2>1 DEF SymbolSearch
  <2> HIDE DEF name, k, m, binds, p
  <2> QED BY <2>2, PlanIs
<1>2. /\ a = If(named, Bind("name", r.name)) /\ b = If(kept, Bind("kind", r.kind))
      /\ c = If(below, Bind("under", r.dir)) /\ k = Fixed(calls, "callables")
  OBVIOUS
<1>3. /\ named <=> r.name # <<>>
      /\ kept <=> r.kind \notin {"", "function"}
      /\ below <=> r.dir # <<>>
      /\ calls <=> r.kind = "function"
  OBVIOUS
<1> HIDE DEF a, b, c, k, named, kept, below, calls, p
<1>4. /\ IsBinds(a) /\ Roles(a) = If(named, "name")
      /\ \A n : AllNode(n, ToSet(a)) <=> (named => NodeHolds(n, "name", r.name))
  BY <1>2, OptionalBind
<1>5. /\ IsBinds(b) /\ Roles(b) = If(kept, "kind")
      /\ \A n : AllNode(n, ToSet(b)) <=> (kept => NodeHolds(n, "kind", r.kind))
  BY <1>2, OptionalBind
<1>6. /\ IsBinds(c) /\ Roles(c) = If(below, "under")
      /\ \A n : AllNode(n, ToSet(c)) <=> (below => NodeHolds(n, "under", r.dir))
  BY <1>2, OptionalBind
<1>7. \A n : AllNode(n, k) <=> (calls => NodeHolds(n, "callables", 0)) BY <1>2, FixedBind
<1>8. \A n : AllNode(n, m) <=> (r.primary => NodeHolds(n, "primary", 0)) BY FixedBind
<1>9. /\ IsBinds(ab) /\ Roles(ab) = Roles(a) \o Roles(b)
      /\ \A n : AllNode(n, ToSet(ab)) <=> AllNode(n, ToSet(a)) /\ AllNode(n, ToSet(b))
  BY <1>4, <1>5, ConcatAll
<1> HIDE DEF ab, m
<1>10. /\ IsBinds(binds) /\ Roles(binds) = Roles(ab) \o Roles(c)
       /\ \A n : AllNode(n, ToSet(binds)) <=> AllNode(n, ToSet(ab)) /\ AllNode(n, ToSet(c))
  BY <1>6, <1>9, ConcatAll
<1> HIDE DEF binds
<1>11. ASSUME NEW n \in NodeIds(idx) PROVE AllNode(n, C) <=> Wanted(r, n)
  <2>1. AllNode(n, C) <=> /\ AllNode(n, k) /\ AllNode(n, m) /\ AllNode(n, ToSet(a))
                          /\ AllNode(n, ToSet(b)) /\ AllNode(n, ToSet(c))
    BY <1>9, <1>10, AllUnion
  <2>2. NodeHolds(n, "name", r.name) <=>
          (r.name = <<>> \/ BareName(idx.nodes[n].qual) = BareName(r.name)) BY NodeHoldsIs
  <2>3. NodeHolds(n, "kind", r.kind) <=> idx.nodes[n].kind = r.kind BY NodeHoldsIs
  <2>4. NodeHolds(n, "under", r.dir) <=> (IsSymbol(idx, n) /\ Under(idx.nodes[n].file, r.dir))
    BY NodeHoldsIs
  <2>5. NodeHolds(n, "callables", 0) <=> idx.nodes[n].kind \in {"function", "method"}
    BY NodeHoldsIs
  <2>6. NodeHolds(n, "primary", 0) <=> (IsSymbol(idx, n) /\ IsPrimary(idx.nodes[n].file))
    BY NodeHoldsIs
  <2>7. r.file = 0 /\ r.span = 0 BY DEF IsList, Symbols
  <2>8. Wanted(r, n) <=>
          /\ r.kind = "" \/ idx.nodes[n].kind = r.kind
               \/ (r.kind = "function" /\ idx.nodes[n].kind = "method")
          /\ r.name # <<>> => BareName(idx.nodes[n].qual) = BareName(r.name)
          /\ r.primary => IsSymbol(idx, n) /\ IsPrimary(idx.nodes[n].file)
          /\ r.dir # <<>> => IsSymbol(idx, n) /\ Under(idx.nodes[n].file, r.dir)
    BY <2>7 DEF Wanted, InFile
  <2>9. /\ AllNode(n, ToSet(a)) <=>
             (r.name # <<>> => BareName(idx.nodes[n].qual) = BareName(r.name))
        /\ AllNode(n, ToSet(c)) <=>
             (r.dir # <<>> => IsSymbol(idx, n) /\ Under(idx.nodes[n].file, r.dir))
        /\ AllNode(n, m) <=> (r.primary => IsSymbol(idx, n) /\ IsPrimary(idx.nodes[n].file))
        /\ AllNode(n, ToSet(b)) /\ AllNode(n, k) <=>
             \/ r.kind = "" \/ idx.nodes[n].kind = r.kind
             \/ (r.kind = "function" /\ idx.nodes[n].kind = "method")
    BY <1>3, <1>4, <1>5, <1>6, <1>7, <1>8, <2>2, <2>3, <2>4, <2>5, <2>6
  <2> QED BY <2>1, <2>8, <2>9
<1> HIDE DEF C
<1>12. r.tool \in Symbols BY DEF Symbols
<1>13. Select("nodes", C) = Meant(r) BY <1>11, <1>12, SelectNodes
<1>14. Roles(binds) = Vars(r)
  BY <1>4, <1>5, <1>6, <1>9, <1>10 DEF Vars, named, kept, below
<1> QED BY <1>1, <1>10, <1>13, <1>14 DEF Selects, C, p

LEMMA SymbolListSelects ==
  ASSUME NEW r, IsList(r), r.tool = "symbol_list"
  PROVE  Selects(r)
<1> DEFINE filed == r.file # 0
           named == r.name # <<>>
           kept  == r.kind # ""
           long  == r.span > 0 /\ r.kind # "method"
           name  == {"symbol_list"} \union With(r.kind # "", "k") \union With(r.file # 0, "f")
                      \union With(r.name # <<>>, "g") \union With(r.span > 0, "s")
           a == If(filed, Bind("file", r.file))
           b == If(named, Bind("name", r.name))
           c == If(kept, Bind("kind", r.kind))
           d == If(long, Bind("span", r.span))
           ab == a \o b
           abc == ab \o c
           binds == abc \o d
           C == {} \union ToSet(binds)
           p == PlanOf(r)
<1>1. p.table = "nodes" /\ p.fixed = {} /\ p.binds = binds
  <2>1. p = SymbolList(r) BY DEF PlanOf
  <2>2. p = Plan("nodes", name, {}, binds, "probe") BY <2>1 DEF SymbolList
  <2> HIDE DEF name, binds, p
  <2> QED BY <2>2, PlanIs
<1>2. /\ a = If(filed, Bind("file", r.file)) /\ b = If(named, Bind("name", r.name))
      /\ c = If(kept, Bind("kind", r.kind)) /\ d = If(long, Bind("span", r.span))
  OBVIOUS
<1>3. /\ filed <=> r.file # 0
      /\ named <=> r.name # <<>>
      /\ kept <=> r.kind # ""
      /\ long <=> r.span # 0 /\ r.kind # "method"
  BY DEF IsList
<1> HIDE DEF a, b, c, d, filed, named, kept, long, p
<1>4. /\ IsBinds(a) /\ Roles(a) = If(filed, "file")
      /\ \A n : AllNode(n, ToSet(a)) <=> (filed => NodeHolds(n, "file", r.file))
  BY <1>2, OptionalBind
<1>5. /\ IsBinds(b) /\ Roles(b) = If(named, "name")
      /\ \A n : AllNode(n, ToSet(b)) <=> (named => NodeHolds(n, "name", r.name))
  BY <1>2, OptionalBind
<1>6. /\ IsBinds(c) /\ Roles(c) = If(kept, "kind")
      /\ \A n : AllNode(n, ToSet(c)) <=> (kept => NodeHolds(n, "kind", r.kind))
  BY <1>2, OptionalBind
<1>7. /\ IsBinds(d) /\ Roles(d) = If(long, "span")
      /\ \A n : AllNode(n, ToSet(d)) <=> (long => NodeHolds(n, "span", r.span))
  BY <1>2, OptionalBind
<1>8. /\ IsBinds(ab) /\ Roles(ab) = Roles(a) \o Roles(b)
      /\ \A n : AllNode(n, ToSet(ab)) <=> AllNode(n, ToSet(a)) /\ AllNode(n, ToSet(b))
  BY <1>4, <1>5, ConcatAll
<1> HIDE DEF ab
<1>9. /\ IsBinds(abc) /\ Roles(abc) = Roles(ab) \o Roles(c)
      /\ \A n : AllNode(n, ToSet(abc)) <=> AllNode(n, ToSet(ab)) /\ AllNode(n, ToSet(c))
  BY <1>6, <1>8, ConcatAll
<1> HIDE DEF abc
<1>10. /\ IsBinds(binds) /\ Roles(binds) = Roles(abc) \o Roles(d)
       /\ \A n : AllNode(n, ToSet(binds)) <=> AllNode(n, ToSet(abc)) /\ AllNode(n, ToSet(d))
  BY <1>7, <1>9, ConcatAll
<1> HIDE DEF binds
<1>11. ASSUME NEW n \in NodeIds(idx) PROVE AllNode(n, C) <=> Wanted(r, n)
  <2> DEFINE node == idx.nodes[n]
  <2>1. AllNode(n, C) <=> /\ AllNode(n, ToSet(a)) /\ AllNode(n, ToSet(b))
                          /\ AllNode(n, ToSet(c)) /\ AllNode(n, ToSet(d))
    <3>1. C = ToSet(binds) OBVIOUS
    <3> QED BY <1>8, <1>9, <1>10, <3>1
  <2>2. NodeHolds(n, "file", r.file) <=> (IsSymbol(idx, n) /\ node.file = r.file) BY NodeHoldsIs
  <2>3. NodeHolds(n, "name", r.name) <=>
          (r.name = <<>> \/ BareName(node.qual) = BareName(r.name)) BY NodeHoldsIs
  <2>4. NodeHolds(n, "kind", r.kind) <=> node.kind = r.kind BY NodeHoldsIs
  <2>5. NodeHolds(n, "span", r.span) <=> (node.span >= r.span \/ node.public) BY NodeHoldsIs
  <2>6. ~r.primary /\ r.dir = <<>> BY DEF IsList, Symbols
  <2>7. Wanted(r, n) <=>
          /\ r.kind = "" \/ node.kind = r.kind
          /\ r.name # <<>> => BareName(node.qual) = BareName(r.name)
          /\ r.file # 0 => IsSymbol(idx, n) /\ node.file = r.file
          /\ r.span = 0 \/ r.kind = "method" \/ node.span >= r.span \/ node.public
    BY <2>6 DEF Wanted, InFile
  <2> HIDE DEF node
  <2> QED BY <1>3, <1>4, <1>5, <1>6, <1>7, <2>1, <2>2, <2>3, <2>4, <2>5, <2>7
<1> HIDE DEF C
<1>12. r.tool \in Symbols BY DEF Symbols
<1>13. Select("nodes", C) = Meant(r) BY <1>11, <1>12, SelectNodes
<1>14. Roles(binds) = Vars(r)
  BY <1>4, <1>5, <1>6, <1>7, <1>8, <1>9, <1>10 DEF Vars, filed, named, kept, long
<1> QED BY <1>1, <1>10, <1>13, <1>14 DEF Selects, C, p

LEMMA SymbolsInPathSelects ==
  ASSUME NEW r, IsList(r), r.tool = "symbols_in_path"
  PROVE  Selects(r)
<1> DEFINE scope == Scope(r)
           name == {"symbols_in_path", scope}
                     \union With(scope \in {"primary", "dir"}, IF r.recursive THEN "r" ELSE "n")
                     \union With(r.kind # "", "k1") \union With(r.span > 0, "s")
           flat  == ~r.recursive
           kept  == r.kind # ""
           long  == r.span > 0 /\ r.kind # "method"
           prime == scope = "primary"
           top   == scope = "primary" /\ ~r.recursive
           a == <<Bind("file", r.file)>>
           b == <<Bind("under", r.dir)>>
           c == If(flat, Bind("not_deep", r.dir))
           d == If(kept, Bind("kind", r.kind))
           e == If(long, Bind("span", r.span))
           k == Fixed(prime, "primary")
           m == Fixed(top, "flat")
           bc == b \o c
           where == CASE scope = "file" -> a [] scope = "dir"  -> bc [] OTHER -> <<>>
           wd == where \o d
           binds == wd \o e
           C == (k \union m) \union ToSet(binds)
           p == PlanOf(r)
<1>1. p.table = "nodes" /\ p.fixed = k \union m /\ p.binds = binds
  <2>1. p = SymbolsInPath(r) BY DEF PlanOf
  <2>2. p = Plan("nodes", name, k \union m, binds, "probe") BY <2>1 DEF SymbolsInPath
  <2> HIDE DEF name, k, m, binds, p
  <2> QED BY <2>2, PlanIs
<1>2. /\ a = <<Bind("file", r.file)>> /\ b = <<Bind("under", r.dir)>>
      /\ c = If(flat, Bind("not_deep", r.dir)) /\ d = If(kept, Bind("kind", r.kind))
      /\ e = If(long, Bind("span", r.span))
      /\ k = Fixed(prime, "primary") /\ m = Fixed(top, "flat")
  OBVIOUS
<1>3. /\ flat <=> ~r.recursive
      /\ kept <=> r.kind # ""
      /\ long <=> r.span # 0 /\ r.kind # "method"
      /\ prime <=> r.primary
      /\ top <=> r.primary /\ ~r.recursive
      /\ scope = "file" <=> r.file # 0
      /\ scope = "dir" <=> r.dir # <<>>
      /\ r.primary => r.file = 0 /\ r.dir = <<>>
      /\ r.file # 0 => r.dir = <<>>
      /\ r.name = <<>>
  BY DEF IsList, Symbols, Scope
<1> HIDE DEF a, b, c, d, e, k, m, flat, kept, long, prime, top, scope, p
<1>4. /\ IsBinds(a) /\ Roles(a) = <<"file">>
      /\ \A n : AllNode(n, ToSet(a)) <=> NodeHolds(n, "file", r.file)
  BY <1>2, OneBind
<1>5. /\ IsBinds(b) /\ Roles(b) = <<"under">>
      /\ \A n : AllNode(n, ToSet(b)) <=> NodeHolds(n, "under", r.dir)
  BY <1>2, OneBind
<1>6. /\ IsBinds(c) /\ Roles(c) = If(flat, "not_deep")
      /\ \A n : AllNode(n, ToSet(c)) <=> (flat => NodeHolds(n, "not_deep", r.dir))
  BY <1>2, OptionalBind
<1>7. /\ IsBinds(d) /\ Roles(d) = If(kept, "kind")
      /\ \A n : AllNode(n, ToSet(d)) <=> (kept => NodeHolds(n, "kind", r.kind))
  BY <1>2, OptionalBind
<1>8. /\ IsBinds(e) /\ Roles(e) = If(long, "span")
      /\ \A n : AllNode(n, ToSet(e)) <=> (long => NodeHolds(n, "span", r.span))
  BY <1>2, OptionalBind
<1>9. \A n : AllNode(n, k) <=> (prime => NodeHolds(n, "primary", 0)) BY <1>2, FixedBind
<1>10. \A n : AllNode(n, m) <=> (top => NodeHolds(n, "flat", 0)) BY <1>2, FixedBind
<1>11. /\ IsBinds(bc) /\ Roles(bc) = Roles(b) \o Roles(c)
       /\ \A n : AllNode(n, ToSet(bc)) <=> AllNode(n, ToSet(b)) /\ AllNode(n, ToSet(c))
  BY <1>5, <1>6, ConcatAll
<1> HIDE DEF bc
<1>12. /\ IsBinds(where)
       /\ Roles(where) = CASE scope = "file" -> <<"file">>
                           [] scope = "dir"  -> <<"under">> \o If(flat, "not_deep")
                           [] OTHER          -> <<>>
       /\ \A n : AllNode(n, ToSet(where)) <=>
            /\ scope = "file" => NodeHolds(n, "file", r.file)
            /\ scope = "dir" => NodeHolds(n, "under", r.dir)
            /\ scope = "dir" => (flat => NodeHolds(n, "not_deep", r.dir))
  <2>1. CASE scope = "file"
    <3>1. where = a /\ scope # "dir" BY <2>1
    <3> HIDE DEF where
    <3> QED BY <1>4, <2>1, <3>1
  <2>2. CASE scope = "dir"
    <3>1. where = bc /\ scope # "file" BY <2>2
    <3> HIDE DEF where
    <3> QED BY <1>5, <1>6, <1>11, <2>2, <3>1
  <2>3. CASE scope # "file" /\ scope # "dir"
    <3>1. where = <<>> BY <2>3
    <3> HIDE DEF where
    <3>2. IsBinds(where) /\ ToSet(where) = {} BY <3>1, EmptyIsSeq DEF IsBinds
    <3>4. Roles(where) = <<>> BY <3>1, NoRoles
    <3>3. \A n : AllNode(n, ToSet(where)) BY <3>2 DEF AllNode
    <3> QED BY <2>3, <3>2, <3>3, <3>4
  <2> QED BY <2>1, <2>2, <2>3
<1> HIDE DEF where
<1>13. /\ IsBinds(wd) /\ Roles(wd) = Roles(where) \o Roles(d)
       /\ \A n : AllNode(n, ToSet(wd)) <=> AllNode(n, ToSet(where)) /\ AllNode(n, ToSet(d))
  BY <1>7, <1>12, ConcatAll
<1> HIDE DEF wd
<1>14. /\ IsBinds(binds) /\ Roles(binds) = Roles(wd) \o Roles(e)
       /\ \A n : AllNode(n, ToSet(binds)) <=> AllNode(n, ToSet(wd)) /\ AllNode(n, ToSet(e))
  BY <1>8, <1>13, ConcatAll
<1> HIDE DEF binds
<1>15. ASSUME NEW n \in NodeIds(idx) PROVE AllNode(n, C) <=> Wanted(r, n)
  <2> DEFINE node == idx.nodes[n]
             file == node.file
             sym  == IsSymbol(idx, n)
  <2>1. AllNode(n, C) <=> /\ AllNode(n, k) /\ AllNode(n, m) /\ AllNode(n, ToSet(where))
                          /\ AllNode(n, ToSet(d)) /\ AllNode(n, ToSet(e))
    BY <1>13, <1>14, AllUnion
  <2>2. NodeHolds(n, "file", r.file) <=> (sym /\ file = r.file) BY NodeHoldsIs
  <2>3. NodeHolds(n, "under", r.dir) <=> (sym /\ Under(file, r.dir)) BY NodeHoldsIs
  <2>4. NodeHolds(n, "not_deep", r.dir) <=> (sym /\ Directly(file, r.dir)) BY NodeHoldsIs
  <2>5. NodeHolds(n, "kind", r.kind) <=> node.kind = r.kind BY NodeHoldsIs
  <2>6. NodeHolds(n, "span", r.span) <=> (node.span >= r.span \/ node.public) BY NodeHoldsIs
  <2>7. NodeHolds(n, "primary", 0) <=> (sym /\ IsPrimary(file)) BY NodeHoldsIs
  <2>8. NodeHolds(n, "flat", 0) <=> (sym /\ Directly(file, <<>>)) BY NodeHoldsIs
  <2>9. Wanted(r, n) <=>
          /\ r.kind = "" \/ node.kind = r.kind
          /\ r.file # 0 => sym /\ file = r.file
          /\ r.primary => sym /\ IsPrimary(file)
          /\ r.dir # <<>> => sym /\ Under(file, r.dir)
          /\ ~r.recursive /\ (r.primary \/ r.dir # <<>>) => sym /\ Directly(file, r.dir)
          /\ r.span = 0 \/ r.kind = "method" \/ node.span >= r.span \/ node.public
    BY <1>3 DEF Wanted, InFile
  <2> HIDE DEF node, file, sym
  <2> DEFINE deep == Directly(file, r.dir)
             shallow == Directly(file, <<>>)
  <2>10. r.dir = <<>> => (deep <=> shallow) OBVIOUS
  <2> HIDE DEF deep, shallow
  <2>11. NodeHolds(n, "not_deep", r.dir) <=> (sym /\ deep) BY <2>4 DEF deep
  <2>12. NodeHolds(n, "flat", 0) <=> (sym /\ shallow) BY <2>8 DEF shallow
  <2>13. (~r.recursive /\ (r.primary \/ r.dir # <<>>) => sym /\ Directly(file, r.dir)) <=>
           /\ scope = "dir" => (flat => NodeHolds(n, "not_deep", r.dir))
           /\ top => NodeHolds(n, "flat", 0)
    BY <1>3, <2>10, <2>11, <2>12 DEF deep
  <2> QED BY <1>3, <1>7, <1>8, <1>9, <1>10, <1>12, <2>1, <2>2, <2>3, <2>5, <2>6, <2>7, <2>9, <2>13
<1> HIDE DEF C
<1>16. r.tool \in Symbols BY DEF Symbols
<1>17. Select("nodes", C) = Meant(r) BY <1>15, <1>16, SelectNodes
<1>18. Roles(binds) = Vars(r)
  BY <1>7, <1>8, <1>12, <1>13, <1>14 DEF Vars, flat, kept, long, scope
<1> QED BY <1>1, <1>14, <1>17, <1>18 DEF Selects, C, p

LEMMA FileSummarySelects ==
  ASSUME NEW r, IsList(r), r.tool = "file_summary"
  PROVE  Selects(r)
<1> DEFINE yes == TRUE
           name == {"file_symbols"}
           b == <<Bind("file", r.file)>>
           fixed == Fixed(yes, "symbol")
           C == fixed \union ToSet(b)
           p == PlanOf(r)
<1>1. p.table = "nodes" /\ p.fixed = fixed /\ p.binds = b
  <2>1. p = FileSummary(r) BY DEF PlanOf
  <2>2. p = Plan("nodes", name, fixed, b, "probe") BY <2>1 DEF FileSummary
  <2> HIDE DEF name, fixed, b, p
  <2> QED BY <2>2, PlanIs
<1>2. b = <<Bind("file", r.file)>> /\ fixed = Fixed(yes, "symbol") /\ yes OBVIOUS
<1> HIDE DEF b, fixed, yes, p
<1>3. /\ IsBinds(b) /\ Roles(b) = <<"file">>
      /\ \A n : AllNode(n, ToSet(b)) <=> NodeHolds(n, "file", r.file)
  BY <1>2, OneBind
<1>4. \A n : AllNode(n, fixed) <=> (yes => NodeHolds(n, "symbol", 0)) BY <1>2, FixedBind
<1>5. ASSUME NEW n \in NodeIds(idx) PROVE AllNode(n, C) <=> Wanted(r, n)
  <2>1. AllNode(n, C) <=> AllNode(n, fixed) /\ AllNode(n, ToSet(b)) BY AllUnion
  <2>2. NodeHolds(n, "symbol", 0) <=> IsSymbol(idx, n) BY NodeHoldsIs
  <2>3. NodeHolds(n, "file", r.file) <=> (IsSymbol(idx, n) /\ idx.nodes[n].file = r.file)
    BY NodeHoldsIs
  <2>4. /\ r.file # 0 /\ r.name = <<>> /\ r.kind = "" /\ r.span = 0 /\ ~r.primary /\ r.dir = <<>>
    BY DEF IsList, Symbols
  <2>5. Wanted(r, n) <=> IsSymbol(idx, n) /\ idx.nodes[n].file = r.file
    BY <2>4 DEF Wanted, InFile
  <2> QED BY <1>2, <1>3, <1>4, <2>1, <2>2, <2>3, <2>5
<1> HIDE DEF C
<1>6. r.tool \in Symbols BY DEF Symbols
<1>7. Select("nodes", C) = Meant(r) BY <1>5, <1>6, SelectNodes
<1>8. Roles(b) = Vars(r)
  BY <1>3 DEF Vars
<1> QED BY <1>1, <1>3, <1>7, <1>8 DEF Selects, C, p

LEMMA ClusterSelects ==
  ASSUME NEW r, IsList(r), r.tool = "dependency_cluster"
  PROVE  Selects(r)
<1> DEFINE role == IF r.holder # 0 THEN "holder" ELSE "file"
           value == IF r.holder # 0 THEN r.holder ELSE r.file
           name == {"dc_methods"}
           b == <<Bind(role, value)>>
           kind == Bind("kind", "method")
           C == {kind} \union ToSet(b)
           p == PlanOf(r)
<1>1. p.table = "nodes" /\ p.fixed = {kind} /\ p.binds = b
  <2>1. p = ClusterMethods(r) BY DEF PlanOf
  <2>2. b = <<IF r.holder # 0 THEN Bind("holder", r.holder) ELSE Bind("file", r.file)>>
    <3>1. CASE r.holder # 0
      <4>1. role = "holder" /\ value = r.holder BY <3>1
      <4> QED BY <3>1, <4>1
    <3>2. CASE r.holder = 0
      <4>1. role = "file" /\ value = r.file BY <3>2
      <4> QED BY <3>2, <4>1
    <3> QED BY <3>1, <3>2
  <2>3. p = Plan("nodes", name, {kind}, b, "all")
    <3> HIDE DEF b
    <3> QED BY <2>1, <2>2 DEF ClusterMethods
  <2> HIDE DEF name, kind, b, p
  <2> QED BY <2>3, PlanIs
<1>2. b = <<Bind(role, value)>> /\ kind.role = "kind" /\ kind.value = "method" BY BindIs
<1>3. \/ r.holder # 0 /\ role = "holder" /\ value = r.holder
      \/ r.holder = 0 /\ role = "file" /\ value = r.file
  OBVIOUS
<1> HIDE DEF b, kind, role, value, p
<1>4. /\ IsBinds(b) /\ Roles(b) = <<role>>
      /\ \A n : AllNode(n, ToSet(b)) <=> NodeHolds(n, role, value)
  BY <1>2, OneBind
<1>5. ASSUME NEW n \in NodeIds(idx) PROVE AllNode(n, C) <=> Wanted(r, n)
  <2> DEFINE K == {kind}
             held == \E e \in idx.edges : e.src = r.holder /\ e.dst = n /\ e.kind = "contains"
             pairs == {[src |-> e.src, dst |-> e.dst] : e \in
                         {x \in idx.edges : x.kind = "contains"}}
             pair  == [src |-> r.holder, dst |-> n]
  <2>1. AllNode(n, K) <=> NodeHolds(n, "kind", "method") BY <1>2 DEF AllNode
  <2>2. AllNode(n, C) <=> AllNode(n, K) /\ AllNode(n, ToSet(b)) BY AllUnion
  <2> HIDE DEF K
  <2>3. NodeHolds(n, "kind", "method") <=> idx.nodes[n].kind = "method" BY NodeHoldsIs
  <2>4. NodeHolds(n, "file", r.file) <=> (IsSymbol(idx, n) /\ idx.nodes[n].file = r.file)
    BY NodeHoldsIs
  <2>5. NodeHolds(n, "holder", r.holder) <=> held BY NodeHoldsIs
  <2>6. /\ (r.holder # 0 <=> r.file = 0)
        /\ r.name = <<>> /\ r.kind = "" /\ r.span = 0 /\ ~r.primary /\ r.dir = <<>>
    BY DEF IsList, Symbols
  <2>7. pair \in pairs <=> held
    <3>1. ASSUME pair \in pairs PROVE held
      <4>1. PICK e \in {x \in idx.edges : x.kind = "contains"} :
              pair = [src |-> e.src, dst |-> e.dst] BY <3>1
      <4>2. pair.src = e.src /\ pair.dst = e.dst BY <4>1
      <4>3. e.src = r.holder /\ e.dst = n BY <4>2
      <4> QED BY <4>3
    <3>2. ASSUME held PROVE pair \in pairs
      <4>1. PICK e \in idx.edges : e.src = r.holder /\ e.dst = n /\ e.kind = "contains" BY <3>2
      <4>2. pair = [src |-> e.src, dst |-> e.dst] BY <4>1
      <4> QED BY <4>1, <4>2
    <3> QED BY <3>1, <3>2
  <2>8. Wanted(r, n) <=>
          /\ r.file # 0 => IsSymbol(idx, n) /\ idx.nodes[n].file = r.file
          /\ idx.nodes[n].kind = "method"
          /\ r.holder # 0 => pair \in pairs
    BY <2>6 DEF Wanted, InFile
  <2> HIDE DEF held, pair, pairs
  <2>9. NodeHolds(n, role, value) <=>
          IF r.holder # 0 THEN held ELSE IsSymbol(idx, n) /\ idx.nodes[n].file = r.file
    BY <1>3, <2>4, <2>5
  <2> QED BY <1>4, <2>1, <2>2, <2>3, <2>6, <2>7, <2>8, <2>9
<1> HIDE DEF C
<1>6. r.tool \in Symbols BY DEF Symbols
<1>7. Select("nodes", C) = Meant(r) BY <1>5, <1>6, SelectNodes
<1>8. Roles(b) = Vars(r)
  BY <1>4 DEF Vars, role
<1> QED BY <1>1, <1>4, <1>7, <1>8 DEF Selects, C, p

LEMMA ListsSelect ==
  ASSUME NEW r, IsList(r), IsIndex(idx)
  PROVE  Selects(r)
BY FileSearchSelects, ListHttpSelects, DirListSelects, SymbolSearchSelects, SymbolListSelects,
   SymbolsInPathSelects, FileSummarySelects, ClusterSelects DEF IsList, Symbols

-----------------------------------------------------------------------------
(* Lists are whole and in order.                                           *)

Path == Seq(Nat)

(* Two paths are the same up to k, where one goes on or comes first.       *)
Part(a, b, k) ==
  /\ k \in Nat /\ k <= Len(a) /\ k < Len(b)
  /\ \A j \in 1 .. k : a[j] = b[j]
  /\ k = Len(a) \/ a[k + 1] < b[k + 1]

LEMMA PrefixIs ==
  ASSUME NEW a \in Path, NEW b \in Path
  PROVE  IsPrefix(a, b) <=> Len(a) <= Len(b) /\ \A j \in 1 .. Len(a) : a[j] = b[j]
<1> DEFINE n == Len(a)
           x == SubSeq(a, 1, n)
           y == SubSeq(b, 1, n)
<1>1. n \in Nat /\ Len(b) \in Nat BY DEF Path
<1>2. x = a /\ \A j \in 1 .. n : a[j] \in Nat BY ElementOfSeq DEF Path
<1>3. ASSUME n <= Len(b)
      PROVE  y \in Path /\ Len(y) = n /\ \A j \in 1 .. n : y[j] = b[j]
  <2>1. \A j \in 1 .. n : j \in 1 .. Len(b) BY <1>1, <1>3
  <2>2. \A j \in 1 .. n : b[j] \in Nat
    <3> HIDE DEF n
    <3> QED BY <2>1, ElementOfSeq DEF Path
  <2>3. 1 \in Int /\ n \in Int BY <1>1
  <2> HIDE DEF n
  <2>4. y \in Seq(Nat) BY <2>2, <2>3, SubSeqProperties
  <2>5. Len(y) = IF 1 <= n THEN n - 1 + 1 ELSE 0 BY <2>2, <2>3, SubSeqProperties
  <2>6. \A j \in 1 .. n - 1 + 1 : y[j] = b[1 + j - 1] BY <2>2, <2>3, SubSeqProperties
  <2> HIDE DEF y
  <2> QED BY <1>1, <2>4, <2>5, <2>6 DEF Path, n
<1>4. IsPrefix(a, b) <=> n <= Len(b) /\ a = y BY <1>2 DEF IsPrefix
<1> HIDE DEF y
<1>5. ASSUME n <= Len(b), \A j \in 1 .. n : a[j] = b[j] PROVE a = y
  <2>1. Len(a) = Len(y) /\ \A j \in 1 .. Len(a) : a[j] = y[j] BY <1>3, <1>5
  <2>2. a \in Seq(Nat) /\ y \in Seq(Nat) BY <1>3, <1>5 DEF Path
  <2> HIDE DEF n
  <2> QED BY <2>1, <2>2, SeqEqual
<1>6. n <= Len(b) /\ a = y => \A j \in 1 .. n : a[j] = b[j]
  BY <1>3
<1> QED BY <1>4, <1>5, <1>6

(* Paths are ordered by the first place where they part, an order that is  *)
(* strict and total.                                                       *)
LEMMA BeforeIs ==
  ASSUME NEW a \in Path, NEW b \in Path
  PROVE  Before(a, b) <=> \E k \in Nat : Part(a, b, k)
<1>1. Len(a) \in Nat /\ Len(b) \in Nat BY DEF Path
<1>2. ASSUME Before(a, b) PROVE \E k \in Nat : Part(a, b, k)
  <2>1. CASE IsStrictPrefix(a, b)
    <3>1. a # b /\ Len(a) <= Len(b) /\ \A j \in 1 .. Len(a) : a[j] = b[j]
      BY <2>1, PrefixIs DEF IsStrictPrefix
    <3>2. Len(a) # Len(b) BY <3>1, SeqEqual DEF Path
    <3>3. Part(a, b, Len(a)) BY <1>1, <3>1, <3>2 DEF Part
    <3> QED BY <1>1, <3>3
  <2>2. CASE ~IsStrictPrefix(a, b)
    <3>1. PICK i \in 1 .. Smaller(Len(a), Len(b)) :
            a[i] < b[i] /\ \A j \in 1 .. i - 1 : a[j] = b[j]
      BY <1>2, <2>2 DEF Before
    <3>2. i \in Nat \ {0} /\ i <= Len(a) /\ i <= Len(b) BY <1>1, <3>1 DEF Smaller
    <3>3. i - 1 \in Nat /\ i - 1 < Len(b) /\ i - 1 <= Len(a) /\ (i - 1) + 1 = i BY <1>1, <3>2
    <3>4. Part(a, b, i - 1) BY <3>1, <3>3 DEF Part
    <3> QED BY <3>3, <3>4
  <2> QED BY <2>1, <2>2
<1>3. ASSUME NEW k \in Nat, Part(a, b, k) PROVE Before(a, b)
  <2>1. CASE k = Len(a)
    <3>1. IsPrefix(a, b) BY <1>1, <1>3, <2>1, PrefixIs DEF Part
    <3>2. a # b BY <1>1, <1>3, <2>1 DEF Part
    <3> QED BY <3>1, <3>2 DEF Before, IsStrictPrefix
  <2>2. CASE k # Len(a)
    <3>1. /\ k + 1 \in 1 .. Smaller(Len(a), Len(b)) /\ (k + 1) - 1 = k
      BY <1>1, <1>3, <2>2 DEF Part, Smaller
    <3>2. a[k + 1] < b[k + 1] /\ \A j \in 1 .. k : a[j] = b[j] BY <1>3, <2>2 DEF Part
    <3> QED BY <3>1, <3>2 DEF Before
  <2> QED BY <2>1, <2>2
<1> QED BY <1>2, <1>3

LEMMA BeforeStrict ==
  ASSUME NEW S \in SUBSET Path
  PROVE  /\ \A a \in S : ~Before(a, a)
         /\ \A a, b \in S : a # b => Before(a, b) \/ Before(b, a)
         /\ \A a, b, c \in S : Before(a, b) /\ Before(b, c) => Before(a, c)
<1>1. \A a \in Path : Len(a) \in Nat /\ \A j \in 1 .. Len(a) : a[j] \in Nat
  BY ElementOfSeq, LenProperties DEF Path
<1>2. ASSUME NEW a \in S PROVE ~Before(a, a)
  <2> SUFFICES ASSUME NEW k \in Nat, Part(a, a, k) PROVE FALSE BY BeforeIs
  <2>1. k + 1 \in 1 .. Len(a) /\ k # Len(a) BY <1>1 DEF Part
  <2> QED BY <1>1, <2>1 DEF Part
<1>3. ASSUME NEW a \in S, NEW b \in S, a # b PROVE Before(a, b) \/ Before(b, a)
  <2> DEFINE n == Smaller(Len(a), Len(b))
             D == {j \in 1 .. n : a[j] # b[j]}
  <2>1. n \in Nat /\ n <= Len(a) /\ n <= Len(b) /\ (n = Len(a) \/ n = Len(b)) BY <1>1 DEF Smaller
  <2> HIDE DEF n
  <2>2. CASE D = {}
    <3>1. \A j \in 1 .. n : a[j] = b[j] BY <2>2
    <3>2. Len(a) # Len(b) BY <1>3, <2>1, <3>1, SeqEqual DEF Path
    <3>3. Part(a, b, n) \/ Part(b, a, n) BY <1>1, <2>1, <3>1, <3>2 DEF Part
    <3> QED BY <2>1, <3>3, BeforeIs
  <2>3. CASE D # {}
    <3>1. D \subseteq Nat BY <2>1
    <3>2. PICK m \in D : \A j \in D : m <= j
      <4> HIDE DEF D
      <4> QED BY <2>3, <3>1, Least
    <3>3. m \in 1 .. n /\ a[m] # b[m] /\ \A j \in 1 .. m - 1 : a[j] = b[j]
      <4>1. m \in 1 .. n /\ a[m] # b[m] BY <3>2
      <4>2. \A j \in 1 .. m - 1 : j \in 1 .. n /\ ~(m <= j) BY <2>1, <4>1
      <4>3. \A j \in 1 .. m - 1 : j \notin D BY <3>2, <4>2
      <4> QED BY <4>1, <4>2, <4>3
    <3>4. m - 1 \in Nat /\ (m - 1) + 1 = m /\ m <= Len(a) /\ m <= Len(b) BY <2>1, <3>3
    <3>5. a[m] \in Nat /\ b[m] \in Nat BY <1>1, <2>1, <3>3, <3>4
    <3>6. a[m] < b[m] \/ b[m] < a[m] BY <3>3, <3>5
    <3> DEFINE k == m - 1
    <3>7. /\ k <= Len(a) /\ k < Len(a) /\ k <= Len(b) /\ k < Len(b)
      BY <1>1, <3>4
    <3>8. Part(a, b, k) \/ Part(b, a, k)
      BY <3>3, <3>4, <3>6, <3>7 DEF Part
    <3> QED BY <3>4, <3>8, BeforeIs
  <2> QED BY <2>2, <2>3
<1>4. ASSUME NEW a \in S, NEW b \in S, NEW c \in S, Before(a, b), Before(b, c) PROVE Before(a, c)
  <2>1. PICK k \in Nat : Part(a, b, k) BY <1>4, BeforeIs
  <2>2. PICK m \in Nat : Part(b, c, m) BY <1>4, BeforeIs
  <2>3. Len(a) \in Nat /\ Len(b) \in Nat /\ Len(c) \in Nat BY <1>1
  <2>4. CASE k < m
    <3>1. k + 1 \in 1 .. m /\ b[k + 1] = c[k + 1] BY <2>2, <2>4 DEF Part
    <3>2. Part(a, c, k) BY <2>1, <2>2, <2>3, <2>4, <3>1 DEF Part
    <3> QED BY <3>2, BeforeIs
  <2>5. CASE k > m
    <3>1. m + 1 \in 1 .. k /\ a[m + 1] = b[m + 1] BY <2>1, <2>5
      DEF Part
    <3>2. m # Len(b) /\ m <= Len(a) BY <2>1, <2>3, <2>5 DEF Part
    <3>3. Part(a, c, m) BY <2>1, <2>2, <2>3, <2>5, <3>1, <3>2 DEF Part
    <3> QED BY <3>3, BeforeIs
  <2>6. CASE k = m
    <3>1. k # Len(b) /\ b[k + 1] < c[k + 1] BY <2>1, <2>2, <2>3, <2>6 DEF Part
    <3>2. k + 1 \in 1 .. Len(b) /\ k + 1 \in 1 .. Len(c) BY <2>1, <2>2, <2>3, <2>6, <3>1 DEF Part
    <3>3. k # Len(a) => a[k + 1] < c[k + 1]
      <4> SUFFICES ASSUME k # Len(a) PROVE a[k + 1] < c[k + 1] OBVIOUS
      <4>1. k + 1 \in 1 .. Len(a) /\ a[k + 1] < b[k + 1] BY <2>1, <2>3 DEF Part
      <4>2. a[k + 1] \in Nat /\ b[k + 1] \in Nat /\ c[k + 1] \in Nat BY <1>1, <3>2, <4>1
      <4> QED BY <3>1, <4>1, <4>2
    <3>4. Part(a, c, k) BY <2>1, <2>2, <2>6, <3>3 DEF Part
    <3> QED BY <3>4, BeforeIs
  <2> QED BY <2>4, <2>5, <2>6
<1> QED BY <1>2, <1>3, <1>4
(* The rows that a request means, and which of two comes first.            *)
RowsOf(r) ==
  CASE r.tool \in Symbols          -> {n \in NodeIds(idx) : Wanted(r, n)}
    [] r.tool = "file_search"     -> {f \in Files : WantedFile(r, f)}
    [] r.tool = "list_http_calls" -> {x \in HttpCalls : WantedFile(r, x.file)}
    [] r.tool = "dir_list"        -> Entries(r.dir, r.primary)

ComesFirst(r, a, b) ==
  CASE r.tool \in Symbols          -> idx.nodes[a].place < idx.nodes[b].place
    [] r.tool = "file_search"     -> a < b
    [] r.tool = "list_http_calls" -> a.site < b.site
    [] r.tool = "dir_list"        -> Before(a, b)

(* The entries of a directory are finitely many paths.                     *)
LEMMA EntriesAre ==
  ASSUME IsIndex(idx), NEW dir \in Path, NEW primary
  PROVE  IsFiniteSet(Entries(dir, primary)) /\ Entries(dir, primary) \subseteq Path
<1> DEFINE S == Entries(dir, primary)
           A == {f \in Files : Under(f, dir) /\ (primary => IsPrimary(f)) /\ Directly(f, dir)}
           B == {f \in Files : Under(f, dir) /\ (primary => IsPrimary(f)) /\ ~Directly(f, dir)}
           head(f) == SubSeq(PathOf[f], 1, Len(dir) + 1)
           a == [f \in A |-> PathOf[f]]
           b == [f \in B |-> head(f)]
<1>1. IsFiniteSet(Files)
  <2>1. Files \in SUBSET DOMAIN idx.rows /\ IsFiniteSet(DOMAIN idx.rows) BY DEF Files, IsIndex
  <2> QED BY <2>1, FS_Subset
<1>2. S = {PathOf[f] : f \in A} \union {head(f) : f \in B} BY DEF Entries
<1>3. A \in SUBSET Files /\ B \in SUBSET Files OBVIOUS
<1>4. \A f \in Files : PathOf[f] \in Path BY DEF IsIndex, Files, PathOf, Path
<1>5. ASSUME NEW f \in B PROVE head(f) \in Path
  <2> DEFINE p == PathOf[f]
             n == Len(dir)
  <2>1. p \in Seq(Nat) /\ Len(p) \in Nat /\ n \in Nat BY <1>3, <1>4, <1>5, LenProperties DEF Path
  <2>2. n + 1 <= Len(p)
    <3>1. IsPrefix(dir, Front(p)) BY <1>5 DEF Under
    <3>2. Len(dir) <= Len(Front(p)) BY <3>1 DEF IsPrefix
    <3>3. p # <<>> /\ Len(p) # 0
      <4>1. f \in DOMAIN idx.rows /\ p = idx.paths[f] BY <1>3, <1>5 DEF Files, PathOf
      <4> QED BY <2>1, <4>1, EmptySeq DEF IsIndex
    <3>4. Len(Front(p)) = Len(p) - 1
      <4> HIDE DEF p
      <4> DEFINE m == Len(p) - 1
                 q == SubSeq(p, 1, m)
      <4>1. 1 \in Int /\ m \in Nat /\ \A i \in 1 .. m : p[i] \in Nat
        BY <2>1, <3>3, ElementOfSeq
      <4> HIDE DEF m
      <4>2. Len(q) = IF 1 <= m THEN m - 1 + 1 ELSE 0 BY <4>1, SubSeqProperties
      <4> HIDE DEF q
      <4>3. Len(q) = m BY <4>1, <4>2
      <4> QED BY <4>3 DEF Front, q, m
    <3> HIDE DEF p, n
    <3> QED BY <2>1, <3>2, <3>4 DEF n
  <2> HIDE DEF p, n
  <2>3. 1 \in Int /\ n + 1 \in Int /\ \A i \in 1 .. n + 1 : p[i] \in Nat
    BY <2>1, <2>2, ElementOfSeq
  <2>4. SubSeq(p, 1, n + 1) \in Seq(Nat) BY <2>3, SubSeqProperties
  <2> QED BY <2>4 DEF p, n, Path
<1> HIDE DEF S, A, B, head
<1>6. IsFiniteSet(A) /\ IsFiniteSet(B) BY <1>1, <1>3, FS_Subset
<1>7. /\ DOMAIN a = A /\ {a[f] : f \in A} = {PathOf[f] : f \in A}
      /\ DOMAIN b = B /\ {b[f] : f \in B} = {head(f) : f \in B}
  OBVIOUS
<1> HIDE DEF a, b
<1>8. IsFiniteSet({a[f] : f \in DOMAIN a}) /\ IsFiniteSet({b[f] : f \in DOMAIN b})
  BY <1>6, <1>7, FiniteImage
<1>9. IsFiniteSet({PathOf[f] : f \in A}) /\ IsFiniteSet({head(f) : f \in B}) BY <1>7, <1>8
<1>10. IsFiniteSet(S) BY <1>2, <1>9, FS_Union
<1>11. S \subseteq Path BY <1>2, <1>3, <1>4, <1>5
<1> QED BY <1>10, <1>11 DEF S

LEMMA RowsOfAre ==
  ASSUME NEW r, IsList(r), IsIndex(idx)
  PROVE  IsFiniteSet(RowsOf(r))
<1>1. CASE r.tool \in Symbols
  <2>1. RowsOf(r) \in SUBSET DOMAIN idx.nodes /\ IsFiniteSet(DOMAIN idx.nodes)
    BY <1>1 DEF RowsOf, NodeIds, IsIndex, Symbols
  <2> QED BY <2>1, FS_Subset
<1>2. CASE r.tool = "file_search"
  <2>1. RowsOf(r) \in SUBSET DOMAIN idx.rows /\ IsFiniteSet(DOMAIN idx.rows)
    BY <1>2 DEF RowsOf, Files, IsIndex, Symbols
  <2> QED BY <2>1, FS_Subset
<1>3. CASE r.tool = "list_http_calls"
  <2>1. RowsOf(r) \in SUBSET idx.refs /\ IsFiniteSet(idx.refs)
    BY <1>3 DEF RowsOf, HttpCalls, IsIndex, Symbols
  <2> QED BY <2>1, FS_Subset
<1>4. CASE r.tool = "dir_list"
  <2>1. RowsOf(r) = Entries(r.dir, r.primary) BY <1>4 DEF RowsOf, Symbols
  <2>2. r.dir \in Path BY DEF IsList, Path
  <2> QED BY <2>1, <2>2, EntriesAre
<1> QED BY <1>1, <1>2, <1>3, <1>4 DEF IsList

(* What a request means has each of its rows once, and in order.           *)
LEMMA MeantIsWhole ==
  ASSUME NEW r, IsList(r), IsIndex(idx)
  PROVE  /\ IsSeq(Meant(r)) /\ ToSet(Meant(r)) = RowsOf(r)
         /\ \A i, j \in 1 .. Len(Meant(r)) : i < j => ComesFirst(r, Meant(r)[i], Meant(r)[j])
<1> DEFINE rows == Meant(r)
           S    == RowsOf(r)
<1>1. r.tool \in Symbols \/ r.tool \in {"file_search", "list_http_calls", "dir_list"}
  BY DEF IsList
<1>2. IsFiniteSet(S) BY RowsOfAre
<1> HIDE DEF rows
<1>3. CASE r.tool \in Symbols
  <2> DEFINE T == {n \in NodeIds(idx) : Wanted(r, n)}
             before(x, y) == idx.nodes[x].place < idx.nodes[y].place
             O == {p \in T \X T : before(p[1], p[2])}
             c(i) == CHOOSE n \in T : Cardinality({x \in T : before(x, n)}) = i - 1
  <2>1. rows = [i \in 1 .. Cardinality(T) |-> c(i)]
    BY <1>3 DEF rows, Meant, InOrder, Ordered, Symbols
  <2>2. T = RowsOf(r) BY <1>3 DEF RowsOf, Symbols
  <2> HIDE DEF T
  <2>3. \A x, y \in T : <<x, y>> \in O <=> before(x, y)
    <3> HIDE DEF before
    <3> QED OBVIOUS
  <2>4. StrictOrder(O, T)
    <3> HIDE DEF O
    <3>1. /\ \A x \in T : ~before(x, x)
          /\ \A x, y \in T : x # y => before(x, y) \/ before(y, x)
          /\ \A x, y, z \in T : before(x, y) /\ before(y, z) => before(x, z)
      <4>1. /\ \A x \in T : idx.nodes[x].place \in Int
            /\ \A x, y \in T : idx.nodes[x].place = idx.nodes[y].place => x = y
        BY DEF T, IsIndex, NodeIds
      <4> QED BY <4>1
    <3> HIDE DEF before
    <3> QED BY <2>3, <3>1 DEF StrictOrder
  <2>5. Placed(rows, T, O)
    <3>1. \A n \in T : Below(O, T, n) = {x \in T : before(x, n)}
      <4> HIDE DEF O, before
      <4> QED BY <2>3 DEF Below
    <3> HIDE DEF O, before
    <3>2. ASSUME NEW i \in 1 .. Cardinality(T),
                 \E n \in T : Cardinality(Below(O, T, n)) = i - 1
          PROVE  c(i) \in T /\ Cardinality(Below(O, T, c(i))) = i - 1
      <4>1. \E n \in T : Cardinality({x \in T : before(x, n)}) = i - 1 BY <3>1, <3>2
      <4>2. c(i) \in T /\ Cardinality({x \in T : before(x, c(i))}) = i - 1 BY <4>1
      <4> HIDE DEF c
      <4> QED BY <3>1, <4>2
    <3> HIDE DEF c
    <3> QED BY <2>1, <3>2 DEF Placed
  <2> HIDE DEF O
  <2>6. /\ rows \in Seq(T) /\ Len(rows) = Cardinality(T) /\ ToSet(rows) = T
        /\ \A i, j \in 1 .. Cardinality(T) : i < j => <<rows[i], rows[j]>> \in O
    BY <1>2, <2>2, <2>4, <2>5, Sorted
  <2>7. \A i, j \in 1 .. Len(rows) : i < j => before(rows[i], rows[j])
    <3> HIDE DEF before
    <3> QED BY <2>3, <2>6, ElementOfSeq
  <2>8. \A x, y : before(x, y) <=> ComesFirst(r, x, y) BY <1>3 DEF ComesFirst, Symbols
  <2> HIDE DEF before
  <2> QED BY <2>6, <2>7, <2>8, <2>2, SeqIsSeq DEF rows
<1>4. CASE r.tool = "file_search"
  <2> DEFINE before(x, y) == x < y
             O == {p \in S \X S : before(p[1], p[2])}
             c(i) == CHOOSE n \in S : Cardinality({x \in S : before(x, n)}) = i - 1
  <2>1. rows = [i \in 1 .. Cardinality(S) |-> c(i)]
    BY <1>4 DEF rows, Meant, InOrder, Ordered, RowsOf, Symbols
  <2> HIDE DEF S
  <2>2. \A x, y \in S : <<x, y>> \in O <=> before(x, y)
    <3> HIDE DEF before
    <3> QED OBVIOUS
  <2>3. StrictOrder(O, S)
    <3> HIDE DEF O
    <3>1. /\ \A x \in S : ~before(x, x)
          /\ \A x, y \in S : x # y => before(x, y) \/ before(y, x)
          /\ \A x, y, z \in S : before(x, y) /\ before(y, z) => before(x, z)
      <4>1. \A x \in S : x \in Nat BY <1>4 DEF S, RowsOf, IsIndex, Files, Symbols
      <4> QED BY <4>1
    <3> HIDE DEF before
    <3> QED BY <2>2, <3>1 DEF StrictOrder
  <2>4. Placed(rows, S, O)
    <3>1. \A n \in S : Below(O, S, n) = {x \in S : before(x, n)}
      <4> HIDE DEF O, before
      <4> QED BY <2>2 DEF Below
    <3> HIDE DEF O, before
    <3>2. ASSUME NEW i \in 1 .. Cardinality(S),
                 \E n \in S : Cardinality(Below(O, S, n)) = i - 1
          PROVE  c(i) \in S /\ Cardinality(Below(O, S, c(i))) = i - 1
      <4>1. \E n \in S : Cardinality({x \in S : before(x, n)}) = i - 1 BY <3>1, <3>2
      <4>2. c(i) \in S /\ Cardinality({x \in S : before(x, c(i))}) = i - 1 BY <4>1
      <4> HIDE DEF c
      <4> QED BY <3>1, <4>2
    <3> HIDE DEF c
    <3> QED BY <2>1, <3>2 DEF Placed
  <2> HIDE DEF O
  <2>5. /\ rows \in Seq(S) /\ Len(rows) = Cardinality(S) /\ ToSet(rows) = S
        /\ \A i, j \in 1 .. Cardinality(S) : i < j => <<rows[i], rows[j]>> \in O
    BY <1>2, <2>3, <2>4, Sorted
  <2>6. \A i, j \in 1 .. Len(rows) : i < j => before(rows[i], rows[j])
    <3> HIDE DEF before
    <3> QED BY <2>2, <2>5, ElementOfSeq
  <2>7. \A x, y : before(x, y) <=> ComesFirst(r, x, y) BY <1>4 DEF ComesFirst, Symbols
  <2> HIDE DEF before
  <2> QED BY <2>5, <2>6, <2>7, SeqIsSeq DEF rows, S
<1>5. CASE r.tool = "list_http_calls"
  <2> DEFINE before(x, y) == x.site < y.site
             O == {p \in S \X S : before(p[1], p[2])}
             c(i) == CHOOSE n \in S : Cardinality({x \in S : before(x, n)}) = i - 1
  <2>1. rows = [i \in 1 .. Cardinality(S) |-> c(i)]
    BY <1>5 DEF rows, Meant, InOrder, Ordered, RowsOf, Symbols
  <2> HIDE DEF S
  <2>2. \A x, y \in S : <<x, y>> \in O <=> before(x, y)
    <3> HIDE DEF before
    <3> QED OBVIOUS
  <2>3. StrictOrder(O, S)
    <3> HIDE DEF O
    <3>1. /\ \A x \in S : ~before(x, x)
          /\ \A x, y \in S : x # y => before(x, y) \/ before(y, x)
          /\ \A x, y, z \in S : before(x, y) /\ before(y, z) => before(x, z)
      <4>1. /\ \A x \in S : x.site \in Nat
            /\ \A x, y \in S : x.site = y.site => x = y
        BY <1>5 DEF S, RowsOf, IsIndex, HttpCalls, Symbols
      <4> QED BY <4>1
    <3> HIDE DEF before
    <3> QED BY <2>2, <3>1 DEF StrictOrder
  <2>4. Placed(rows, S, O)
    <3>1. \A n \in S : Below(O, S, n) = {x \in S : before(x, n)}
      <4> HIDE DEF O, before
      <4> QED BY <2>2 DEF Below
    <3> HIDE DEF O, before
    <3>2. ASSUME NEW i \in 1 .. Cardinality(S),
                 \E n \in S : Cardinality(Below(O, S, n)) = i - 1
          PROVE  c(i) \in S /\ Cardinality(Below(O, S, c(i))) = i - 1
      <4>1. \E n \in S : Cardinality({x \in S : before(x, n)}) = i - 1 BY <3>1, <3>2
      <4>2. c(i) \in S /\ Cardinality({x \in S : before(x, c(i))}) = i - 1 BY <4>1
      <4> HIDE DEF c
      <4> QED BY <3>1, <4>2
    <3> HIDE DEF c
    <3> QED BY <2>1, <3>2 DEF Placed
  <2> HIDE DEF O
  <2>5. /\ rows \in Seq(S) /\ Len(rows) = Cardinality(S) /\ ToSet(rows) = S
        /\ \A i, j \in 1 .. Cardinality(S) : i < j => <<rows[i], rows[j]>> \in O
    BY <1>2, <2>3, <2>4, Sorted
  <2>6. \A i, j \in 1 .. Len(rows) : i < j => before(rows[i], rows[j])
    <3> HIDE DEF before
    <3> QED BY <2>2, <2>5, ElementOfSeq
  <2>7. \A x, y : before(x, y) <=> ComesFirst(r, x, y) BY <1>5 DEF ComesFirst, Symbols
  <2> HIDE DEF before
  <2> QED BY <2>5, <2>6, <2>7, SeqIsSeq DEF rows, S
<1>6. CASE r.tool = "dir_list"
  <2> DEFINE before(x, y) == Before(x, y)
             O == {p \in S \X S : before(p[1], p[2])}
             c(i) == CHOOSE n \in S : Cardinality({x \in S : before(x, n)}) = i - 1
  <2>1. rows = [i \in 1 .. Cardinality(S) |-> c(i)]
    BY <1>6 DEF rows, Meant, Ordered, RowsOf, Symbols
  <2> HIDE DEF S
  <2>2. \A x, y \in S : <<x, y>> \in O <=> before(x, y)
    <3> HIDE DEF before
    <3> QED OBVIOUS
  <2>3. StrictOrder(O, S)
    <3> HIDE DEF O
    <3>1. /\ \A x \in S : ~before(x, x)
          /\ \A x, y \in S : x # y => before(x, y) \/ before(y, x)
          /\ \A x, y, z \in S : before(x, y) /\ before(y, z) => before(x, z)
      <4>1. S = Entries(r.dir, r.primary) /\ r.dir \in Path
        BY <1>6 DEF S, RowsOf, IsList, Symbols, Path
      <4>2. S \in SUBSET Path BY <4>1, EntriesAre
      <4> QED BY <4>2, BeforeStrict
    <3> HIDE DEF before
    <3> QED BY <2>2, <3>1 DEF StrictOrder
  <2>4. Placed(rows, S, O)
    <3>1. \A n \in S : Below(O, S, n) = {x \in S : before(x, n)}
      <4> HIDE DEF O, before
      <4> QED BY <2>2 DEF Below
    <3> HIDE DEF O, before
    <3>2. ASSUME NEW i \in 1 .. Cardinality(S),
                 \E n \in S : Cardinality(Below(O, S, n)) = i - 1
          PROVE  c(i) \in S /\ Cardinality(Below(O, S, c(i))) = i - 1
      <4>1. \E n \in S : Cardinality({x \in S : before(x, n)}) = i - 1 BY <3>1, <3>2
      <4>2. c(i) \in S /\ Cardinality({x \in S : before(x, c(i))}) = i - 1 BY <4>1
      <4> HIDE DEF c
      <4> QED BY <3>1, <4>2
    <3> HIDE DEF c
    <3> QED BY <2>1, <3>2 DEF Placed
  <2> HIDE DEF O
  <2>5. /\ rows \in Seq(S) /\ Len(rows) = Cardinality(S) /\ ToSet(rows) = S
        /\ \A i, j \in 1 .. Cardinality(S) : i < j => <<rows[i], rows[j]>> \in O
    BY <1>2, <2>3, <2>4, Sorted
  <2>6. \A i, j \in 1 .. Len(rows) : i < j => before(rows[i], rows[j])
    <3> HIDE DEF before
    <3> QED BY <2>2, <2>5, ElementOfSeq
  <2>7. \A x, y : before(x, y) <=> ComesFirst(r, x, y) BY <1>6 DEF ComesFirst, Symbols
  <2> HIDE DEF before
  <2> QED BY <2>5, <2>6, <2>7, SeqIsSeq DEF rows, S
<1> QED BY <1>1, <1>3, <1>4, <1>5, <1>6

LEMMA MeantIsSeq ==
  ASSUME NEW r, IsList(r), IsIndex(idx)
  PROVE  IsSeq(Meant(r))
BY MeantIsWhole

(* How a tool counts.                                                      *)
LEMMA PageKind ==
  ASSUME NEW r, IsList(r)
  PROVE  PlanOf(r).page = IF r.tool = "list_http_calls" THEN "count"
                          ELSE IF r.tool = "dependency_cluster" THEN "all" ELSE "probe"
<1>1. CASE r.tool = "file_search" BY <1>1 DEF PlanOf, FileSearch, Plan
<1>2. CASE r.tool = "dir_list" BY <1>2 DEF PlanOf, DirList, Plan
<1>3. CASE r.tool = "list_http_calls" BY <1>3 DEF PlanOf, ListHttpCalls, Plan
<1>4. CASE r.tool = "symbol_search" BY <1>4 DEF PlanOf, SymbolSearch, Plan
<1>5. CASE r.tool = "symbol_list" BY <1>5 DEF PlanOf, SymbolList, Plan
<1>6. CASE r.tool = "symbols_in_path" BY <1>6 DEF PlanOf, SymbolsInPath, Plan
<1>7. CASE r.tool = "file_summary" BY <1>7 DEF PlanOf, FileSummary, Plan
<1>8. CASE r.tool = "dependency_cluster" BY <1>8 DEF PlanOf, ClusterMethods, Plan
<1> QED BY <1>1, <1>2, <1>3, <1>4, <1>5, <1>6, <1>7, <1>8 DEF IsList, Symbols

(* An answer that was made with the statement of its own request: the rows *)
(* that follow the offset, and whether there are more.                     *)
LEMMA RespondIs ==
  ASSUME NEW r, IsList(r), IsIndex(idx),
         NEW statements, Prepared(statements, PlanOf(r)) = Statement(PlanOf(r)),
         NEW offset, offset \in 0 .. Len(Meant(r)), PlanOf(r).page = "all" => offset = 0,
         NEW a, a = Respond(r, statements, offset)
  PROVE  \E k \in 0 .. Len(Meant(r)) - offset :
           /\ a.rows = SubSeq(Meant(r), offset + 1, offset + k)
           /\ a.more <=> offset + k < Len(Meant(r))
           /\ a.more => k # 0 /\ PlanOf(r).page # "all"
<1> DEFINE all   == Meant(r)
           n     == Len(all)
           plan  == PlanOf(r)
           stmt  == Prepared(statements, plan)
           ask   == IF plan.page = "probe" THEN r.limit + 1 ELSE r.limit
           read  == Execute(stmt, plan, ask, offset)
           spend == IF r.tool \in HasBudget THEN r.budget ELSE 0
           rows  == IF plan.page = "all" THEN read ELSE Page(read, r.limit, spend)
           total == Len(Select(plan.table, plan.fixed \union ToSet(plan.binds)))
           more  == CASE plan.page = "probe" -> Len(rows) < Len(read)
                      [] plan.page = "count" -> offset + r.limit < total
                      [] OTHER -> FALSE
<1>1. a.rows = rows /\ a.more = more BY DEF Respond
<1>2. IsSeq(all) /\ n \in Nat /\ offset \in 0 .. n /\ (plan.page = "all" => offset = 0)
  BY MeantIsSeq, SeqIsSeq DEF IsSeq
<1>3. stmt = Statement(plan) OBVIOUS
<1>4. IsBinds(plan.binds) /\ Select(plan.table, plan.fixed \union ToSet(plan.binds)) = all
  BY ListsSelect DEF Selects
<1>5. r.limit \in Nat \ {0} /\ ask \in Nat /\ ask # 0
  <2>1. r.limit \in Nat \ {0} BY DEF IsList
  <2>2. ask = r.limit + 1 \/ ask = r.limit OBVIOUS
  <2> HIDE DEF ask
  <2> QED BY <2>1, <2>2
<1>6. plan.page \in {"probe", "count", "all"} /\ (plan.page = "count" => spend = 0)
  BY PageKind DEF HasBudget
<1>7. total = n BY <1>4
<1>8. offset \in Nat BY <1>2
<1> HIDE DEF stmt, plan, all, n, total, spend
<1>9. read = IF plan.page = "all" THEN all
             ELSE SubSeq(all, offset + 1, Smaller(Len(all), offset + ask))
  <2> HIDE DEF ask
  <2> DEFINE sel == Select(plan.table, plan.fixed \union ToSet(plan.binds))
  <2>1. sel = all BY <1>4
  <2> HIDE DEF sel
  <2>2. Execute(Statement(plan), plan, ask, offset) =
          IF plan.page = "all" THEN sel
          ELSE SubSeq(sel, offset + 1, Smaller(Len(sel), offset + ask))
    BY <1>4, <1>5, <1>8, ExecuteIs DEF sel
  <2> QED BY <1>3, <2>1, <2>2
<1> HIDE DEF read
<1>10. \E k \in 0 .. n - offset :
         /\ rows = SubSeq(all, offset + 1, offset + k)
         /\ more <=> offset + k < n
         /\ more => k # 0 /\ plan.page # "all"
  <2>1. CASE plan.page = "all"
    <3>1. rows = all /\ offset = 0 /\ more = FALSE BY <1>2, <1>9, <2>1
    <3>2. SubSeq(all, 0 + 1, 0 + n) = all
      <4>1. all \in Seq(ToSet(all)) BY <1>2 DEF IsSeq
      <4>2. SubSeq(all, 1, Len(all)) = all BY <4>1
      <4> QED BY <1>2, <4>2 DEF n
    <3>3. n \in 0 .. n - offset BY <1>2, <3>1
    <3> HIDE DEF rows, more
    <3> QED BY <1>2, <3>1, <3>2, <3>3
  <2>2. CASE plan.page # "all"
    <3> DEFINE end == Smaller(n, offset + ask)
    <3>1. end = (IF n < offset + ask THEN n ELSE offset + ask) BY DEF Smaller
    <3>2. end \in offset .. n BY <1>2, <1>5, <3>1
    <3>3. read = SubSeq(all, offset + 1, end) BY <1>9, <2>2 DEF n
    <3> HIDE DEF end
    <3>4. IsSeq(read) /\ Len(read) = end - offset
      <4>1. 0 \in 0 .. end - offset BY <1>2, <3>2
      <4>2. offset \in 0 .. Len(all) /\ end \in offset .. Len(all) BY <1>2, <3>2 DEF n
      <4>3. IsSeq(read) BY <1>2, <3>3, <4>1, <4>2, PartOf
      <4>4. Len(read) = end - offset BY <1>2, <3>3, <4>1, <4>2, PartOf
      <4> QED BY <4>3, <4>4
    <3>5. PICK k \in 0 .. Len(read) :
            /\ Page(read, r.limit, spend) = SubSeq(read, 1, k)
            /\ k <= r.limit /\ (Len(read) # 0 => k # 0)
            /\ spend = 0 => k = r.limit \/ k = Len(read)
      BY <1>5, <3>4, PageIs
    <3>6. rows = SubSeq(read, 1, k) BY <2>2, <3>5
    <3>7. k \in 0 .. end - offset BY <3>4, <3>5
    <3>8. rows = SubSeq(all, offset + 1, offset + k) /\ Len(rows) = k
      <4>1. SubSeq(read, 1, k) = SubSeq(all, offset + 1, offset + k)
              /\ Len(SubSeq(read, 1, k)) = k
        BY <1>2, <3>2, <3>3, <3>7, PartOf DEF n
      <4> QED BY <3>6, <4>1
    <3>9. more <=> offset + k < n
      <4>1. CASE plan.page = "probe"
        <5>1. more <=> k < end - offset BY <3>4, <3>8, <4>1
        <5>2. ask = r.limit + 1 BY <4>1
        <5> HIDE DEF more, rows
        <5> QED BY <1>2, <1>5, <3>1, <3>2, <3>5, <3>7, <5>1, <5>2
      <4>2. CASE plan.page = "count"
        <5>1. more <=> offset + r.limit < n BY <1>7, <4>2
        <5>2. ask = r.limit /\ (k = r.limit \/ k = end - offset) BY <1>6, <3>4, <3>5, <4>2
        <5> HIDE DEF more, rows
        <5> QED BY <1>2, <1>5, <3>1, <3>2, <3>5, <3>7, <5>1, <5>2
      <4> QED BY <1>6, <2>2, <4>1, <4>2
    <3>10. more => k # 0
      <4> HIDE DEF more, rows
      <4> SUFFICES ASSUME more, k = 0 PROVE FALSE OBVIOUS
      <4>1. offset < n BY <1>2, <3>9
      <4>2. Len(read) = 0 BY <3>5
      <4>3. end = offset BY <1>2, <3>2, <3>4, <4>2
      <4> HIDE DEF ask
      <4> QED BY <1>2, <1>5, <3>1, <4>1, <4>3
    <3>11. k \in 0 .. n - offset BY <1>2, <3>2, <3>7
    <3> HIDE DEF more, rows
    <3> QED BY <2>2, <3>8, <3>9, <3>10, <3>11
  <2> QED BY <2>1, <2>2
<1> HIDE DEF rows, more
<1> QED BY <1>1, <1>10 DEF all, n, plan

-----------------------------------------------------------------------------
(* Statements and their names.                                             *)

Marks == {"file_search", "dir_list", "symbol_search", "symbol_list", "symbols_in_path",
          "file_symbols", "list_http_calls", "dc_methods"}

(* The part of a name that only one tool puts there.                       *)
MarkOf(r) == IF r.tool = "file_summary" THEN "file_symbols"
             ELSE IF r.tool = "dependency_cluster" THEN "dc_methods" ELSE r.tool

LEMMA NameMarks ==
  ASSUME NEW r, IsList(r)
  PROVE  \A m \in Marks : m \in PlanOf(r).name <=> m = MarkOf(r)
<1> USE DEF Marks, MarkOf, Plan, PlanOf, With
<1>1. CASE r.tool = "file_search" BY <1>1 DEF FileSearch
<1>2. CASE r.tool = "dir_list" BY <1>2 DEF DirList
<1>3. CASE r.tool = "list_http_calls" BY <1>3 DEF ListHttpCalls
<1>4. CASE r.tool = "symbol_search" BY <1>4 DEF SymbolSearch
<1>5. CASE r.tool = "symbol_list" BY <1>5 DEF SymbolList
<1>6. CASE r.tool = "symbols_in_path" BY <1>6 DEF SymbolsInPath, Scope
<1>7. CASE r.tool = "file_summary" BY <1>7 DEF FileSummary
<1>8. CASE r.tool = "dependency_cluster" BY <1>8 DEF ClusterMethods
<1> QED BY <1>1, <1>2, <1>3, <1>4, <1>5, <1>6, <1>7, <1>8 DEF IsList, Symbols

(* So requests whose statements have one name are for one tool.            *)
LEMMA NameTellsTool ==
  ASSUME NEW r, IsList(r), NEW s, IsList(s), PlanOf(r).name = PlanOf(s).name
  PROVE  r.tool = s.tool
<1>1. MarkOf(r) \in Marks BY DEF IsList, Symbols, MarkOf, Marks
<1>2. MarkOf(r) \in PlanOf(r).name BY <1>1, NameMarks
<1>3. MarkOf(r) = MarkOf(s) BY <1>1, <1>2, NameMarks
<1> QED BY <1>3 DEF IsList, Symbols, MarkOf

(* Of requests that do not cross, one name has one statement.              *)
LEMMA NamesFit ==
  ASSUME NEW r, IsList(r), NEW s, IsList(s), Uncrossed({r, s}),
         PlanOf(r).name = PlanOf(s).name
  PROVE  PlanOf(r).fixed = PlanOf(s).fixed /\ Vars(r) = Vars(s)
<1>1. r.tool = s.tool BY NameTellsTool
<1>2. CASE r.tool = "file_search"
  <2>1. /\ PlanOf(r).name = FileSearch(r).name /\ PlanOf(s).name = FileSearch(s).name
        /\ PlanOf(r).fixed = FileSearch(r).fixed /\ PlanOf(s).fixed = FileSearch(s).fixed
    BY <1>1, <1>2 DEF PlanOf
  <2>7. ASSUME NEW t PROVE /\ "primary" \in FileSearch(t).name <=> t.primary
                           /\ "lang" \in FileSearch(t).name <=> t.language # ""
    BY DEF FileSearch, Plan, With
  <2>2. r.primary <=> s.primary BY <2>1, <2>7
  <2>3. r.language # "" <=> s.language # "" BY <2>1, <2>7
  <2>4. FileSearch(r).fixed = FileSearch(s).fixed BY <2>2 DEF FileSearch, Plan, Fixed, With
  <2>5. If(r.language # "", "language") = If(s.language # "", "language") BY <2>3 DEF If
  <2>6. Vars(r) = Vars(s) BY <1>1, <1>2, <2>5 DEF Vars
  <2> QED BY <2>1, <2>4, <2>6
<1>3. CASE r.tool = "dir_list"
  <2>1. /\ PlanOf(r).name = DirList(r).name /\ PlanOf(s).name = DirList(s).name
        /\ PlanOf(r).fixed = DirList(r).fixed /\ PlanOf(s).fixed = DirList(s).fixed
    BY <1>1, <1>3 DEF PlanOf
  <2>5. ASSUME NEW t PROVE "primary" \in DirList(t).name <=> t.primary
    BY DEF DirList, Plan, With
  <2>2. r.primary <=> s.primary BY <2>1, <2>5
  <2>3. DirList(r).fixed = DirList(s).fixed BY <2>2 DEF DirList, Plan, Fixed, With
  <2>4. Vars(r) = Vars(s) BY <1>1, <1>3 DEF Vars
  <2> QED BY <2>1, <2>3, <2>4
<1>4. CASE r.tool = "list_http_calls"
  <2>1. /\ PlanOf(r).name = ListHttpCalls(r).name /\ PlanOf(s).name = ListHttpCalls(s).name
        /\ PlanOf(r).fixed = ListHttpCalls(r).fixed /\ PlanOf(s).fixed = ListHttpCalls(s).fixed
    BY <1>1, <1>4 DEF PlanOf
  <2>6. ASSUME NEW t PROVE /\ "primary" \in ListHttpCalls(t).name <=> t.primary
                           /\ "glob" \in ListHttpCalls(t).name <=> t.dir # <<>>
    BY DEF ListHttpCalls, Plan, With
  <2>2. (r.primary <=> s.primary) /\ (r.dir # <<>> <=> s.dir # <<>>) BY <2>1, <2>6
  <2>3. ListHttpCalls(r).fixed = ListHttpCalls(s).fixed
    BY <2>2 DEF ListHttpCalls, Plan, Fixed, With
  <2>4. If(r.dir # <<>>, "under") = If(s.dir # <<>>, "under") BY <2>2 DEF If
  <2>5. Vars(r) = Vars(s) BY <1>1, <1>4, <2>4 DEF Vars
  <2> QED BY <2>1, <2>3, <2>5
<1>5. CASE r.tool = "symbol_search"
  <2>1. /\ PlanOf(r).name = SymbolSearch(r).name /\ PlanOf(s).name = SymbolSearch(s).name
        /\ PlanOf(r).fixed = SymbolSearch(r).fixed /\ PlanOf(s).fixed = SymbolSearch(s).fixed
    BY <1>1, <1>5 DEF PlanOf
  <2>2. /\ r.primary <=> s.primary
        /\ r.dir # <<>> <=> s.dir # <<>>
        /\ r.name # <<>> <=> s.name # <<>>
        /\ r.kind = "function" <=> s.kind = "function"
        /\ r.kind \notin {"", "function"} <=> s.kind \notin {"", "function"}
    <3>1. ASSUME NEW t PROVE /\ "primary" \in SymbolSearch(t).name <=> t.primary
                             /\ "fp" \in SymbolSearch(t).name <=> t.dir # <<>>
                             /\ "fts" \in SymbolSearch(t).name <=> t.name # <<>>
      BY DEF SymbolSearch, Plan, With
    <3>2. ASSUME NEW t PROVE /\ "fn" \in SymbolSearch(t).name <=> t.kind = "function"
                             /\ "kind" \in SymbolSearch(t).name <=> t.kind \notin {"", "function"}
      BY DEF SymbolSearch, Plan, With
    <3> QED BY <2>1, <3>1, <3>2
  <2>3. SymbolSearch(r).fixed = SymbolSearch(s).fixed BY <2>2 DEF SymbolSearch, Plan, Fixed, With
  <2>4. /\ If(r.name # <<>>, "name") = If(s.name # <<>>, "name")
        /\ If(r.kind \notin {"", "function"}, "kind") = If(s.kind \notin {"", "function"}, "kind")
        /\ If(r.dir # <<>>, "under") = If(s.dir # <<>>, "under")
    BY <2>2 DEF If
  <2>5. Vars(r) = Vars(s) BY <1>1, <1>5, <2>4 DEF Vars
  <2> QED BY <2>1, <2>3, <2>5
<1>6. CASE r.tool = "symbol_list"
  <2>1. /\ PlanOf(r).name = SymbolList(r).name /\ PlanOf(s).name = SymbolList(s).name
        /\ PlanOf(r).fixed = SymbolList(r).fixed /\ PlanOf(s).fixed = SymbolList(s).fixed
    BY <1>1, <1>6 DEF PlanOf
  <2>2. /\ r.kind # "" <=> s.kind # ""
        /\ r.file # 0 <=> s.file # 0
        /\ r.name # <<>> <=> s.name # <<>>
        /\ r.span > 0 <=> s.span > 0
    <3>1. ASSUME NEW t PROVE /\ "k" \in SymbolList(t).name <=> t.kind # ""
                             /\ "f" \in SymbolList(t).name <=> t.file # 0
                             /\ "g" \in SymbolList(t).name <=> t.name # <<>>
                             /\ "s" \in SymbolList(t).name <=> t.span > 0
      BY DEF SymbolList, Plan, With
    <3> QED BY <2>1, <3>1
  <2>3. SymbolList(r).fixed = SymbolList(s).fixed BY DEF SymbolList, Plan
  <2>4. (r.span > 0 /\ r.kind # "method") <=> (s.span > 0 /\ s.kind # "method")
    BY <1>1, <1>6, <2>2 DEF Uncrossed
  <2>5. /\ If(r.file # 0, "file") = If(s.file # 0, "file")
        /\ If(r.name # <<>>, "name") = If(s.name # <<>>, "name")
        /\ If(r.kind # "", "kind") = If(s.kind # "", "kind")
    BY <2>2 DEF If
  <2>6. If(r.span > 0 /\ r.kind # "method", "span") = If(s.span > 0 /\ s.kind # "method", "span")
    BY <2>4 DEF If
  <2>7. Vars(r) = Vars(s) BY <1>1, <1>6, <2>5, <2>6 DEF Vars
  <2> QED BY <2>1, <2>3, <2>7
<1>7. CASE r.tool = "symbols_in_path"
  <2>1. /\ PlanOf(r).name = SymbolsInPath(r).name /\ PlanOf(s).name = SymbolsInPath(s).name
        /\ PlanOf(r).fixed = SymbolsInPath(r).fixed /\ PlanOf(s).fixed = SymbolsInPath(s).fixed
    BY <1>1, <1>7 DEF PlanOf
  <2> DEFINE a == Scope(r)
             b == Scope(s)
             scopes == {"primary", "file", "all", "dir"}
  <2>2. a \in scopes /\ b \in scopes BY DEF Scope
  <2> HIDE DEF a, b
  <2>3. \A x \in scopes : /\ x \in SymbolsInPath(r).name <=> x = a
                          /\ x \in SymbolsInPath(s).name <=> x = b
    BY <2>2 DEF SymbolsInPath, Plan, With, a, b
  <2>4. a = b BY <2>1, <2>2, <2>3
  <2>5. /\ r.kind # "" <=> s.kind # ""
        /\ r.span > 0 <=> s.span > 0
    <3>1. /\ "k1" \in SymbolsInPath(r).name <=> r.kind # ""
          /\ "s" \in SymbolsInPath(r).name <=> r.span > 0
      BY <2>2 DEF SymbolsInPath, Plan, With, a
    <3>2. /\ "k1" \in SymbolsInPath(s).name <=> s.kind # ""
          /\ "s" \in SymbolsInPath(s).name <=> s.span > 0
      BY <2>2 DEF SymbolsInPath, Plan, With, b
    <3> QED BY <2>1, <3>1, <3>2
  <2>6. a \in {"primary", "dir"} => (r.recursive <=> s.recursive)
    <3>1. "r" \in SymbolsInPath(r).name <=> a \in {"primary", "dir"} /\ r.recursive
      BY <2>2 DEF SymbolsInPath, Plan, With, a
    <3>2. "r" \in SymbolsInPath(s).name <=> b \in {"primary", "dir"} /\ s.recursive
      BY <2>2 DEF SymbolsInPath, Plan, With, b
    <3> QED BY <2>1, <2>4, <3>1, <3>2
  <2>7. SymbolsInPath(r).fixed = SymbolsInPath(s).fixed
    <3>1. SymbolsInPath(r).fixed = Fixed(a = "primary", "primary")
                                     \union Fixed(a = "primary" /\ ~r.recursive, "flat")
      BY DEF SymbolsInPath, Plan, a
    <3>2. SymbolsInPath(s).fixed = Fixed(b = "primary", "primary")
                                     \union Fixed(b = "primary" /\ ~s.recursive, "flat")
      BY DEF SymbolsInPath, Plan, b
    <3>3. Fixed(a = "primary" /\ ~r.recursive, "flat")
            = Fixed(b = "primary" /\ ~s.recursive, "flat")
      BY <2>4, <2>6 DEF Fixed, With
    <3>4. Fixed(a = "primary", "primary") = Fixed(b = "primary", "primary")
      BY <2>4 DEF Fixed, With
    <3> QED BY <3>1, <3>2, <3>3, <3>4
  <2>8. (r.span > 0 /\ r.kind # "method") <=> (s.span > 0 /\ s.kind # "method")
    BY <1>1, <1>7, <2>5 DEF Uncrossed
  <2>9. If(r.span > 0 /\ r.kind # "method", "span") = If(s.span > 0 /\ s.kind # "method", "span")
    BY <2>8 DEF If
  <2>10. If(r.kind # "", "kind") = If(s.kind # "", "kind") BY <2>5 DEF If
  <2>11. a = "dir" => If(~r.recursive, "not_deep") = If(~s.recursive, "not_deep")
    BY <2>6 DEF If
  <2>12. Vars(r) = Vars(s)
    <3> DEFINE where(t) == CASE Scope(t) = "file" -> <<"file">>
                             [] Scope(t) = "dir"  -> <<"under">> \o If(~t.recursive, "not_deep")
                             [] OTHER             -> <<>>
    <3>1. where(r) = where(s)
      <4>1. CASE a = "dir" BY <2>4, <2>11, <4>1 DEF a, b
      <4>2. CASE a = "file" BY <2>4, <4>2 DEF a, b
      <4>3. CASE a # "dir" /\ a # "file" BY <2>4, <4>3 DEF a, b
      <4> QED BY <4>1, <4>2, <4>3
    <3>2. Vars(r) = (where(r) \o If(r.kind # "", "kind"))
            \o If(r.span > 0 /\ r.kind # "method", "span")
      BY <1>7 DEF Vars
    <3>3. Vars(s) = (where(s) \o If(s.kind # "", "kind"))
            \o If(s.span > 0 /\ s.kind # "method", "span")
      BY <1>1, <1>7 DEF Vars
    <3> HIDE DEF where
    <3> QED BY <2>9, <2>10, <3>1, <3>2, <3>3
  <2> QED BY <2>1, <2>7, <2>12
<1>8. CASE r.tool = "file_summary"
  <2>1. PlanOf(r).fixed = FileSummary(r).fixed /\ PlanOf(s).fixed = FileSummary(s).fixed
    BY <1>1, <1>8 DEF PlanOf
  <2> QED BY <1>1, <1>8, <2>1 DEF FileSummary, Plan, Vars
<1>9. CASE r.tool = "dependency_cluster"
  <2>1. PlanOf(r).fixed = ClusterMethods(r).fixed /\ PlanOf(s).fixed = ClusterMethods(s).fixed
    BY <1>1, <1>9 DEF PlanOf
  <2>2. PlanOf(r).fixed = PlanOf(s).fixed BY <2>1 DEF ClusterMethods, Plan
  <2>3. r.holder # 0 <=> s.holder # 0 BY <1>1, <1>9 DEF Uncrossed
  <2>4. Vars(r) = Vars(s) BY <1>1, <1>9, <2>3 DEF Vars
  <2> QED BY <2>2, <2>4
<1> QED BY <1>2, <1>3, <1>4, <1>5, <1>6, <1>7, <1>8, <1>9 DEF IsList, Symbols

(* The statements of all names are those that the requests of a client     *)
(* make.                                                                   *)
StatementsInv ==
  \A r \in Requests.lists :
    PlanOf(r).name \in DOMAIN cache => cache[PlanOf(r).name] = Statement(PlanOf(r))

(* What was read is the beginning of what is meant, and there are more if  *)
(* that has more.                                                          *)
ReadFits(w, all) ==
  /\ ~w.empty
  /\ \E k \in 0 .. Len(all) : w.read = SubSeq(all, 1, k) /\ (w.more <=> k < Len(all))

(* Whoever reads a list has asked for one, and has read a beginning of it. *)
WalkInv ==
  \/ walk.r.tool = "none" /\ ~walk.more
  \/ /\ walk.r \in Requests.lists
     /\ walk.more => PlanOf(walk.r).page # "all"
     /\ ~stale => PlanOf(walk.r).name \in DOMAIN cache
     /\ walk.same /\ ~stale => ReadFits(walk, Meant(walk.r))

(* The inductive invariant of the lists.                                   *)
PagesInv == IsIndex(idx) /\ StatementsInv /\ WalkInv

LEMMA SameMeant ==
  ASSUME UNCHANGED idx, NEW r
  PROVE  Meant(r)' = Meant(r)
BY DEF Meant, InOrder, Ordered, Wanted, WantedFile, InFile, Files, HttpCalls, Entries, PathOf,
       Under, Directly, IsPrimary, IsSymbol, NodeIds, Symbols, Before

(* What the cache prepares or finds for a request is the request's own     *)
(* statement.                                                              *)
LEMMA PreparedIs ==
  ASSUME PagesInv, NEW r \in Requests.lists
  PROVE  Prepared(Fresh, PlanOf(r)) = Statement(PlanOf(r))
<1>1. CASE stale
  <2>1. Fresh = <<>> /\ DOMAIN <<>> = {} BY <1>1 DEF Fresh
  <2> QED BY <2>1 DEF Prepared
<1>2. CASE ~stale
  <2>1. Fresh = cache BY <1>2 DEF Fresh
  <2> QED BY <2>1 DEF Prepared, PagesInv, StatementsInv
<1> QED BY <1>1, <1>2

(* Requests with one name make one statement.                              *)
LEMMA SameName ==
  ASSUME Uncrossed(Requests.lists), IsIndex(idx),
         NEW r \in Requests.lists, NEW s \in Requests.lists, PlanOf(r).name = PlanOf(s).name
  PROVE  Statement(PlanOf(r)) = Statement(PlanOf(s))
<1>1. IsList(r) /\ IsList(s) BY RequestsAssumption
<1>2. Uncrossed({r, s}) BY DEF Uncrossed
<1>3. PlanOf(r).fixed = PlanOf(s).fixed /\ Vars(r) = Vars(s) BY <1>1, <1>2, NamesFit
<1>4. Roles(PlanOf(r).binds) = Vars(r) /\ Roles(PlanOf(s).binds) = Vars(s)
  BY <1>1, ListsSelect DEF Selects
<1> QED BY <1>3, <1>4 DEF Statement

(* After the cache has served a request its statements still fit.          *)
LEMMA ServedFits ==
  ASSUME Uncrossed(Requests.lists), PagesInv, NEW r \in Requests.lists, Served(r)
  PROVE  /\ StatementsInv' /\ ~stale' /\ PlanOf(r).name \in DOMAIN cache'
<1> DEFINE plan == PlanOf(r)
           new  == Get(Fresh, plan)
<1>1. cache' = new /\ ~stale' BY DEF Served
<1>2. new = [name \in DOMAIN Fresh \union {plan.name} |->
               IF name = plan.name THEN Prepared(Fresh, plan) ELSE Fresh[name]]
  BY DEF Get
<1>3. Prepared(Fresh, plan) = Statement(plan) BY PreparedIs
<1>4. \A s \in Requests.lists :
        PlanOf(s).name \in DOMAIN Fresh => Fresh[PlanOf(s).name] = Statement(PlanOf(s))
  <2>1. CASE stale
    <3>1. Fresh = <<>> /\ DOMAIN <<>> = {} BY <2>1 DEF Fresh
    <3> QED BY <3>1
  <2>2. CASE ~stale
    <3>1. Fresh = cache BY <2>2 DEF Fresh
    <3> QED BY <3>1 DEF PagesInv, StatementsInv
  <2> QED BY <2>1, <2>2
<1> HIDE DEF new
<1>5. DOMAIN new = DOMAIN Fresh \union {plan.name} BY <1>2
<1>6. ASSUME NEW s \in Requests.lists, PlanOf(s).name \in DOMAIN new
      PROVE  new[PlanOf(s).name] = Statement(PlanOf(s))
  <2>1. CASE PlanOf(s).name = plan.name
    <3>1. Statement(PlanOf(s)) = Statement(plan) BY <2>1, SameName DEF PagesInv
    <3>2. new[plan.name] = Prepared(Fresh, plan) BY <1>2
    <3> QED BY <1>3, <2>1, <3>1, <3>2
  <2>2. CASE PlanOf(s).name # plan.name
    <3>1. PlanOf(s).name \in DOMAIN Fresh BY <1>5, <1>6, <2>2
    <3>2. new[PlanOf(s).name] = Fresh[PlanOf(s).name] BY <1>2, <2>2, <3>1
    <3> QED BY <1>4, <3>1, <3>2
  <2> QED BY <2>1, <2>2
<1>7. StatementsInv' BY <1>1, <1>6 DEF StatementsInv
<1> QED BY <1>1, <1>5, <1>7

LEMMA PartLength ==
  ASSUME NEW all, IsSeq(all), NEW offset \in 0 .. Len(all), NEW k \in 0 .. Len(all) - offset
  PROVE  /\ Len(SubSeq(all, offset + 1, offset + k)) = k
         /\ SubSeq(all, 1, offset) \o SubSeq(all, offset + 1, offset + k) =
              SubSeq(all, 1, offset + k)
<1> DEFINE n == Len(all)
           read == SubSeq(all, offset + 1, n)
<1>1. n \in Nat BY DEF IsSeq
<1>2. n \in offset .. Len(all) /\ k \in 0 .. n - offset BY <1>1
<1>3. read = SubSeq(all, offset + 1, n) OBVIOUS
<1> HIDE DEF n, read
<1>4. SubSeq(read, 1, k) = SubSeq(all, offset + 1, offset + k) BY <1>2, <1>3, PartOf
<1>5. Len(SubSeq(read, 1, k)) = k BY <1>2, <1>3, PartOf
<1>6. SubSeq(all, 1, offset) \o SubSeq(read, 1, k) = SubSeq(all, 1, offset + k)
  BY <1>2, <1>3, PartOf
<1> QED BY <1>4, <1>5, <1>6

(* A page that follows what was read is the next part of the list.         *)
LEMMA TurnFits ==
  ASSUME PagesInv, NEW r \in Requests.lists, NEW offset \in 0 .. Len(Meant(r)),
         PlanOf(r).page = "all" => offset = 0,
         Turn(r, offset, SubSeq(Meant(r), 1, offset))
  PROVE  ReadFits(walk', Meant(r)) /\ (walk'.more => PlanOf(r).page # "all")
<1> DEFINE a   == Respond(r, Fresh, offset)
           all == Meant(r)
           before == SubSeq(all, 1, offset)
<1>1. /\ walk'.read = before \o a.rows /\ walk'.more = a.more
      /\ walk'.empty = (a.more /\ a.rows = <<>>)
  BY DEF Turn
<1>2. IsList(r) /\ IsIndex(idx) BY RequestsAssumption DEF PagesInv
<1>3. IsSeq(all) /\ Len(all) \in Nat BY <1>2, MeantIsSeq DEF IsSeq
<1>4. Prepared(Fresh, PlanOf(r)) = Statement(PlanOf(r)) BY PreparedIs
<1>5. a = Respond(r, Fresh, offset) OBVIOUS
<1> HIDE DEF a
<1>6. PICK k \in 0 .. Len(all) - offset :
        /\ a.rows = SubSeq(all, offset + 1, offset + k)
        /\ a.more <=> offset + k < Len(all)
        /\ a.more => k # 0 /\ PlanOf(r).page # "all"
  BY <1>2, <1>4, <1>5, RespondIs
<1> HIDE DEF all
<1>7. offset \in 0 .. Len(all) BY DEF all
<1>8. Len(a.rows) = k /\ before \o a.rows = SubSeq(all, 1, offset + k)
  BY <1>3, <1>6, <1>7, PartLength
<1>9. ~walk'.empty
  <2>1. ASSUME a.more, a.rows = <<>> PROVE FALSE
    <3>1. Len(<<>>) = 0 OBVIOUS
    <3> QED BY <1>6, <1>8, <2>1, <3>1
  <2> QED BY <1>1, <2>1
<1>10. offset + k \in 0 .. Len(all) BY <1>3, <1>6, <1>7
<1>11. walk'.read = SubSeq(all, 1, offset + k) BY <1>1, <1>8
<1>12. walk'.more <=> offset + k < Len(all) BY <1>1, <1>6
<1>13. ReadFits(walk', all) BY <1>9, <1>10, <1>11, <1>12 DEF ReadFits
<1> QED BY <1>1, <1>6, <1>13 DEF all

LEMMA FirstTurnFits ==
  ASSUME PagesInv, NEW r \in Requests.lists, Turn(r, 0, <<>>)
  PROVE  ReadFits(walk', Meant(r)) /\ (walk'.more => PlanOf(r).page # "all")
<1>1. IsSeq(Meant(r)) BY RequestsAssumption, MeantIsSeq DEF PagesInv
<1>2. 0 \in 0 .. Len(Meant(r)) BY <1>1 DEF IsSeq
<1>3. SubSeq(Meant(r), 1, 0) = <<>> BY SubSeqEmpty
<1>4. Turn(r, 0, SubSeq(Meant(r), 1, 0)) BY <1>3
<1> QED BY <1>2, <1>4, TurnFits

LEMMA NextTurnFits ==
  ASSUME PagesInv, walk.more, Turn(walk.r, Len(walk.read), walk.read)
  PROVE  /\ walk.r \in Requests.lists /\ PlanOf(walk.r).page # "all"
         /\ walk'.same => ReadFits(walk', Meant(walk.r))
<1> DEFINE r   == walk.r
           all == Meant(r)
<1>1. /\ r \in Requests.lists /\ PlanOf(r).page # "all"
      /\ walk.same /\ ~stale => ReadFits(walk, all)
  BY DEF PagesInv, WalkInv
<1>2. Turn(r, Len(walk.read), walk.read) OBVIOUS
<1>3. IsSeq(all) /\ Len(all) \in Nat BY <1>1, RequestsAssumption, MeantIsSeq DEF PagesInv, IsSeq
<1>4. walk'.same = (IF walk.read = <<>> THEN TRUE ELSE walk.same /\ ~stale) BY DEF Turn
<1>5. CASE walk.read = <<>>
  <2>1. Turn(r, 0, <<>>)
    <3>1. Len(walk.read) = 0 BY <1>5
    <3> QED BY <1>2, <1>5, <3>1
  <2> HIDE DEF r
  <2>2. ReadFits(walk', Meant(r)) BY <1>1, <2>1, FirstTurnFits
  <2> QED BY <1>1, <2>2 DEF r
<1>6. CASE walk.read # <<>>
  <2> SUFFICES ASSUME walk'.same PROVE ReadFits(walk', all) BY <1>1
  <2>1. ReadFits(walk, all) BY <1>1, <1>4, <1>6
  <2> HIDE DEF r, all
  <2>2. PICK k \in 0 .. Len(all) : walk.read = SubSeq(all, 1, k) BY <2>1 DEF ReadFits
  <2>3. Len(walk.read) = k
    <3>1. 0 \in 0 .. Len(all) /\ k \in 0 .. Len(all) - 0 /\ 0 + 1 = 1 /\ 0 + k = k BY <1>3, <2>2
    <3>2. Len(SubSeq(all, 0 + 1, 0 + k)) = k BY <1>3, <3>1, PartLength
    <3> QED BY <2>2, <3>1, <3>2
  <2>4. Turn(r, k, SubSeq(all, 1, k)) BY <1>2, <2>2, <2>3
  <2>5. ReadFits(walk', Meant(r)) BY <1>1, <2>2, <2>4, TurnFits DEF all
  <2> QED BY <2>5 DEF all
<1> QED BY <1>5, <1>6

(* Asking for a list or its next page keeps all this, a search leaves it   *)
(* alone, and a commit makes what was read and prepared stale.             *)
LEMMA PagesInductive ==
  ASSUME Uncrossed(Requests.lists)
  PROVE  PagesInv /\ [Next]_vars => PagesInv'
<1> SUFFICES ASSUME PagesInv, [Next]_vars PROVE PagesInv' OBVIOUS
<1>1. ASSUME UNCHANGED <<idx, cache, stale, walk>> PROVE PagesInv'
  <2>1. IsIndex(idx)' BY <1>1 DEF PagesInv, IsIndex
  <2>2. StatementsInv' BY <1>1 DEF PagesInv, StatementsInv
  <2>3. ReadFits(walk, Meant(walk.r)) => ReadFits(walk, Meant(walk.r))'
    <3> DEFINE r == walk.r
    <3>1. UNCHANGED r BY <1>1
    <3>2. Meant(r)' = Meant(r) BY <1>1, SameMeant
    <3> QED BY <1>1, <3>1, <3>2 DEF ReadFits
  <2>4. WalkInv' BY <1>1, <2>3 DEF PagesInv, WalkInv
  <2> QED BY <2>1, <2>2, <2>4 DEF PagesInv
<1>2. CASE Search
  <2>1. UNCHANGED idx BY <1>2
    DEF Search, AskImpact, AskChanges, AskSubgraph, AskPath, AskCallers, AskCallees, AskRefs,
        AskDeps, AskImpls, Answer, Ask, SearchSteps, ImpactRow, ImpactNext, ChangesLevel,
        ChangesAnswer, SubgraphRow, SubgraphNext, PathRow, PathNext, Continue
  <2> QED BY <1>1, <1>2, <2>1 DEF Search
<1>3. ASSUME NEW r \in Requests.lists, UNCHANGED idx, Served(r), walk'.r = r,
             walk'.more => PlanOf(r).page # "all",
             walk'.same => ReadFits(walk', Meant(r))
      PROVE  PagesInv'
  <2>1. IsIndex(idx)' BY <1>3 DEF PagesInv, IsIndex
  <2>2. StatementsInv' /\ ~stale' /\ PlanOf(r).name \in DOMAIN cache' BY <1>3, ServedFits
  <2>3. Meant(r)' = Meant(r) BY <1>3, SameMeant
  <2>4. walk'.same => ReadFits(walk, Meant(r))' BY <1>3, <2>3 DEF ReadFits
  <2>5. walk'.same => ReadFits(walk, Meant(walk.r))' BY <1>3, <2>4
  <2>6. WalkInv' BY <1>3, <2>2, <2>5 DEF WalkInv
  <2> QED BY <2>1, <2>2, <2>6 DEF PagesInv
<1>4. CASE \E r \in Requests.lists : List(r)
  <2>1. PICK r \in Requests.lists : List(r) BY <1>4
  <2>2. Turn(r, 0, <<>>) /\ Served(r) /\ UNCHANGED idx BY <2>1 DEF List
  <2>3. ReadFits(walk', Meant(r)) /\ (walk'.more => PlanOf(r).page # "all")
    BY <2>2, FirstTurnFits
  <2>4. walk'.r = r BY <2>2 DEF Turn
  <2> QED BY <1>3, <2>2, <2>3, <2>4
<1>5. CASE More
  <2>1. /\ walk.more /\ Turn(walk.r, Len(walk.read), walk.read) /\ Served(walk.r)
        /\ UNCHANGED idx
    BY <1>5 DEF More
  <2>2. /\ walk.r \in Requests.lists /\ PlanOf(walk.r).page # "all"
        /\ walk'.same => ReadFits(walk', Meant(walk.r))
    BY <2>1, NextTurnFits
  <2>3. walk'.r = walk.r BY <2>1 DEF Turn
  <2> QED BY <1>3, <2>1, <2>2, <2>3
<1>6. CASE Follow
  <2>1. UNCHANGED <<idx, cache, stale, walk>> BY <1>6 DEF Follow, AskSymbol, Ask
  <2> QED BY <1>1, <2>1
<1>7. CASE \E new \in Commits : Change(new)
  <2>1. PICK new \in Commits : Change(new) BY <1>7
  <2>2. idx' = new /\ stale' /\ UNCHANGED <<cache, walk>> BY <2>1 DEF Change
  <2>3. IsIndex(idx)' BY <2>2, SessionsAssumption DEF IsIndex
  <2>4. StatementsInv' BY <2>2 DEF PagesInv, StatementsInv
  <2>5. WalkInv' BY <2>2 DEF PagesInv, WalkInv
  <2> QED BY <2>3, <2>4, <2>5 DEF PagesInv
<1>8. CASE UNCHANGED vars BY <1>1, <1>8 DEF vars
<1> QED BY <1>2, <1>4, <1>5, <1>6, <1>7, <1>8 DEF Next

LEMMA PagesInitially ==
  Init => PagesInv
<1> SUFFICES ASSUME Init PROVE PagesInv OBVIOUS
<1>1. PICK s \in Sessions : idx = s.idx BY DEF Init
<1>2. IsIndex(idx) BY <1>1, SessionsAssumption
<1>3. cache = <<>> /\ DOMAIN <<>> = {} BY DEF Init
<1>4. StatementsInv BY <1>3 DEF StatementsInv
<1>5. walk.r.tool = "none" /\ ~walk.more BY DEF Init, NoWalk
<1> QED BY <1>2, <1>4, <1>5 DEF PagesInv, WalkInv

(* So what was read to its end is what is meant, and every page got        *)
(* further.                                                                *)
LEMMA PagesInvSuffices ==
  PagesInv => PagesAreComplete
<1> SUFFICES ASSUME PagesInv, walk.r.tool # "none", walk.same, ~stale
             PROVE  ~walk.empty /\ (~walk.more => walk.read = Meant(walk.r))
  BY DEF PagesAreComplete
<1> DEFINE r   == walk.r
           all == Meant(r)
<1>1. r \in Requests.lists /\ ReadFits(walk, all) BY DEF PagesInv, WalkInv
<1>2. IsSeq(all) BY <1>1, RequestsAssumption, MeantIsSeq DEF PagesInv
<1> HIDE DEF r, all
<1>3. PICK k \in 0 .. Len(all) : walk.read = SubSeq(all, 1, k) /\ (walk.more <=> k < Len(all))
  BY <1>1 DEF ReadFits
<1>4. ASSUME ~walk.more PROVE walk.read = all
  <2>1. all \in Seq(ToSet(all)) /\ Len(all) \in Nat BY <1>2 DEF IsSeq
  <2>2. k = Len(all) BY <1>3, <1>4, <2>1
  <2>3. SubSeq(all, 1, Len(all)) = all BY <2>1
  <2> QED BY <1>3, <2>2, <2>3
<1> QED BY <1>1, <1>4 DEF ReadFits, r, all

(* Whatever lists clients ask for on one connection, in whatever order and *)
(* with whatever limits and budgets, and whatever is committed meanwhile:  *)
(* who reads a list to its end on one index has read what the request      *)
(* means, in order, and a page that promises more is never empty.  The     *)
(* requests are those whose statements have names of their own: three of   *)
(* the tools can keep different statements under one name (see Uncrossed). *)
THEOREM PagesAreCompleteAlways ==
  ASSUME Uncrossed(Requests.lists)
  PROVE  Spec => []PagesAreComplete
BY PagesInvSuffices, PagesInitially, PagesInductive, PTL DEF Spec

(* And after each of these requests the connection's cache holds, under    *)
(* the name that the tool gives it, the statement that its parameters make *)
(* - though Get never compares the SQL of a statement it finds.            *)
THEOREM StatementsFitAlways ==
  ASSUME Uncrossed(Requests.lists)
  PROVE  Spec => []StatementsFit
<1>1. PagesInv => StatementsFit
  BY DEF PagesInv, StatementsInv, WalkInv, StatementsFit
<1> QED BY <1>1, PagesInitially, PagesInductive, PTL DEF Spec

-----------------------------------------------------------------------------
(* Owners and texts.                                                       *)

Text == Seq(STRING)

LEMMA SuffixLast ==
  ASSUME NEW s \in Text, NEW t \in Text, s # <<>>, IsSuffix(s, t)
  PROVE  t # <<>> /\ Last(s) = Last(t)
<1> DEFINE n == Len(s)
           m == Len(t)
           a == Reverse(s)
           b == Reverse(t)
<1>1. n \in Nat /\ m \in Nat /\ n # 0 BY EmptySeq, LenProperties DEF Text
<1>2. a \in Seq(STRING) /\ Len(a) = n /\ a[1] = s[n]
  <2>1. \A i \in 1 .. n : n - i + 1 \in 1 .. n BY <1>1
  <2>2. \A i \in 1 .. n : s[i] \in STRING BY ElementOfSeq DEF Text
  <2>3. a = [i \in 1 .. n |-> s[(n - i) + 1]] BY DEF Reverse
  <2> HIDE DEF a, n
  <2>4. a \in [1 .. n -> STRING] BY <2>1, <2>2, <2>3
  <2>5. a[1] = s[(n - 1) + 1] /\ (n - 1) + 1 = n BY <1>1, <2>3
  <2> QED BY <1>1, <2>4, <2>5
<1>3. b \in Seq(STRING) /\ Len(b) = m /\ (m # 0 => b[1] = t[m])
  <2>1. \A i \in 1 .. m : m - i + 1 \in 1 .. m BY <1>1
  <2>2. \A i \in 1 .. m : t[i] \in STRING BY ElementOfSeq DEF Text
  <2>3. b = [i \in 1 .. m |-> t[(m - i) + 1]] BY DEF Reverse
  <2> HIDE DEF b, m
  <2>4. b \in [1 .. m -> STRING] BY <2>1, <2>2, <2>3
  <2>5. m # 0 => b[1] = t[(m - 1) + 1] /\ (m - 1) + 1 = m BY <1>1, <2>3
  <2> QED BY <1>1, <2>4, <2>5
<1>4. Len(a) <= Len(b) /\ SubSeq(a, 1, Len(a)) = SubSeq(b, 1, Len(a)) BY DEF IsSuffix, IsPrefix
<1> HIDE DEF a, b, n, m
<1>5. n <= m /\ m # 0 BY <1>1, <1>2, <1>3, <1>4
<1>6. SubSeq(a, 1, n)[1] = a[1] /\ SubSeq(b, 1, n)[1] = b[1]
  <2>1. 1 \in 1 .. n /\ n \in 1 .. Len(a) /\ n \in 1 .. Len(b) BY <1>1, <1>2, <1>3, <1>5
  <2> QED BY <1>1, <1>2, <1>3, <2>1
<1>7. a[1] = b[1] BY <1>2, <1>4, <1>6
<1>8. t # <<>> BY <1>5, EmptySeq DEF m
<1> QED BY <1>2, <1>3, <1>5, <1>7, <1>8 DEF Last, n, m

(* A text names an owner only by its last identifier.                      *)
LEMMA OwnerMatchIs ==
  ASSUME NEW text \in Text, NEW owner \in Text
  PROVE  /\ OwnerMatch(text, owner) \in 0 .. 3
         /\ OwnerMatch(text, owner) > 0 <=> SameLeaf(text, owner)
         /\ text = owner /\ owner # <<>> => OwnerMatch(text, owner) = 3
<1> DEFINE leaf == <<Last(owner)>>
<1>1. CASE text = <<>> \/ owner = <<>>
  <2>1. OwnerMatch(text, owner) = 0 BY <1>1 DEF OwnerMatch, Strength
  <2>2. ~SameLeaf(text, owner) BY <1>1 DEF SameLeaf
  <2> QED BY <1>1, <2>1, <2>2
<1>2. CASE text # <<>> /\ owner # <<>>
  <2>1. leaf \in Text /\ leaf # <<>> /\ Last(leaf) = Last(owner)
    <3>1. Len(owner) \in Nat \ {0} BY <1>2, EmptySeq, LenProperties DEF Text
    <3>2. Last(owner) \in STRING BY <3>1, ElementOfSeq DEF Last, Text
    <3> HIDE DEF Last
    <3>3. leaf \in Seq(STRING) /\ Len(leaf) = 1 /\ leaf[1] = Last(owner) BY <3>2
    <3> QED BY <3>3, EmptySeq DEF Last, Text
  <2>2. text = leaf => Last(text) = Last(owner) BY <2>1
  <2>3. EndsWith(text, owner) \/ EndsWith(owner, text) \/ EndsWith(text, leaf) =>
          Last(text) = Last(owner)
    BY <1>2, <2>1, SuffixLast DEF EndsWith
  <2>4. SameLeaf(text, owner) <=> Last(text) = Last(owner) BY <1>2 DEF SameLeaf
  <2> HIDE DEF leaf
  <2>5. OwnerMatch(text, owner) =
          IF text = owner \/ text = leaf THEN 3
          ELSE IF EndsWith(text, owner) \/ EndsWith(owner, text) THEN 2
          ELSE IF EndsWith(text, leaf) THEN 2
          ELSE IF SameLeaf(text, owner) THEN 1 ELSE 0
    BY <1>2 DEF OwnerMatch, Strength, leaf
  <2> QED BY <2>2, <2>3, <2>4, <2>5
<1> QED BY <1>1, <1>2

(* Types match if and only if their last parts are the same.               *)
LEMMA TypeMatchIs ==
  ASSUME NEW qual \in Text, qual # <<>>, NEW owner \in Text
  PROVE  TypeMatch(qual, owner) > 0 <=> SameLeaf(qual, owner)
<1>1. CASE owner = <<>>
  <2>1. TypeMatch(qual, owner) = 0 BY <1>1 DEF TypeMatch, Strength
  <2> QED BY <1>1, <2>1 DEF SameLeaf
<1>2. CASE owner # <<>>
  <2>1. EndsWith(qual, owner) \/ EndsWith(owner, qual) => Last(qual) = Last(owner)
    BY <1>2, SuffixLast DEF EndsWith
  <2>2. SameLeaf(qual, owner) <=> Last(qual) = Last(owner) BY <1>2 DEF SameLeaf
  <2>3. TypeMatch(qual, owner) =
          IF qual = owner THEN 3
          ELSE IF EndsWith(qual, owner) \/ EndsWith(owner, qual) THEN 2
          ELSE IF SameLeaf(qual, owner) THEN 1 ELSE 0
    BY <1>2 DEF TypeMatch, Strength
  <2> QED BY <2>1, <2>2, <2>3
<1> QED BY <1>1, <1>2

LEMMA OwnerIsText ==
  ASSUME IsIndex(idx), NEW t \in NodeIds(idx)
  PROVE  Owner(idx, t) \in Text
<1>1. \A n \in NodeIds(idx) : /\ idx.nodes[n].qual \in Text /\ idx.nodes[n].qual # <<>>
                              /\ idx.nodes[n].around \in Text
  BY DEF IsIndex, NodeIds, Text
<1> DEFINE holders == {e.src : e \in {x \in idx.edges : x.dst = t /\ x.kind = "contains"}}
           types == {n \in holders : IsSymbol(idx, n)}
           scope == OwnerScope(idx.nodes[t].qual)
<1>2. types # {} => idx.nodes[CHOOSE n \in types : TRUE].qual \in Text
  <2>1. \A n \in types : n \in NodeIds(idx) BY DEF IsSymbol
  <2> HIDE DEF types
  <2>2. types # {} => (CHOOSE n \in types : TRUE) \in types OBVIOUS
  <2> QED BY <1>1, <2>1, <2>2
<1>3. scope \in Text
  <2> DEFINE s == idx.nodes[t].qual
  <2>1. s \in Seq(STRING) /\ Len(s) \in Nat BY <1>1, LenProperties DEF Text
  <2> HIDE DEF s
  <2>2. \A i \in 1 .. Len(s) - 1 : s[i] \in STRING BY <2>1, ElementOfSeq
  <2>3. 1 \in Int /\ Len(s) - 1 \in Int BY <2>1
  <2>4. SubSeq(s, 1, Len(s) - 1) \in Seq(STRING) BY <2>2, <2>3, SubSeqProperties
  <2> QED BY <2>4 DEF s, OwnerScope, Front, Text
<1>4. Owner(idx, t) = IF types # {} THEN idx.nodes[CHOOSE n \in types : TRUE].qual
                      ELSE IF scope # <<>> THEN scope ELSE idx.nodes[t].around
  BY DEF Owner
<1> HIDE DEF types, scope
<1> QED BY <1>1, <1>2, <1>3, <1>4

(* A type that is chosen has the last identifier of the owner.             *)
LEMMA ChooseTypeIs ==
  ASSUME IsIndex(idx), NEW types \in SUBSET NodeIds(idx), NEW owner \in Text, NEW from,
         NEW x, x = ChooseType(idx, types, owner, from)
  PROVE  /\ x.resolved \in BOOLEAN /\ x.ambiguous \in BOOLEAN
         /\ x.resolved => /\ ~x.ambiguous /\ SameLeaf(x.type, owner)
                          /\ \E n \in types : x.type = idx.nodes[n].qual
<1> DEFINE match(n) == TypeMatch(idx.nodes[n].qual, owner)
           best == {n \in types : match(n) > 0 /\ \A m \in types : match(m) <= match(n)}
           b == CHOOSE n \in best : TRUE
           crowd == Cardinality(types) > 1
           more == Cardinality(best) > 1 \/ (from = "global" /\ Cardinality(types) > 1)
<1>1. best # {} => /\ b \in types /\ SameLeaf(idx.nodes[b].qual, owner)
  <2>1. \A n \in best : n \in types /\ match(n) > 0 OBVIOUS
  <2> HIDE DEF match, best
  <2>2. best # {} => b \in types /\ match(b) > 0 BY <2>1
  <2>3. b \in types => idx.nodes[b].qual \in Text /\ idx.nodes[b].qual # <<>>
    BY DEF IsIndex, NodeIds, Text
  <2> HIDE DEF b
  <2> QED BY <2>2, <2>3, TypeMatchIs DEF match
<1>2. x = IF best = {} THEN IF crowd THEN Ambiguous ELSE Unresolved
          ELSE IF more THEN Ambiguous
          ELSE [resolved |-> TRUE, ambiguous |-> FALSE, from |-> from, type |-> idx.nodes[b].qual]
  BY DEF ChooseType
<1> HIDE DEF best, b, crowd, more
<1>3. CASE best = {} /\ crowd BY <1>2, <1>3 DEF Ambiguous, Unresolved
<1>4. CASE best = {} /\ ~crowd BY <1>2, <1>4 DEF Unresolved
<1>5. CASE best # {} /\ more BY <1>2, <1>5 DEF Ambiguous, Unresolved
<1>6. CASE best # {} /\ ~more
  <2> DEFINE q == idx.nodes[b].qual
  <2>1. b \in types /\ SameLeaf(q, owner) BY <1>1, <1>6
  <2>2. \E n \in types : q = idx.nodes[n].qual BY <2>1
  <2>3. x = [resolved |-> TRUE, ambiguous |-> FALSE, from |-> from, type |-> q] BY <1>2, <1>6
  <2> HIDE DEF q
  <2> QED BY <2>1, <2>2, <2>3
<1> QED BY <1>3, <1>4, <1>5, <1>6

(* The type of a receiver is one by its hint.                              *)
LEMMA ResolveTypeIs ==
  ASSUME IsIndex(idx), NEW r \in idx.refs, NEW owner \in Text,
         NEW x, x = ResolveType(idx, r, owner)
  PROVE  /\ x.resolved \in BOOLEAN /\ x.ambiguous \in BOOLEAN
         /\ x.resolved => /\ ~x.ambiguous /\ SameLeaf(x.type, owner)
                          /\ SameLeaf(r.hint, owner) /\ x.type \in Text
<1> DEFINE Fits(y) == /\ y.resolved \in BOOLEAN /\ y.ambiguous \in BOOLEAN
                      /\ y.resolved => /\ ~y.ambiguous /\ SameLeaf(y.type, owner)
                                       /\ SameLeaf(r.hint, owner) /\ y.type \in Text
           in(files, from) == ChooseType(idx, TypesNamed(idx, r.hint, files), owner, from)
           own == in({r.file}, "same_file")
           included == in(Included(idx, r.file), "include")
           global == in({idx.nodes[n].file : n \in NodeIds(idx)}, "global")
<1>1. ASSUME NEW files, NEW from PROVE Fits(in(files, from))
  <2> DEFINE y == in(files, from)
             types == TypesNamed(idx, r.hint, files)
  <2>1. y = ChooseType(idx, types, owner, from) OBVIOUS
  <2>2. types \in SUBSET NodeIds(idx) /\ \A n \in types : SameLeaf(idx.nodes[n].qual, r.hint)
    BY DEF TypesNamed
  <2> HIDE DEF y, types
  <2>3. /\ y.resolved \in BOOLEAN /\ y.ambiguous \in BOOLEAN
        /\ y.resolved => /\ ~y.ambiguous /\ SameLeaf(y.type, owner)
                         /\ \E n \in types : y.type = idx.nodes[n].qual
    BY <2>1, <2>2, ChooseTypeIs
  <2>4. ASSUME y.resolved PROVE SameLeaf(r.hint, owner) /\ y.type \in Text
    <3>1. PICK n \in types : y.type = idx.nodes[n].qual BY <2>3, <2>4
    <3>2. SameLeaf(y.type, r.hint) /\ SameLeaf(y.type, owner) BY <2>2, <2>3, <2>4, <3>1
    <3>3. y.type \in Text BY <2>2, <3>1 DEF IsIndex, NodeIds, Text
    <3> QED BY <3>2, <3>3 DEF SameLeaf
  <2> QED BY <2>3, <2>4 DEF y
<1>2. Fits(Unresolved) BY DEF Unresolved
<1>3. x \in {Unresolved, own, included, global} BY DEF ResolveType
<1>4. Fits(own) /\ Fits(included) /\ Fits(global) BY <1>1
<1> HIDE DEF Fits, own, included, global
<1>5. Fits(x) BY <1>2, <1>3, <1>4
<1> QED BY <1>5 DEF Fits

(* A call whose receiver is known to be of the owner's type, and one that  *)
(* neither its receiver nor its hint connects with the owner.              *)
Typed(r, owner) == r.hint # <<>> /\ r.hint = owner

Loose(r, owner) ==
  ~SameLeaf(Receiver(r), owner) /\ ~SameLeaf(r.hint, owner) /\ Receiver(r) # This

(* A call whose receiver is of the owner's type scores more than one whose *)
(* receiver has nothing to do with it.                                     *)
LEMMA ScoreIs ==
  ASSUME IsIndex(idx), NEW r \in idx.refs, NEW owner \in Text, NEW common,
         NEW x, x = ResolveType(idx, r, owner),
         NEW params, NEW s, s = WithArity(Score(idx, r, owner, x, common), r, params)
  PROVE  /\ s \in Int
         /\ Typed(r, owner) /\ ~x.ambiguous => s >= 72
         /\ Loose(r, owner) => s <= 50
<1> DEFINE text == OwnerMatch(Receiver(r), owner)
           named == IF x.resolved THEN x.type ELSE r.hint
           typed == IF x.ambiguous THEN 0 ELSE OwnerMatch(named, owner)
           far == x.from \notin {"none", "same_file"}
           has == Receiver(r) # <<>>
           this == Receiver(r) = This /\ InsideOwner(idx, r, owner)
           weak == IF has THEN 40 ELSE 35
           score == Score(idx, r, owner, x, common)
<1>1. Receiver(r) \in Text
  <2> DEFINE n == r.name
  <2>1. n \in Seq(STRING) /\ Len(n) \in Nat BY LenProperties DEF IsIndex
  <2> HIDE DEF n
  <2>2. \A i \in 1 .. Len(n) - 1 : n[i] \in STRING BY <2>1, ElementOfSeq
  <2>3. 1 \in Int /\ Len(n) - 1 \in Int BY <2>1
  <2>4. SubSeq(n, 1, Len(n) - 1) \in Seq(STRING) BY <2>2, <2>3, SubSeqProperties
  <2> QED BY <2>4 DEF n, Receiver, Front, Text
<1>2. r.hint \in Text BY DEF IsIndex, Text
<1>3. /\ x.resolved \in BOOLEAN /\ x.ambiguous \in BOOLEAN
      /\ x.resolved => /\ ~x.ambiguous /\ SameLeaf(x.type, owner)
                       /\ SameLeaf(r.hint, owner) /\ x.type \in Text
  BY ResolveTypeIs
<1>4. text \in 0 .. 3 /\ (text > 0 <=> SameLeaf(Receiver(r), owner)) BY <1>1, OwnerMatchIs
<1>5. named \in Text BY <1>2, <1>3
<1>6. /\ OwnerMatch(named, owner) \in 0 .. 3
      /\ OwnerMatch(named, owner) > 0 <=> SameLeaf(named, owner)
      /\ named = owner /\ owner # <<>> => OwnerMatch(named, owner) = 3
  <2> HIDE DEF named
  <2> QED BY <1>5, OwnerMatchIs
<1>7. Typed(r, owner) /\ ~x.ambiguous => typed > 0
  <2> SUFFICES ASSUME Typed(r, owner), ~x.ambiguous PROVE OwnerMatch(named, owner) > 0 OBVIOUS
  <2>1. CASE x.resolved
    <3>1. SameLeaf(named, owner) BY <1>3, <2>1
    <3> QED BY <1>6, <3>1
  <2>2. CASE ~x.resolved
    <3>1. named = owner /\ owner # <<>> BY <2>2 DEF Typed
    <3>2. OwnerMatch(named, owner) = 3
      <4> HIDE DEF named
      <4> QED BY <1>6, <3>1
    <3> QED BY <3>2
  <2> QED BY <1>3, <2>1, <2>2
<1>8. Loose(r, owner) => text = 0 /\ typed = 0 /\ ~this
  <2> SUFFICES ASSUME Loose(r, owner) PROVE text = 0 /\ typed = 0 /\ ~this OBVIOUS
  <2>1. ~SameLeaf(Receiver(r), owner) /\ ~SameLeaf(r.hint, owner) /\ ~this BY DEF Loose
  <2>2. ~x.resolved BY <1>3, <2>1
  <2>3. ~SameLeaf(named, owner) BY <2>1, <2>2
  <2> HIDE DEF named, this
  <2> QED BY <1>4, <1>6, <2>1, <2>3
<1>9. typed \in 0 .. 3 BY <1>3, <1>6
<1>10. score =
         IF text = 3 THEN 90 ELSE IF text = 2 THEN 82 ELSE IF text = 1 THEN 72
         ELSE IF typed = 3 THEN IF far THEN 93 ELSE 89
         ELSE IF typed > 0 THEN IF far THEN 86 ELSE 81
         ELSE IF this THEN 68
         ELSE IF common THEN weak - 10 ELSE weak
  BY DEF Score, Strength
<1> HIDE DEF text, typed, far, has, this, score
<1>11. /\ score \in 25 .. 93
       /\ Typed(r, owner) /\ ~x.ambiguous => score >= 72
       /\ Loose(r, owner) => score <= 40
  BY <1>4, <1>7, <1>8, <1>9, <1>10
<1>12. /\ s \in Int /\ s >= score
       /\ s <= score + 10
  <2>1. r.alike \in 0 .. 4 BY DEF IsIndex
  <2>2. s = IF r.args = Unknown \/ NumberOf("unknown", params) > 0 THEN score
            ELSE IF score + 6 + r.alike < 99 THEN score + 6 + r.alike ELSE 99
    BY DEF WithArity, score
  <2> QED BY <1>11, <2>1, <2>2
<1> QED BY <1>11, <1>12

(* References in the order of their sites.                                 *)
LEMMA SitesInOrder ==
  ASSUME IsIndex(idx), NEW S \in SUBSET idx.refs, NEW rows, rows = InOrder(S, LAMBDA r : r.site)
  PROVE  rows \in Seq(S) /\ Len(rows) = Cardinality(S) /\ ToSet(rows) = S
<1> DEFINE before(x, y) == x.site < y.site
           O == {p \in S \X S : before(p[1], p[2])}
           c(i) == CHOOSE r \in S : Cardinality({x \in S : before(x, r)}) = i - 1
<1>1. IsFiniteSet(S) BY FS_Subset DEF IsIndex
<1>2. \A x, y \in S : <<x, y>> \in O <=> before(x, y)
  <2> HIDE DEF before
  <2> QED OBVIOUS
<1>3. StrictOrder(O, S)
  <2> HIDE DEF O
  <2>1. /\ \A x \in S : x.site \in Nat
        /\ \A x, y \in S : x.site = y.site => x = y
    BY DEF IsIndex
  <2>2. \A x \in S : ~before(x, x) BY <2>1
  <2>3. \A x, y \in S : x # y => before(x, y) \/ before(y, x) BY <2>1
  <2>4. \A x, y, z \in S : before(x, y) /\ before(y, z) => before(x, z) BY <2>1
  <2> HIDE DEF before
  <2> QED BY <1>2, <2>2, <2>3, <2>4 DEF StrictOrder
<1>4. Placed(rows, S, O)
  <2>1. rows = [i \in 1 .. Cardinality(S) |-> c(i)] BY DEF InOrder, Ordered
  <2>2. \A r \in S : Below(O, S, r) = {x \in S : before(x, r)}
    <3> HIDE DEF O, before
    <3> QED BY <1>2 DEF Below
  <2> HIDE DEF O, before
  <2>3. ASSUME NEW i \in 1 .. Cardinality(S),
               \E r \in S : Cardinality(Below(O, S, r)) = i - 1
        PROVE  c(i) \in S /\ Cardinality(Below(O, S, c(i))) = i - 1
    <3>1. \E r \in S : Cardinality({x \in S : before(x, r)}) = i - 1 BY <2>2, <2>3
    <3>2. c(i) \in S /\ Cardinality({x \in S : before(x, c(i))}) = i - 1 BY <3>1
    <3> HIDE DEF c
    <3> QED BY <2>2, <3>2
  <2> HIDE DEF c
  <2> QED BY <2>1, <2>3 DEF Placed
<1> HIDE DEF O
<1> QED BY <1>1, <1>3, <1>4, Sorted

(* The score of a call to t, and the calls that are scored at all.         *)
ScoreOf(t, r) ==
  LET owner == Owner(idx, t) IN
  WithArity(Score(idx, r, owner, ResolveType(idx, r, owner), idx.nodes[t].common), r,
            idx.nodes[t].params)

Fitting(t) ==
  {r \in CallsNamed(idx, BareName(idx.nodes[t].qual)) : CallFits(idx.nodes[t].params, r.args)}

(* A call with a known type is scored 72 at least, a loose one 50 at most. *)
LEMMA ScoreOfIs ==
  ASSUME IsIndex(idx), NEW t \in NodeIds(idx), NEW r \in idx.refs
  PROVE  /\ ScoreOf(t, r) \in Int
         /\ Typed(r, Owner(idx, t)) /\ ~ResolveType(idx, r, Owner(idx, t)).ambiguous =>
              ScoreOf(t, r) >= 72
         /\ Loose(r, Owner(idx, t)) => ScoreOf(t, r) <= 50
<1> DEFINE owner == Owner(idx, t)
           x == ResolveType(idx, r, owner)
           common == idx.nodes[t].common
           params == idx.nodes[t].params
           s == WithArity(Score(idx, r, owner, x, common), r, params)
<1>1. owner \in Text BY OwnerIsText
<1>2. ScoreOf(t, r) = s BY DEF ScoreOf
<1>3. x = ResolveType(idx, r, owner) /\ s = WithArity(Score(idx, r, owner, x, common), r, params)
  OBVIOUS
<1> HIDE DEF owner, x, common, params, s
<1>4. /\ s \in Int
      /\ Typed(r, owner) /\ ~x.ambiguous => s >= 72
      /\ Loose(r, owner) => s <= 50
  BY <1>1, <1>3, ScoreIs
<1> QED BY <1>2, <1>4 DEF owner, x

(* Of the calls that fit, the candidates are the ones with most points.    *)
LEMMA CollectIs ==
  ASSUME IsIndex(idx), NEW t, IsSymbol(idx, t), NEW limit \in Nat \ {0}, NEW q, q.filter = <<>>,
         NEW a, a = Collect(idx, t, limit, q)
  PROVE  /\ a.total \in Nat /\ QueryLimit(limit, q.filter) \in Int
         /\ a.total <= QueryLimit(limit, q.filter) =>
              /\ ToSet(a.rows) \subseteq Fitting(t)
              /\ ~a.more => Fitting(t) \subseteq ToSet(a.rows)
              /\ \A r \in Fitting(t) \ ToSet(a.rows), s \in ToSet(a.rows) :
                   ScoreOf(t, s) >= ScoreOf(t, r)
<1> DEFINE owner   == Owner(idx, t)
           name    == BareName(idx.nodes[t].qual)
           named   == CallsNamed(idx, name)
           max     == QueryLimit(limit, q.filter)
           sites   == InOrder(named, LAMBDA r : r.site)
           read    == ToSet(Take(max, sites))
           type(r) == IF LooksUp(r, owner, q.filter) THEN ResolveType(idx, r, owner)
                      ELSE Unresolved
           score(r) == WithArity(Score(idx, r, owner, type(r), idx.nodes[t].common), r,
                                 idx.nodes[t].params)
           shown   == {r \in read : /\ CallFits(idx.nodes[t].params, r.args)
                                    /\ PassesFilter(r, ShownType(idx, r, owner, type(r)),
                                         q.filter)}
           before(x, y) == score(x) > score(y) \/ (score(x) = score(y) /\ x.site < y.site)
           c(i)    == CHOOSE r \in shown : Cardinality({x \in shown : before(x, r)}) = i - 1
           ranked  == Ordered(shown, LAMBDA x, y :
                        score(x) > score(y) \/ (score(x) = score(y) /\ x.site < y.site))
           size    == [r \in shown |-> r.size]
           page    == PageOf(ranked, limit, q.budget, size)
           O       == {p \in shown \X shown : before(p[1], p[2])}
<1>1. a = [rows |-> page, total |-> Cardinality(named), more |-> Len(page) < Len(ranked)]
  <2>1. ~(limit <= 0 \/ ~IsSymbol(idx, t)) OBVIOUS
  <2> QED BY <2>1 DEF Collect
<1>2. ranked = [i \in 1 .. Cardinality(shown) |-> c(i)] BY DEF Ordered
<1>3. t \in NodeIds(idx) BY DEF IsSymbol
<1>4. named \in SUBSET idx.refs /\ IsFiniteSet(idx.refs) BY DEF CallsNamed, IsIndex
<1>5. \A r : score(r) = ScoreOf(t, r) BY DEF ScoreOf, LooksUp
<1>6. shown = {r \in read : CallFits(idx.nodes[t].params, r.args)} BY DEF PassesFilter
<1> HIDE DEF page, ranked, shown, score
<1>7. a.rows = page /\ a.total = Cardinality(named) /\ (a.more <=> Len(page) < Len(ranked))
  <2> DEFINE more == Len(page) < Len(ranked)
             total == Cardinality(named)
  <2>1. a = [rows |-> page, total |-> total, more |-> more] BY <1>1
  <2> HIDE DEF more, total
  <2>2. a.rows = page /\ a.total = total /\ a.more = more BY <2>1
  <2> QED BY <2>2 DEF more, total
<1>8. a.total \in Nat /\ max \in Int
  <2>1. Cardinality(named) \in Nat
    <3> HIDE DEF named
    <3> QED BY <1>4, FS_Subset, FS_CardinalityType
  <2>2. max \in {4 * limit, QueryFloor, QueryCap} BY DEF QueryLimit
  <2>3. 4 * limit \in Int /\ QueryFloor \in Int /\ QueryCap \in Int BY QueryAssumption
  <2> HIDE DEF max, named
  <2> QED BY <1>7, <2>1, <2>2, <2>3
<1> SUFFICES ASSUME a.total <= max
             PROVE  /\ ToSet(a.rows) \subseteq Fitting(t)
                    /\ ~a.more => Fitting(t) \subseteq ToSet(a.rows)
                    /\ \A r \in Fitting(t) \ ToSet(a.rows), s \in ToSet(a.rows) :
                         ScoreOf(t, s) >= ScoreOf(t, r)
  BY <1>8
<1>9. read = named
  <2> HIDE DEF sites, named, max
  <2>1. sites \in Seq(named) /\ Len(sites) = Cardinality(named) /\ ToSet(sites) = named
    BY <1>4, SitesInOrder DEF sites
  <2>2. Len(sites) <= max BY <1>7, <2>1 DEF max
  <2>3. Take(max, sites) = sites BY <1>8, <2>1, <2>2, TakeAll DEF max
  <2> QED BY <2>1, <2>3
<1>10. shown = Fitting(t) BY <1>6, <1>9 DEF Fitting
<1> HIDE DEF read, named
<1>11. /\ \A x \in shown : x \in idx.refs /\ x.site \in Nat /\ score(x) \in Int
       /\ \A x, y \in shown : x.site = y.site => x = y
       /\ IsFiniteSet(shown)
  <2>1. shown \in SUBSET idx.refs BY <1>4, <1>6, <1>9
  <2>2. IsFiniteSet(shown) BY <1>4, <2>1, FS_Subset
  <2>3. \A x \in shown : score(x) \in Int BY <1>3, <1>5, <2>1, ScoreOfIs
  <2> QED BY <2>1, <2>2, <2>3 DEF IsIndex
<1>12. \A x, y \in shown : <<x, y>> \in O <=> before(x, y)
  <2> HIDE DEF before
  <2> QED OBVIOUS
<1>13. StrictOrder(O, shown)
  <2> HIDE DEF O
  <2>1. \A x \in shown : ~before(x, x) BY <1>11
  <2>2. \A x, y \in shown : x # y => before(x, y) \/ before(y, x) BY <1>11
  <2>3. \A x, y, z \in shown : before(x, y) /\ before(y, z) => before(x, z) BY <1>11
  <2> HIDE DEF before
  <2> QED BY <1>12, <2>1, <2>2, <2>3 DEF StrictOrder
<1>14. Placed(ranked, shown, O)
  <2>1. \A r \in shown : Below(O, shown, r) = {x \in shown : before(x, r)}
    <3> HIDE DEF O, before
    <3> QED BY <1>12 DEF Below
  <2> HIDE DEF O, before
  <2>2. ASSUME NEW i \in 1 .. Cardinality(shown),
               \E r \in shown : Cardinality(Below(O, shown, r)) = i - 1
        PROVE  c(i) \in shown /\ Cardinality(Below(O, shown, c(i))) = i - 1
    <3>1. \E r \in shown : Cardinality({x \in shown : before(x, r)}) = i - 1 BY <2>1, <2>2
    <3>2. c(i) \in shown /\ Cardinality({x \in shown : before(x, c(i))}) = i - 1 BY <3>1
    <3> HIDE DEF c
    <3> QED BY <2>1, <3>2
  <2> HIDE DEF c
  <2> QED BY <1>2, <2>2 DEF Placed
<1>15. /\ ranked \in Seq(shown) /\ Len(ranked) = Cardinality(shown) /\ ToSet(ranked) = shown
       /\ \A i, j \in 1 .. Cardinality(shown) : i < j => <<ranked[i], ranked[j]>> \in O
  <2> HIDE DEF O
  <2> QED BY <1>11, <1>13, <1>14, Sorted
<1>16. IsSeq(ranked) /\ ToSet(ranked) = {ranked[i] : i \in 1 .. Len(ranked)}
         /\ Len(ranked) \in Nat
  BY <1>15, SeqIsSeq
<1> HIDE DEF size, O, c, type
<1>17. PICK k \in 0 .. Len(ranked) : page = SubSeq(ranked, 1, k)
  <2> DEFINE b == q.budget
  <2> HIDE DEF b
  <2>1. \E k \in 0 .. Len(ranked) :
           /\ PageOf(ranked, limit, b, size) = SubSeq(ranked, 1, k)
           /\ k <= limit /\ (Len(ranked) # 0 => k # 0)
    BY <1>16, PageOfIs
  <2> QED BY <2>1 DEF page, b
<1> DEFINE len == Len(ranked)
<1>18. k \in Nat /\ k <= len /\ len \in Nat BY <1>16, <1>17
<1>19. ToSet(page) = {ranked[i] : i \in 1 .. k} /\ Len(page) = k
  <2>1. 1 \in Int /\ k \in Int /\ \A i \in 1 .. k : ranked[i] \in shown
    BY <1>15, <1>18, ElementOfSeq
  <2>2. /\ page \in Seq(shown) /\ Len(page) = IF 1 <= k THEN k - 1 + 1 ELSE 0
        /\ \A i \in 1 .. k - 1 + 1 : page[i] = ranked[1 + i - 1]
    <3>1. SubSeq(ranked, 1, k) \in Seq(shown) BY <2>1, SubSeqProperties
    <3>2. Len(SubSeq(ranked, 1, k)) = IF 1 <= k THEN k - 1 + 1 ELSE 0 BY <2>1, SubSeqProperties
    <3>3. \A i \in 1 .. k - 1 + 1 : SubSeq(ranked, 1, k)[i] = ranked[1 + i - 1]
      BY <2>1, SubSeqProperties
    <3> QED BY <1>17, <3>1, <3>2, <3>3
  <2>3. Len(page) = k /\ \A i \in 1 .. k : page[i] = ranked[i] BY <2>1, <2>2
  <2>4. ToSet(page) = {page[i] : i \in 1 .. Len(page)} BY <2>2, SeqIsSeq
  <2> QED BY <2>3, <2>4
<1>20. ToSet(a.rows) \subseteq shown
  <2>1. \A i \in 1 .. k : i \in 1 .. Len(ranked) BY <1>16, <1>17
  <2> QED BY <1>7, <1>15, <1>16, <1>19, <2>1
<1>21. ~a.more => shown \subseteq ToSet(a.rows)
  <2> DEFINE l == Len(page)
  <2>1. l = k BY <1>19
  <2>2. a.more <=> l < len BY <1>7
  <2> HIDE DEF l, len
  <2>3. ~a.more => k = len BY <1>18, <2>1, <2>2
  <2> QED BY <1>7, <1>15, <1>16, <1>19, <2>3 DEF len
<1>22. ASSUME NEW r \in shown \ ToSet(a.rows), NEW s \in ToSet(a.rows)
       PROVE  ScoreOf(t, s) >= ScoreOf(t, r)
  <2>1. PICK i \in 1 .. Len(ranked) : r = ranked[i] BY <1>15, <1>16
  <2>2. PICK j \in 1 .. k : s = ranked[j] BY <1>7, <1>19
  <2>3. j < i
    <3>1. i \notin 1 .. k BY <1>7, <1>19, <1>22, <2>1
    <3> QED BY <1>16, <1>17, <2>1, <2>2, <3>1
  <2>4. i \in 1 .. Cardinality(shown) /\ j \in 1 .. Cardinality(shown)
    BY <1>15, <1>18, <2>1, <2>2, <2>3
  <2>5. <<ranked[j], ranked[i]>> \in O BY <1>15, <2>3, <2>4
  <2>6. <<s, r>> \in O BY <2>1, <2>2, <2>5
  <2>7. s \in shown BY <1>20
  <2>8. score(s) >= score(r) BY <1>11, <1>12, <2>6, <2>7
  <2> QED BY <1>5, <2>8
<1> QED BY <1>10, <1>20, <1>21, <1>22

(* The edges that lead to a node, the most confident first.                *)
LEMMA BestIs ==
  ASSUME IsIndex(idx), NEW n, NEW S \in SUBSET Calls(idx), \A e \in S : e.dst = n,
         NEW rows, rows = Best(S, LAMBDA e : e.src)
  PROVE  rows \in Seq(S)
<1> DEFINE before(x, y) == x.conf > y.conf \/ (x.conf = y.conf /\ x.src < y.src)
           O == {p \in S \X S : before(p[1], p[2])}
           c(i) == CHOOSE r \in S : Cardinality({x \in S : before(x, r)}) = i - 1
<1>1. S \in SUBSET idx.edges /\ IsFiniteSet(idx.edges) BY DEF Calls, IsIndex
<1>2. IsFiniteSet(S) BY <1>1, FS_Subset
<1>3. \A x, y \in S : <<x, y>> \in O <=> before(x, y)
  <2> HIDE DEF before
  <2> QED OBVIOUS
<1>4. StrictOrder(O, S)
  <2> HIDE DEF O
  <2>1. /\ \A x \in S : x.src \in Nat /\ x.conf \in Nat
        /\ \A x, y \in S : x.src = y.src /\ x.conf = y.conf => x = y
    BY <1>1 DEF IsIndex, Calls
  <2>2. \A x \in S : ~before(x, x) BY <2>1
  <2>3. \A x, y \in S : x # y => before(x, y) \/ before(y, x) BY <2>1
  <2>4. \A x, y, z \in S : before(x, y) /\ before(y, z) => before(x, z) BY <2>1
  <2> HIDE DEF before
  <2> QED BY <1>3, <2>2, <2>3, <2>4 DEF StrictOrder
<1>5. Placed(rows, S, O)
  <2>1. rows = [i \in 1 .. Cardinality(S) |-> c(i)] BY DEF Best, Ordered
  <2>2. \A r \in S : Below(O, S, r) = {x \in S : before(x, r)}
    <3> HIDE DEF O, before
    <3> QED BY <1>3 DEF Below
  <2> HIDE DEF O, before
  <2>3. ASSUME NEW i \in 1 .. Cardinality(S),
               \E r \in S : Cardinality(Below(O, S, r)) = i - 1
        PROVE  c(i) \in S /\ Cardinality(Below(O, S, c(i))) = i - 1
    <3>1. \E r \in S : Cardinality({x \in S : before(x, r)}) = i - 1 BY <2>2, <2>3
    <3>2. c(i) \in S /\ Cardinality({x \in S : before(x, c(i))}) = i - 1 BY <3>1
    <3> HIDE DEF c
    <3> QED BY <2>2, <3>2
  <2> HIDE DEF c
  <2> QED BY <2>1, <2>3 DEF Placed
<1> HIDE DEF O
<1> QED BY <1>2, <1>4, <1>5, Sorted

(* Exact callers are nodes of the index.                                   *)
LEMMA ExactAre ==
  ASSUME IsIndex(idx), NEW q, q.limit \in Nat, q.top \in Nat,
         NEW a, a = CallersApprox(idx, q)
  PROVE  \A i \in DOMAIN a.exact : a.exact[i].src \in NodeIds(idx)
<1> DEFINE room == IF q.lean /\ q.top < q.limit THEN q.top ELSE q.limit
           S == {e \in Calls(idx) : e.dst = q.node /\ e.conf >= q.conf}
           rows == Best(S, LAMBDA e : e.src)
           m == IF room < Len(rows) THEN room ELSE Len(rows)
<1>1. a.exact = SubSeq(rows, 1, m) BY DEF CallersApprox, Take
<1>2. room \in Nat OBVIOUS
<1>3. S \in SUBSET Calls(idx) /\ \A e \in S : e.dst = q.node OBVIOUS
<1>4. \A e \in S : e.src \in NodeIds(idx) BY DEF IsIndex, NodeIds, Calls
<1>5. rows \in Seq(S)
  <2> HIDE DEF S
  <2> QED BY <1>3, BestIs
<1> HIDE DEF S, rows, room
<1>6. m \in Int /\ 1 \in Int /\ m <= Len(rows) /\ \A i \in 1 .. m : rows[i] \in S
  <2>1. Len(rows) \in Nat BY <1>5, LenProperties
  <2>2. m \in Int /\ m <= Len(rows) BY <1>2, <2>1
  <2> HIDE DEF m
  <2> QED BY <1>5, <2>1, <2>2, ElementOfSeq
<1> HIDE DEF m
<1>7. a.exact \in Seq(S) BY <1>1, <1>6, SubSeqProperties
<1>8. \A i \in DOMAIN a.exact : a.exact[i] \in S BY <1>7, ElementOfSeq, LenProperties
<1> QED BY <1>4, <1>8

(* What the binder could bind is not dropped before it is scored.          *)
LEMMA CouldCallFits ==
  ASSUME SelfIsExplicit(idx), NEW t \in NodeIds(idx), NEW r \in idx.refs, CouldCall(r, t)
  PROVE  r \in Fitting(t)
<1>1. r.kind = "call" /\ BareName(r.name) = BareName(idx.nodes[t].qual)
      /\ ArityFits(idx.nodes[t], r.args)
  BY DEF CouldCall, Compatible
<1>2. idx.nodes[t].lang \notin {"python", "rust"} BY DEF SelfIsExplicit, NodeIds
<1>3. CallFits(idx.nodes[t].params, r.args) BY <1>1, <1>2 DEF CallFits, ArityFits
<1> QED BY <1>1, <1>3 DEF Fitting, CallsNamed

(* An answer about the callers covers the calls.                           *)
LEMMA CallersCover ==
  ASSUME IsIndex(idx), SelfIsExplicit(idx), search.tool = "callers_approx",
         CallersFit(idx, search)
  PROVE  CandidatesCoverCalls
<1> DEFINE q == search.q
           t == q.node
           a == search.rows
           x == a.candidates
           owner == Owner(idx, t)
           limit == CandidateRoom(q)
           rows == ToSet(x.rows)
           typed(r) == r.hint # <<>> /\ r.hint = owner
           loose(r) == /\ ~SameLeaf(Receiver(r), owner)
                       /\ ~SameLeaf(r.hint, owner) /\ Receiver(r) # This
           could == {r \in idx.refs : CouldCall(r, t)}
           enough == x.total <= QueryLimit(limit, q.filter)
           unsure(r) == ResolveType(idx, r, owner).ambiguous
<1> SUFFICES ASSUME IsSymbol(idx, t)
             PROVE  /\ \/ \E i \in DOMAIN a.exact : IsSymbol(idx, a.exact[i].src)
                       \/ could \subseteq rows
                       \/ x.more
                       \/ q.filter # <<>>
                       \/ x.total > QueryLimit(limit, q.filter)
                    /\ \A r \in could \ rows :
                         typed(r) /\ a.collected /\ q.filter = <<>> /\ enough =>
                           unsure(r) \/ ~ \E s \in rows : loose(s)
  BY DEF CandidatesCoverCalls
<1>1. t \in NodeIds(idx) BY DEF IsSymbol
<1>2. q.limit \in Nat \ {0} /\ q.top \in Nat \ {0} /\ a = CallersApprox(idx, q)
  BY RequestsAssumption DEF CallersFit
<1>3. limit \in Nat \ {0} BY <1>2 DEF CandidateRoom
<1>4. \A r \in could : r \in idx.refs /\ r \in Fitting(t) BY <1>1, CouldCallFits
<1> DEFINE none == \A i \in DOMAIN a.exact : idx.nodes[a.exact[i].src].kind = "file"
           want == ShouldCollect(q.mode, none)
<1>5. a.collected = want /\ x = IF want THEN Collect(idx, t, limit, q) ELSE NoCandidates
  <2> DEFINE room == IF q.lean /\ q.top < q.limit THEN q.top ELSE q.limit
             exact == Take(room, Best({e \in Calls(idx) : e.dst = t /\ e.conf >= q.conf},
                                      LAMBDA e : e.src))
             alone == \A i \in DOMAIN exact : idx.nodes[exact[i].src].kind = "file"
             candidates == Collect(idx, t, limit, q)
             should == ShouldCollect(q.mode, alone)
  <2>1. a = [exact |-> exact, collected |-> should,
             candidates |-> IF should THEN candidates ELSE NoCandidates]
    BY <1>2 DEF CallersApprox
  <2> HIDE DEF exact, should, candidates, a
  <2>2. a.exact = exact /\ a.collected = should
        /\ a.candidates = IF should THEN candidates ELSE NoCandidates
    BY <2>1
  <2>3. want = should BY <2>2 DEF should
  <2> QED BY <2>2, <2>3 DEF candidates
<1>6. ASSUME \A i \in DOMAIN a.exact : ~IsSymbol(idx, a.exact[i].src) PROVE want
  <2>1. \A i \in DOMAIN a.exact : a.exact[i].src \in NodeIds(idx) BY <1>2, ExactAre
  <2>2. none BY <1>6, <2>1 DEF IsSymbol
  <2> QED BY <2>2 DEF ShouldCollect
<1> HIDE DEF q, a, x, t, limit, none
<1>7. ASSUME want, q.filter = <<>>, enough
      PROVE  /\ rows \subseteq Fitting(t)
             /\ ~x.more => Fitting(t) \subseteq rows
             /\ \A r \in Fitting(t) \ rows, s \in rows : ScoreOf(t, s) >= ScoreOf(t, r)
  <2>1. x = Collect(idx, t, limit, q) BY <1>5, <1>7
  <2>2. x.total <= QueryLimit(limit, q.filter) BY <1>7
  <2> QED BY <1>3, <1>7, <2>1, <2>2, CollectIs
<1> HIDE DEF want, could, rows, owner
<1>8. want /\ q.filter = <<>> => enough \/ x.total > QueryLimit(limit, q.filter)
  <2> SUFFICES ASSUME want, q.filter = <<>> PROVE enough \/ x.total > QueryLimit(limit, q.filter)
    OBVIOUS
  <2> DEFINE max == QueryLimit(limit, q.filter)
  <2>1. x = Collect(idx, t, limit, q) BY <1>5
  <2>2. x.total \in Nat /\ max \in Int BY <1>3, <2>1, CollectIs
  <2> HIDE DEF max
  <2>3. x.total <= max \/ x.total > max BY <2>2
  <2> QED BY <2>3 DEF max
<1>9. \/ \E i \in DOMAIN a.exact : IsSymbol(idx, a.exact[i].src)
      \/ could \subseteq rows \/ x.more \/ q.filter # <<>>
      \/ x.total > QueryLimit(limit, q.filter)
  <2> HIDE DEF enough
  <2> QED BY <1>4, <1>6, <1>7, <1>8
<1>10. ASSUME NEW r \in could \ rows, typed(r), a.collected, q.filter = <<>>, enough, ~unsure(r),
              NEW s \in rows, loose(s)
       PROVE  FALSE
  <2>1. want BY <1>5, <1>10
  <2>2. r \in Fitting(t) \ rows /\ r \in idx.refs BY <1>4
  <2>3. s \in idx.refs BY <1>7, <1>10, <2>1 DEF Fitting, CallsNamed
  <2>4. ScoreOf(t, s) >= ScoreOf(t, r) BY <1>7, <1>10, <2>1, <2>2
  <2>5. Typed(r, owner) /\ Loose(s, owner) BY <1>10 DEF Typed, Loose
  <2>6. ScoreOf(t, r) >= 72 /\ ScoreOf(t, r) \in Int
    BY <1>1, <1>10, <2>2, <2>5, ScoreOfIs DEF owner
  <2>7. ScoreOf(t, s) <= 50 /\ ScoreOf(t, s) \in Int BY <1>1, <2>3, <2>5, ScoreOfIs DEF owner
  <2> QED BY <2>4, <2>6, <2>7
<1> HIDE DEF enough
<1> QED BY <1>9, <1>10

(* Whatever the graph and the call sites, an answer of callers_approx has  *)
(* an exact caller, or every call that the binder could bind to the        *)
(* target, or says that there is more, or had to stop at its limit; and    *)
(* where candidates give way, none that is typed gives way to a loose one. *)
(* The languages are those without an implicit self: the binder checks no  *)
(* arity in Python and Rust, and callers_approx does (see SelfIsExplicit). *)
THEOREM CandidatesCoverCallsAlways ==
  ASSUME \A s \in Sessions : SelfIsExplicit(s.idx), \A i \in Commits : SelfIsExplicit(i)
  PROVE  Spec => []CandidatesCoverCalls
<1> DEFINE Inv == SearchInv /\ SelfIsExplicit(idx)
<1>1. Init => Inv
  <2> SUFFICES ASSUME Init PROVE Inv OBVIOUS
  <2>1. SelfIsExplicit(idx) BY DEF Init
  <2> QED BY <2>1, SearchInitially
<1>2. Inv /\ [Next]_vars => Inv'
  <2> SUFFICES ASSUME Inv, [Next]_vars PROVE SelfIsExplicit(idx)' BY SearchInductive
  <2>1. CASE UNCHANGED idx BY <2>1 DEF SelfIsExplicit
  <2>2. CASE \E new \in Commits : Change(new)
    <3>1. PICK new \in Commits : idx' = new BY <2>2 DEF Change
    <3> QED BY <3>1 DEF SelfIsExplicit
  <2>3. UNCHANGED idx \/ \E new \in Commits : Change(new)
    <3>1. CASE Search
      <4>1. SearchAsks \/ SearchSteps BY <3>1 DEF Search, SearchAsks
      <4> QED BY <4>1, AsksFit, StepsFit
    <3>2. CASE \E r \in Requests.lists : List(r) BY <3>2 DEF List
    <3>3. CASE More BY <3>3 DEF More
    <3>4. CASE Follow BY <3>4 DEF Follow, AskSymbol, Ask
    <3>5. CASE UNCHANGED vars BY <3>5 DEF vars
    <3> QED BY <3>1, <3>2, <3>3, <3>4, <3>5 DEF Next
  <2> QED BY <2>1, <2>2, <2>3
<1>3. Inv => CandidatesCoverCalls
  <2> SUFFICES ASSUME Inv PROVE CandidatesCoverCalls OBVIOUS
  <2>1. CASE search.tool = "callers_approx"
    BY <2>1, CallersCover DEF SearchInv, SearchFits
  <2>2. CASE search.tool # "callers_approx" BY <2>2 DEF CandidatesCoverCalls
  <2> QED BY <2>1, <2>2
<1> HIDE DEF Inv
<1> QED BY <1>1, <1>2, <1>3, PTL DEF Spec

(* What a client has read to its end, on an index that stayed as it was,   *)
(* is said here by the rows and the relation between two of them, without  *)
(* the construction that Meant shares with the model of ORDER BY.          *)
ReadIsWhole ==
  walk.r.tool # "none" /\ walk.same /\ ~stale /\ ~walk.more =>
    /\ ToSet(walk.read) = RowsOf(walk.r)
    /\ \A i, j \in 1 .. Len(walk.read) :
         i < j => ComesFirst(walk.r, walk.read[i], walk.read[j])

(* A list that a client reads page by page to its end has every row that   *)
(* the request asks for, no other row, and each row before those that its  *)
(* ORDER BY puts behind it.  So no page skips a row, and none repeats one  *)
(* of an earlier page, whatever the limit, the budget and the index.       *)
THEOREM ListsAreWholeAlways ==
  ASSUME Uncrossed(Requests.lists)
  PROVE  Spec => []ReadIsWhole
<1>1. PagesInv => ReadIsWhole
  <2> SUFFICES ASSUME PagesInv, walk.r.tool # "none", walk.same, ~stale, ~walk.more
               PROVE  ReadIsWhole
    BY DEF ReadIsWhole
  <2>1. walk.r \in Requests.lists /\ IsIndex(idx) BY DEF PagesInv, WalkInv
  <2>2. walk.read = Meant(walk.r)
    <3>1. PagesAreComplete BY PagesInvSuffices
    <3> QED BY <3>1 DEF PagesAreComplete
  <2> DEFINE r == walk.r
  <2>3. IsList(r) BY <2>1, RequestsAssumption
  <2> HIDE DEF r
  <2>4. /\ ToSet(Meant(r)) = RowsOf(r)
        /\ \A i, j \in 1 .. Len(Meant(r)) : i < j => ComesFirst(r, Meant(r)[i], Meant(r)[j])
    BY <2>1, <2>3, MeantIsWhole
  <2> QED BY <2>2, <2>4 DEF ReadIsWhole, r
<1> QED BY <1>1, PagesInitially, PagesInductive, PTL DEF Spec
==============================================================================
