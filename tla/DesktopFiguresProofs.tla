------------------------ MODULE DesktopFiguresProofs ------------------------
(***************************************************************************)
(* The figures of the desktop app: what a refresh makes of Cursor's totals *)
(* adds up to them (UsageInv), the answers of one snapshot add up to each  *)
(* other (FiguresInv), and so do those of a team's overview, which count   *)
(* each uploaded event once (TeamInv).  They need sums, which FoldFunction *)
(* computes along a recursive function; what a sum is comes first.         *)
(***************************************************************************)
EXTENDS Aggregation, CursorUsage, TeamFigures, FiniteSetTheorems, FunctionTheorems, SequenceTheorems,
        WellFoundedInduction, TLAPS

\* A set of numbers has a least one: the initial segments below one of its members are
\* well-founded by inclusion.
LEMMA LeastOf ==
  ASSUME NEW S \in SUBSET Nat, S # {}
  PROVE  Min(S) \in S /\ \A y \in S : Min(S) <= y
<1>1. PICK n \in S : TRUE
  OBVIOUS
<1>. DEFINE A == 0 .. n
            T == {0 .. x : x \in {y \in S : y <= n}}
<1>2. n \in Nat /\ IsFiniteSet(A) /\ T \subseteq SUBSET A /\ T # {}
  <2>1. n \in Nat /\ 0 \in Int /\ n \in Int
    OBVIOUS
  <2>2. IsFiniteSet(A)
    BY <2>1, FS_Interval
  <2>3. (0 .. n) \in T
    BY <2>1
  <2>4. T \subseteq SUBSET A
    BY <2>1
  <2>. QED
    BY <2>1, <2>2, <2>3, <2>4
<1>3. T \subseteq FiniteSubsetsOf(A)
  BY <1>2, FS_Subset DEF FiniteSubsetsOf
<1>4. IsWellFoundedOn(StrictSubsetOrdering(A), FiniteSubsetsOf(A))
  BY <1>2, FS_StrictSubsetOrderingWellFounded
<1>5. PICK X \in T : \A Y \in T : ~ (<<Y, X>> \in StrictSubsetOrdering(A))
  BY <1>2, <1>3, <1>4, WFMin
<1>6. PICK x \in S : x <= n /\ X = 0 .. x
  OBVIOUS
<1>7. ASSUME NEW y \in S PROVE x <= y
  <2>. SUFFICES ASSUME y < x PROVE FALSE
    BY <1>6
  <2>1. 0 .. y \in T /\ 0 .. y \subseteq X /\ 0 .. y # X
    BY <1>2, <1>6
  <2>. QED
    BY <2>1, <1>2, <1>5 DEF StrictSubsetOrdering
<1>. QED
  BY <1>7 DEF Min

-----------------------------------------------------------------------------
(* Sums.  FoldFunction adds up along a recursive function on the subsets of a  *)
(* domain.  That it exists, and what it yields, follows by the size of the      *)
(* subset: a least one of which it is false is led back to a smaller one.       *)

AnyOf(s)     == CHOOSE x \in s : TRUE
Sum(f)     == FoldFunction(+, 0, f)
Adds(g, f, D) == g = [s \in D |-> IF s = {} THEN 0 ELSE f[AnyOf(s)] + g[s \ {AnyOf(s)}]]
Iter(f)    == CHOOSE g : Adds(g, f, SUBSET DOMAIN f)
Numbers(f) == IsFiniteSet(DOMAIN f) /\ \A x \in DOMAIN f : f[x] \in Int

\* What is chosen of a set is in it.
LEMMA AnyIn == ASSUME NEW s, s # {} PROVE AnyOf(s) \in s
BY DEF AnyOf

\* A sum is what the recursive function is for the whole domain.
LEMMA SumIsIter == ASSUME NEW f PROVE Sum(f) = Iter(f)[DOMAIN f]
BY Zenon DEF Sum, FoldFunction, FoldFunctionOnSet, MapThenFoldSet, Iter, Adds, AnyOf

\* The size of what is left of a subset.
LEMMA Smaller ==
  ASSUME NEW S, IsFiniteSet(S), NEW s \in SUBSET S, NEW x \in s
  PROVE  /\ IsFiniteSet(s) /\ Cardinality(s) \in Nat /\ s \ {x} \in SUBSET S
         /\ Cardinality(s \ {x}) \in Nat /\ Cardinality(s \ {x}) + 1 = Cardinality(s)
<1>1. IsFiniteSet(s) /\ Cardinality(s) \in Nat
  BY FS_Subset, FS_CardinalityType
<1>2. IsFiniteSet(s \ {x}) /\ Cardinality(s \ {x}) = Cardinality(s) - 1
  BY <1>1, FS_RemoveElement
<1>3. Cardinality(s \ {x}) \in Nat
  BY <1>2, FS_CardinalityType
<1>. QED
  BY <1>1, <1>2, <1>3

\* There is such a function: from one for the subsets up to a size follows one for the
\* next size.
LEMMA IterExists ==
  ASSUME NEW f, IsFiniteSet(DOMAIN f)
  PROVE  \E g : Adds(g, f, SUBSET DOMAIN f)
<1>. DEFINE S == DOMAIN f
            Upto(k) == {s \in SUBSET S : Cardinality(s) <= k}
            Some(k) == \E g : Adds(g, f, Upto(k))
            Bad == {k \in Nat : ~ Some(k)}
<1>1. \A s \in SUBSET S : Cardinality(s) \in Nat /\ (Cardinality(s) = 0 <=> s = {})
  BY FS_Subset, FS_CardinalityType, FS_EmptySet
<1>2. Some(0)
  <2>. DEFINE g == [s \in Upto(0) |-> 0]
  <2>1. \A s \in Upto(0) : s = {}
    BY <1>1
  <2>. HIDE DEF Upto
  <2>2. Adds(g, f, Upto(0))
    BY <2>1 DEF Adds
  <2>. QED
    BY <2>2
<1>3. ASSUME NEW k \in Nat, Some(k) PROVE Some(k + 1)
  <2>1. PICK g : Adds(g, f, Upto(k))
    BY <1>3
  <2>. DEFINE Next(s) == IF s = {} THEN 0 ELSE f[AnyOf(s)] + g[s \ {AnyOf(s)}]
              h == [s \in Upto(k + 1) |-> Next(s)]
  <2>2. ASSUME NEW s \in Upto(k + 1), s # {} PROVE s \ {AnyOf(s)} \in Upto(k) /\ s \ {AnyOf(s)} \in Upto(k + 1)
    <3>1. s \in SUBSET S /\ AnyOf(s) \in s /\ Cardinality(s) <= k + 1
      BY <2>2, AnyIn
    <3>2. s \ {AnyOf(s)} \in SUBSET S /\ Cardinality(s \ {AnyOf(s)}) \in Nat
          /\ Cardinality(s \ {AnyOf(s)}) + 1 = Cardinality(s) /\ Cardinality(s) \in Nat
      BY <3>1, Smaller
    <3>. QED
      BY <3>1, <3>2
  <2>3. \A s \in Upto(k) : g[s] = Next(s)
    BY <2>1 DEF Adds
  <2>4. \A s \in Upto(k) : s \in Upto(k + 1)
    BY <1>1
  <2>. HIDE DEF Upto
  <2>5. \A s \in Upto(k) : h[s] = g[s]
    BY <2>3, <2>4
  <2>6. \A s \in Upto(k + 1) : s # {} => h[s \ {AnyOf(s)}] = g[s \ {AnyOf(s)}]
    BY <2>2, <2>5
  <2>7. \A s \in Upto(k + 1) : Next(s) = IF s = {} THEN 0 ELSE f[AnyOf(s)] + h[s \ {AnyOf(s)}]
    <3>. HIDE DEF h
    <3>. QED
      BY <2>6
  <2>8. h = [s \in Upto(k + 1) |-> IF s = {} THEN 0 ELSE f[AnyOf(s)] + h[s \ {AnyOf(s)}]]
    <3>1. h = [s \in Upto(k + 1) |-> Next(s)]
      OBVIOUS
    <3>. HIDE DEF h, Next
    <3>. QED
      BY <2>7, <3>1, Zenon
  <2>. HIDE DEF h
  <2>9. Adds(h, f, Upto(k + 1))
    BY <2>8, Zenon DEF Adds
  <2>. QED
    BY <2>9
<1>. HIDE DEF Some
<1>4. Bad = {}
  <2>. SUFFICES ASSUME Bad # {} PROVE FALSE
    OBVIOUS
  <2>1. Bad \in SUBSET Nat
    OBVIOUS
  <2>2. Min(Bad) \in Bad /\ \A y \in Bad : Min(Bad) <= y
    BY <2>1, LeastOf
  <2>3. PICK k \in Nat : k \in Bad /\ \A y \in Bad : k <= y
    BY <2>1, <2>2
  <2>4. k # 0
    BY <1>2, <2>3
  <2>5. k - 1 \in Nat /\ k - 1 \notin Bad
    BY <2>3, <2>4
  <2>6. Some(k - 1)
    BY <2>5
  <2>7. Some((k - 1) + 1)
    BY <1>3, <2>5, <2>6
  <2>8. (k - 1) + 1 = k
    BY <2>5
  <2>. QED
    BY <2>3, <2>7, <2>8
<1>5. Cardinality(S) \in Nat /\ Upto(Cardinality(S)) = SUBSET S
  <2>1. Cardinality(S) \in Nat /\ \A s \in SUBSET S : Cardinality(s) <= Cardinality(S)
    BY FS_CardinalityType, FS_Subset
  <2>. QED
    BY <2>1
<1>. QED
  BY <1>4, <1>5 DEF Some

\* The recursive function unfolds.
LEMMA IterMeans ==
  ASSUME NEW f, IsFiniteSet(DOMAIN f)
  PROVE  /\ Iter(f)[{}] = 0
         /\ \A s \in SUBSET DOMAIN f : s # {} => Iter(f)[s] = f[AnyOf(s)] + Iter(f)[s \ {AnyOf(s)}]
<1>1. Adds(Iter(f), f, SUBSET DOMAIN f)
  BY IterExists DEF Iter
<1>. DEFINE g == Iter(f)
<1>. HIDE DEF g
<1>2. g = [s \in SUBSET DOMAIN f |-> IF s = {} THEN 0 ELSE f[AnyOf(s)] + g[s \ {AnyOf(s)}]]
  BY <1>1 DEF Adds, g
<1>3. \A s \in SUBSET DOMAIN f : g[s] = IF s = {} THEN 0 ELSE f[AnyOf(s)] + g[s \ {AnyOf(s)}]
  BY <1>2, Zenon
<1>. QED
  BY <1>3 DEF g

\* What is false of no subset that all smaller ones agree with is false of none.
LEMMA BySize ==
  ASSUME NEW S, IsFiniteSet(S), NEW Bad \in SUBSET (SUBSET S),
         \A s \in Bad : \E t \in Bad : Cardinality(t) < Cardinality(s)
  PROVE  Bad = {}
<1>. SUFFICES ASSUME Bad # {} PROVE FALSE
  OBVIOUS
<1>. DEFINE K == {Cardinality(s) : s \in Bad}
<1>1. \A s \in Bad : Cardinality(s) \in Nat
  BY FS_Subset, FS_CardinalityType
<1>2. K \in SUBSET Nat /\ K # {}
  BY <1>1
<1>3. Min(K) \in K /\ \A k \in K : Min(K) <= k
  BY <1>2, LeastOf
<1>4. PICK s \in Bad : Cardinality(s) = Min(K)
  BY <1>3
<1>5. PICK t \in Bad : Cardinality(t) < Cardinality(s)
  OBVIOUS
<1>6. Cardinality(t) \in K
  BY <1>5
<1>7. Cardinality(s) <= Cardinality(t)
  BY <1>3, <1>4, <1>6
<1>. QED
  BY <1>1, <1>5, <1>7

\* Sums of numbers are numbers.
LEMMA IterNumber ==
  ASSUME NEW f, Numbers(f)
  PROVE  \A s \in SUBSET DOMAIN f : Iter(f)[s] \in Int
<1>. DEFINE Bad == {s \in SUBSET DOMAIN f : Iter(f)[s] \notin Int}
<1>1. IsFiniteSet(DOMAIN f) /\ \A x \in DOMAIN f : f[x] \in Int
  BY DEF Numbers
<1>2. ASSUME NEW s \in Bad PROVE \E t \in Bad : Cardinality(t) < Cardinality(s)
  <2>1. s \in SUBSET DOMAIN f /\ s # {} /\ Iter(f)[s] \notin Int
    <3>1. Iter(f)[{}] \in Int
      BY <1>1, IterMeans
    <3>. QED
      BY <3>1
  <2>. DEFINE x == AnyOf(s)
              t == s \ {x}
  <2>2. x \in s /\ x \in DOMAIN f
    BY <2>1, AnyIn
  <2>3. Iter(f)[s] = f[x] + Iter(f)[t]
    BY <1>1, <2>1, IterMeans
  <2>. HIDE DEF x
  <2>4. t \in SUBSET DOMAIN f /\ Cardinality(t) \in Nat /\ Cardinality(t) + 1 = Cardinality(s)
    BY <1>1, <2>1, <2>2, Smaller
  <2>5. Iter(f)[t] \notin Int
    BY <1>1, <2>1, <2>2, <2>3
  <2>6. t \in Bad /\ Cardinality(t) < Cardinality(s)
    BY <2>4, <2>5
  <2>. QED
    BY <2>6
<1>3. Bad \in SUBSET (SUBSET DOMAIN f)
  OBVIOUS
<1>4. Bad = {}
  <2>. HIDE DEF Bad
  <2>. QED
    BY <1>1, <1>2, <1>3, BySize
<1>. QED
  BY <1>4

\* A sum may begin with any of its terms.
LEMMA IterTakes ==
  ASSUME NEW f, Numbers(f)
  PROVE  \A s \in SUBSET DOMAIN f : \A y \in s : Iter(f)[s] = f[y] + Iter(f)[s \ {y}]
<1>. DEFINE Taken(s, y) == Iter(f)[s] = f[y] + Iter(f)[s \ {y}]
            Bad == {s \in SUBSET DOMAIN f : \E y \in s : ~ Taken(s, y)}
<1>1. IsFiniteSet(DOMAIN f) /\ \A x \in DOMAIN f : f[x] \in Int
  BY DEF Numbers
<1>2. ASSUME NEW s \in Bad PROVE \E t \in Bad : Cardinality(t) < Cardinality(s)
  <2>1. PICK y \in s : ~ Taken(s, y)
    OBVIOUS
  <2>. DEFINE c == AnyOf(s)
  <2>2. s \in SUBSET DOMAIN f /\ c \in s
    BY <2>1, AnyIn
  <2>3. Taken(s, c)
    BY <1>1, <2>2, IterMeans
  <2>. HIDE DEF c
  <2>. DEFINE u == s \ {c}
              v == s \ {y}
              w == s \ {c, y}
  <2>4. /\ u \in SUBSET DOMAIN f /\ Cardinality(u) < Cardinality(s)
        /\ v \in SUBSET DOMAIN f /\ Cardinality(v) < Cardinality(s)
    <3>1. u \in SUBSET DOMAIN f /\ Cardinality(u) \in Nat /\ Cardinality(u) + 1 = Cardinality(s)
      BY <1>1, <2>2, Smaller
    <3>2. v \in SUBSET DOMAIN f /\ Cardinality(v) \in Nat /\ Cardinality(v) + 1 = Cardinality(s)
      BY <1>1, <2>1, <2>2, Smaller
    <3>. QED
      BY <3>1, <3>2
  <2>5. y # c /\ y \in u /\ c \in v /\ u \ {y} = w /\ v \ {c} = w /\ w \in SUBSET DOMAIN f
    BY <2>1, <2>2, <2>3
  <2>6. ~ (Taken(u, y) /\ Taken(v, c))
    <3>. SUFFICES ASSUME Taken(u, y), Taken(v, c) PROVE FALSE
      OBVIOUS
    <3>1. /\ Iter(f)[u] = f[y] + Iter(f)[w] /\ Iter(f)[v] = f[c] + Iter(f)[w]
          /\ Iter(f)[s] = f[c] + Iter(f)[u] /\ Iter(f)[s] # f[y] + Iter(f)[v]
      BY <2>1, <2>3, <2>5
    <3>2. f[y] \in Int /\ f[c] \in Int /\ Iter(f)[w] \in Int
      BY <1>1, <2>1, <2>2, <2>5, IterNumber
    <3>. HIDE DEF u, v, w
    <3>. QED
      BY <3>1, <3>2
  <2>7. u \in Bad \/ v \in Bad
    <3>. HIDE DEF Taken, u, v
    <3>. QED
      BY <2>4, <2>5, <2>6
  <2>. HIDE DEF u, v, Bad
  <2>. QED
    BY <2>4, <2>7
<1>3. Bad \in SUBSET (SUBSET DOMAIN f)
  OBVIOUS
<1>4. Bad = {}
  <2>. HIDE DEF Bad
  <2>. QED
    BY <1>1, <1>2, <1>3, BySize
<1>. QED
  BY <1>4

\* Functions that agree on a set have the same sum over it.
LEMMA IterSame ==
  ASSUME NEW f, Numbers(f), NEW h, Numbers(h), NEW D, D \subseteq DOMAIN f, D \subseteq DOMAIN h,
         \A x \in D : f[x] = h[x]
  PROVE  \A s \in SUBSET D : Iter(f)[s] = Iter(h)[s]
<1>. DEFINE Bad == {s \in SUBSET D : Iter(f)[s] # Iter(h)[s]}
<1>1. IsFiniteSet(DOMAIN f) /\ IsFiniteSet(DOMAIN h) /\ IsFiniteSet(D)
  BY FS_Subset DEF Numbers
<1>2. ASSUME NEW s \in Bad PROVE \E t \in Bad : Cardinality(t) < Cardinality(s)
  <2>1. s \in SUBSET D /\ s # {} /\ Iter(f)[s] # Iter(h)[s]
    BY <1>1, IterMeans
  <2>. DEFINE x == AnyOf(s)
              t == s \ {x}
  <2>2. x \in s /\ x \in D
    BY <2>1, AnyIn
  <2>3. Iter(f)[s] = f[x] + Iter(f)[t] /\ Iter(h)[s] = h[x] + Iter(h)[t]
    BY <1>1, <2>1, IterMeans
  <2>. HIDE DEF x
  <2>4. t \in SUBSET D /\ Cardinality(t) \in Nat /\ Cardinality(t) + 1 = Cardinality(s)
    BY <1>1, <2>1, <2>2, Smaller
  <2>5. t \in Bad /\ Cardinality(t) < Cardinality(s)
    BY <2>1, <2>2, <2>3, <2>4
  <2>. QED
    BY <2>5
<1>3. Bad \in SUBSET (SUBSET D)
  OBVIOUS
<1>4. Bad = {}
  <2>. HIDE DEF Bad
  <2>. QED
    BY <1>1, <1>2, <1>3, BySize
<1>. QED
  BY <1>4

-----------------------------------------------------------------------------
(* What sums are used for.                                                     *)

\* Sums of numbers are numbers.
LEMMA SumNumber == ASSUME NEW f, Numbers(f) PROVE Sum(f) \in Int
BY SumIsIter, IterNumber

\* One term can be taken out.
LEMMA SumTakes ==
  ASSUME NEW f, Numbers(f), NEW y \in DOMAIN f, NEW h, h = [x \in DOMAIN f \ {y} |-> f[x]]
  PROVE  Numbers(h) /\ Sum(f) = f[y] + Sum(h)
<1>. DEFINE D == DOMAIN f \ {y}
<1>1. IsFiniteSet(DOMAIN f) /\ IsFiniteSet(D) /\ DOMAIN h = D
  BY FS_Subset DEF Numbers
<1>2. Numbers(h) /\ \A x \in D : f[x] = h[x]
  BY <1>1 DEF Numbers
<1>3. Iter(f)[D] = Iter(h)[D]
  BY <1>1, <1>2, IterSame
<1>4. Iter(f)[DOMAIN f] = f[y] + Iter(f)[D]
  BY IterTakes
<1>. QED
  BY <1>1, <1>2, <1>3, <1>4, SumIsIter

\* The same number of each of C, and nothing of the others.
LEMMA SumOfSame ==
  ASSUME NEW f, Numbers(f), NEW C \in SUBSET DOMAIN f, NEW c \in Int,
         \A x \in DOMAIN f : f[x] = IF x \in C THEN c ELSE 0
  PROVE  Sum(f) = c * Cardinality(C)
<1>. DEFINE Bad == {s \in SUBSET DOMAIN f : Iter(f)[s] # c * Cardinality(s \cap C)}
<1>1. IsFiniteSet(DOMAIN f) /\ \A s \in SUBSET DOMAIN f : IsFiniteSet(s \cap C) /\ Cardinality(s \cap C) \in Nat
  BY FS_Subset, FS_CardinalityType DEF Numbers
<1>2. ASSUME NEW s \in Bad PROVE \E t \in Bad : Cardinality(t) < Cardinality(s)
  <2>1. s \in SUBSET DOMAIN f /\ Iter(f)[s] # c * Cardinality(s \cap C)
    OBVIOUS
  <2>2. s # {}
    <3>. SUFFICES ASSUME s = {} PROVE FALSE
      OBVIOUS
    <3>1. Iter(f)[s] = 0 /\ Cardinality(s \cap C) = 0
      BY <1>1, IterMeans, FS_EmptySet
    <3>. QED
      BY <2>1, <3>1
  <2>. DEFINE x == AnyOf(s)
              t == s \ {x}
  <2>3. x \in s /\ x \in DOMAIN f
    BY <2>1, <2>2, AnyIn
  <2>4. Iter(f)[s] = f[x] + Iter(f)[t]
    BY <1>1, <2>1, <2>2, IterMeans
  <2>. HIDE DEF x
  <2>5. t \in SUBSET DOMAIN f /\ Cardinality(t) \in Nat /\ Cardinality(t) + 1 = Cardinality(s)
    BY <1>1, <2>1, <2>3, Smaller
  <2>6. Cardinality(s \cap C) = Cardinality(t \cap C) + (IF x \in C THEN 1 ELSE 0)
    <3>1. CASE x \in C
      <4>1. s \cap C = (t \cap C) \cup {x} /\ x \notin t \cap C
        BY <2>3, <3>1
      <4>2. IsFiniteSet(t \cap C)
        BY <1>1, <2>5
      <4>. HIDE DEF t
      <4>. QED
        BY <3>1, <4>1, <4>2, FS_AddElement
    <3>2. CASE x \notin C
      <4>1. s \cap C = t \cap C
        BY <3>2
      <4>2. Cardinality(t \cap C) \in Nat
        BY <1>1, <2>5
      <4>. HIDE DEF t
      <4>. QED
        BY <3>2, <4>1, <4>2
    <3>. QED
      BY <3>1, <3>2
  <2>7. Iter(f)[t] # c * Cardinality(t \cap C)
    <3>. SUFFICES ASSUME Iter(f)[t] = c * Cardinality(t \cap C) PROVE FALSE
      OBVIOUS
    <3>1. Cardinality(t \cap C) \in Nat /\ f[x] = IF x \in C THEN c ELSE 0
      BY <1>1, <2>3, <2>5
    <3>. DEFINE n == Cardinality(t \cap C)
    <3>2. c * (n + 1) = c + c * n /\ c * n = 0 + c * n
      BY <3>1
    <3>. HIDE DEF n
    <3>3. Iter(f)[s] = c * (n + IF x \in C THEN 1 ELSE 0)
      BY <2>4, <3>1, <3>2 DEF n
    <3>. QED
      BY <2>1, <2>6, <3>3 DEF n
  <2>8. t \in Bad /\ Cardinality(t) < Cardinality(s)
    BY <2>5, <2>7
  <2>. QED
    BY <2>8
<1>3. Bad \in SUBSET (SUBSET DOMAIN f)
  OBVIOUS
<1>4. Bad = {}
  <2>. HIDE DEF Bad
  <2>. QED
    BY <1>1, <1>2, <1>3, BySize
<1>5. DOMAIN f \in SUBSET DOMAIN f /\ DOMAIN f \cap C = C
  OBVIOUS
<1>6. Iter(f)[DOMAIN f] = c * Cardinality(DOMAIN f \cap C)
  BY <1>4, <1>5
<1>. QED
  BY <1>5, <1>6, SumIsIter

\* Sums do not depend on the names of the terms.
LEMMA SumRenamed ==
  ASSUME NEW f, Numbers(f), NEW A, IsFiniteSet(A), NEW b \in Bijection(A, DOMAIN f),
         NEW h, h = [a \in A |-> f[b[a]]]
  PROVE  Sum(h) = Sum(f)
<1>. DEFINE Im(s) == {b[a] : a \in s}
            Bad == {s \in SUBSET A : Iter(h)[s] # Iter(f)[Im(s)]}
<1>1. /\ b \in [A -> DOMAIN f] /\ \A x, y \in A : b[x] = b[y] => x = y
      /\ \A z \in DOMAIN f : \E x \in A : b[x] = z
  BY Fun_IsBij DEF Bijection, Injection, Surjection, IsInjective
<1>2. Numbers(h) /\ DOMAIN h = A /\ IsFiniteSet(DOMAIN f)
  BY <1>1 DEF Numbers
<1>3. ASSUME NEW s \in Bad PROVE \E t \in Bad : Cardinality(t) < Cardinality(s)
  <2>1. s \in SUBSET A /\ Iter(h)[s] # Iter(f)[Im(s)]
    OBVIOUS
  <2>2. s # {}
    <3>1. s = {} => Im(s) = {}
      OBVIOUS
    <3>. HIDE DEF Im
    <3>. QED
      BY <1>2, <2>1, <3>1, IterMeans
  <2>. DEFINE x == AnyOf(s)
              t == s \ {x}
  <2>3. x \in s /\ x \in A
    BY <2>1, <2>2, AnyIn
  <2>4. Iter(h)[s] = h[x] + Iter(h)[t]
    BY <1>2, <2>1, <2>2, IterMeans
  <2>. HIDE DEF x
  <2>5. t \in SUBSET A /\ Cardinality(t) \in Nat /\ Cardinality(t) + 1 = Cardinality(s)
    BY <2>1, <2>3, Smaller
  <2>6. Im(s) \in SUBSET DOMAIN f /\ b[x] \in Im(s) /\ Im(s) \ {b[x]} = Im(t)
    BY <1>1, <2>1, <2>3
  <2>7. Iter(f)[Im(s)] = f[b[x]] + Iter(f)[Im(t)]
    <3>1. \A u \in SUBSET DOMAIN f : \A y \in u : Iter(f)[u] = f[y] + Iter(f)[u \ {y}]
      BY IterTakes
    <3>. HIDE DEF Im
    <3>2. Iter(f)[Im(s)] = f[b[x]] + Iter(f)[Im(s) \ {b[x]}]
      BY <2>6, <3>1
    <3>. QED
      BY <2>6, <3>2
  <2>8. h[x] = f[b[x]]
    BY <2>3
  <2>9. t \in Bad /\ Cardinality(t) < Cardinality(s)
    <3>. HIDE DEF Im
    <3>. QED
      BY <2>1, <2>4, <2>5, <2>7, <2>8
  <2>. QED
    BY <2>9
<1>4. Bad \in SUBSET (SUBSET A)
  OBVIOUS
<1>5. Bad = {}
  <2>. HIDE DEF Bad
  <2>. QED
    BY <1>3, <1>4, BySize
<1>6. Im(A) = DOMAIN f /\ A \in SUBSET A
  BY <1>1
<1>7. Iter(h)[A] = Iter(f)[Im(A)]
  BY <1>5, <1>6
<1>. QED
  BY <1>2, <1>6, <1>7, SumIsIter

\* Counted by what h says of its members, a set has all its members.
LEMMA SumOfFibres ==
  ASSUME NEW X, IsFiniteSet(X), NEW P, IsFiniteSet(P), NEW h, \A x \in X : h[x] \in P,
         NEW f, f = [p \in P |-> Cardinality({x \in X : h[x] = p})]
  PROVE  Sum(f) = Cardinality(X)
<1>. DEFINE Of(Q) == {x \in X : h[x] \in Q}
            At(p) == {x \in X : h[x] = p}
            Bad == {Q \in SUBSET P : Iter(f)[Q] # Cardinality(Of(Q))}
<1>1. /\ \A Q : IsFiniteSet(Of(Q)) /\ Cardinality(Of(Q)) \in Nat
      /\ \A p : IsFiniteSet(At(p)) /\ Cardinality(At(p)) \in Nat
  <2>1. (\A Q : Of(Q) \in SUBSET X) /\ \A p : At(p) \in SUBSET X
    OBVIOUS
  <2>. HIDE DEF Of, At
  <2>. QED
    BY <2>1, FS_Subset, FS_CardinalityType
<1>2. DOMAIN f = P /\ Numbers(f) /\ \A p \in P : f[p] = Cardinality(At(p))
  <2>1. DOMAIN f = P /\ \A p \in P : f[p] = Cardinality(At(p))
    OBVIOUS
  <2>. HIDE DEF At
  <2>. QED
    BY <1>1, <2>1 DEF Numbers
<1>3. ASSUME NEW Q \in Bad PROVE \E t \in Bad : Cardinality(t) < Cardinality(Q)
  <2>1. Q \in SUBSET P /\ Iter(f)[Q] # Cardinality(Of(Q))
    OBVIOUS
  <2>2. Q # {}
    <3>1. Q = {} => Of(Q) = {}
      OBVIOUS
    <3>. HIDE DEF Of
    <3>. QED
      BY <1>2, <2>1, <3>1, IterMeans, FS_EmptySet
  <2>. DEFINE p == AnyOf(Q)
              t == Q \ {p}
  <2>3. p \in Q /\ p \in P
    BY <2>1, <2>2, AnyIn
  <2>4. Iter(f)[Q] = f[p] + Iter(f)[t]
    BY <1>2, <2>1, <2>2, IterMeans
  <2>. HIDE DEF p
  <2>5. t \in SUBSET P /\ Cardinality(t) \in Nat /\ Cardinality(t) + 1 = Cardinality(Q)
    BY <2>1, <2>3, Smaller
  <2>6. Of(Q) = Of(t) \cup At(p) /\ Of(t) \cap At(p) = {}
    BY <2>3
  <2>7. Cardinality(Of(Q)) = Cardinality(Of(t)) + Cardinality(At(p))
    <3>. HIDE DEF Of, At
    <3>1. Cardinality(Of(t) \cup At(p)) = Cardinality(Of(t)) + Cardinality(At(p)) - Cardinality(Of(t) \cap At(p))
      BY <1>1, FS_Union
    <3>2. Cardinality(Of(t) \cap At(p)) = 0
      BY <2>6, FS_EmptySet
    <3>. QED
      BY <1>1, <2>6, <3>1, <3>2
  <2>8. t \in Bad /\ Cardinality(t) < Cardinality(Q)
    <3>1. f[p] = Cardinality(At(p)) /\ f[p] \in Int
      <4>. HIDE DEF At
      <4>. QED
        BY <1>1, <1>2, <2>3
    <3>. HIDE DEF Of, At
    <3>. QED
      BY <1>1, <2>1, <2>4, <2>5, <2>7, <3>1
  <2>. QED
    BY <2>8
<1>4. Bad \in SUBSET (SUBSET P)
  OBVIOUS
<1>5. Bad = {}
  <2>. HIDE DEF Bad
  <2>. QED
    BY <1>3, <1>4, BySize
<1>6. Of(P) = X /\ P \in SUBSET P
  OBVIOUS
<1>7. Iter(f)[P] = Cardinality(Of(P))
  BY <1>5, <1>6
<1>. QED
  BY <1>2, <1>6, <1>7, SumIsIter

-----------------------------------------------------------------------------
(* Cursor's usage.                                                             *)

UsageIds    == ({"summary"} \X Nat \X Bucket \X Nat) \cup ({"daily"} \X Nat \X Model \X Nat)
               \cup ({"legacy"} \X Nat \X Bucket \X Nat)
UsageEvents == [id : UsageIds, at : Nat, cost : Int]
DayEntries  == [day : Nat, model : Model, cost : Nat, dated : BOOLEAN]

\* The events a refresh has made are as many as it reports and cost what it reports,
\* have ids of their own and lie in the past; a team's are known by their ids.
Reading(p) ==
  /\ p.step = "store" /\ p.events \in Seq(UsageEvents)
  /\ p.count = Len(p.events) /\ p.bill = Costs(p.events)
  /\ \A i \in DOMAIN p.events : p.events[i].at <= now
  /\ \A i, j \in DOMAIN p.events : p.events[i].id = p.events[j].id => i = j
  /\ p.entries \in Seq(UsageIds)
  /\ account = "team" => p.entries = [i \in DOMAIN p.events |-> p.events[i].id]

UsageTypeOK ==
  /\ now \in Nat /\ used \in [Bucket -> Nat] /\ owed \in Nat /\ (used[OnDemand] = 0 => owed = 0)
  /\ days \in Seq(DayEntries) /\ \A i \in DOMAIN days : days[i].day * UsageDay <= now
  /\ \/ probe = Idle
     \/ probe \in [step : {"summary", "daily", "legacy"}, now : Nat] /\ probe.now <= now
     \/ Reading(probe)
  /\ rows \subseteq UsageEvents
  /\ last.entries \in Seq(UsageIds) /\ last.inOrder \in BOOLEAN

UsageInv == UsageTypeOK /\ CountStored /\ CostStored /\ DailyOnce /\ NotAhead

-----------------------------------------------------------------------------
\* The lesser of two numbers.
LEMMA LeastMeans ==
  ASSUME NEW a \in Nat, NEW b \in Nat
  PROVE  Least(a, b) \in Nat /\ Least(a, b) <= a /\ Least(a, b) <= b /\ Least(a, b) \in {a, b}
<1>1. {a, b} \in SUBSET Nat /\ {a, b} # {}
  OBVIOUS
<1>2. Min({a, b}) \in {a, b} /\ \A y \in {a, b} : Min({a, b}) <= y
  BY <1>1, LeastOf
<1>. QED
  BY <1>2 DEF Least

\* The quotient of a division.
LEMMA DivMeans ==
  ASSUME NEW x \in Nat, NEW d \in Nat \ {0}
  PROVE  x \div d \in Nat /\ d * (x \div d) <= x /\ x < d * (x \div d) + d
OBVIOUS

\* The middle of a part of the time until t is not after t.
LEMMA StampInPast ==
  ASSUME NEW t \in Nat, NEW n \in Nat \ {0}, NEW i \in 1 .. n
  PROVE  Stamp(t, n, i) \in Nat /\ Stamp(t, n, i) <= t
<1>. DEFINE x == t * (2 * i - 1) + n
            d == 2 * n
            q == x \div d
<1>1. x \in Nat /\ d \in Nat \ {0}
  <2>1. 2 * i - 1 \in Nat
    OBVIOUS
  <2>2. t * (2 * i - 1) \in Nat
    BY <2>1
  <2>. QED
    BY <2>2
<1>2. x < d * (t + 1)
  <2>1. t * (2 * i - 1) <= t * (2 * n - 1)
    <3>1. 2 * i - 1 \in Nat /\ 2 * n - 1 \in Nat /\ 2 * i - 1 <= 2 * n - 1
      OBVIOUS
    <3>2. \A k, m \in Nat : k <= m => t * k <= t * m
      OBVIOUS
    <3>. QED
      BY <3>1, <3>2
  <2>2. t * (2 * n - 1) = d * t - t
    OBVIOUS
  <2>3. d * (t + 1) = d * t + d
    OBVIOUS
  <2>. QED
    BY <2>1, <2>2, <2>3
<1>3. q \in Nat /\ d * q <= x
  BY <1>1, DivMeans
<1>4. q <= t
  <2>. SUFFICES ASSUME t + 1 <= q PROVE FALSE
    BY <1>3
  <2>1. d * (t + 1) <= d * q
    BY <1>1, <1>3
  <2>. QED
    BY <1>1, <1>2, <1>3, <2>1
<1>. QED
  BY <1>3, <1>4 DEF Stamp

\* A set of positions has an n-th one, for each n up to its size.
LEMMA NthOf ==
  ASSUME NEW k \in Nat, NEW S, \A j \in S : j \in Nat /\ 1 <= j /\ j <= k,
         NEW n \in Nat \ {0}, n <= Cardinality(S)
  PROVE  \E i \in S : Cardinality({j \in S : j <= i}) = n
<1>. DEFINE upTo(i) == {j \in S : j <= i}
            T == {i \in 1 .. k : Cardinality(upTo(i)) >= n}
<1>1. IsFiniteSet(S) /\ \A i : upTo(i) \in SUBSET S
  <2>1. S \in SUBSET Nat
    OBVIOUS
  <2>. QED
    BY <2>1, FS_BoundedSetOfNaturals
<1>2. \A i : IsFiniteSet(upTo(i)) /\ Cardinality(upTo(i)) \in Nat
  <2>. HIDE DEF upTo
  <2>. QED
    BY <1>1, FS_Subset, FS_CardinalityType
<1>3. S # {}
  BY FS_EmptySet
<1>4. k \in T
  <2>1. upTo(k) = S /\ k \in 1 .. k
    BY <1>3
  <2>. QED
    BY <2>1
<1>. HIDE DEF T
<1>5. T \in SUBSET Nat /\ T # {}
  BY <1>4 DEF T
<1>. DEFINE m == Min(T)
<1>6. m \in T /\ \A y \in T : m <= y
  BY <1>5, LeastOf
<1>. HIDE DEF m
<1>7. m \in 1 .. k /\ Cardinality(upTo(m)) >= n /\ m - 1 \notin T
  BY <1>6 DEF T
<1>8. Cardinality(upTo(m - 1)) < n
  <2>1. CASE m = 1
    <3>1. upTo(m - 1) = {}
      BY <2>1
    <3>. QED
      BY <3>1, FS_EmptySet
  <2>2. CASE m # 1
    <3>1. m - 1 \in 1 .. k
      BY <1>7, <2>2
    <3>2. ~ (Cardinality(upTo(m - 1)) >= n)
      BY <1>7, <3>1 DEF T
    <3>3. Cardinality(upTo(m - 1)) \in Nat
      BY <1>2
    <3>. HIDE DEF upTo
    <3>. QED
      BY <3>2, <3>3
  <2>. QED
    BY <2>1, <2>2
<1>9. m \in S
  <2>. SUFFICES ASSUME m \notin S PROVE FALSE
    OBVIOUS
  <2>1. upTo(m) = upTo(m - 1)
    BY <1>7
  <2>2. Cardinality(upTo(m)) \in Nat
    BY <1>2
  <2>. HIDE DEF upTo
  <2>. QED
    BY <1>7, <1>8, <2>1, <2>2
<1>10. upTo(m) = upTo(m - 1) \cup {m} /\ m \notin upTo(m - 1)
  <2>1. m \in Nat
    BY <1>7
  <2>2. \A j \in S : j <= m <=> j <= m - 1 \/ j = m
    BY <2>1
  <2>3. ~ (m <= m - 1)
    BY <2>1
  <2>. QED
    BY <1>9, <2>2, <2>3
<1>11. Cardinality(upTo(m)) = Cardinality(upTo(m - 1)) + 1
  <2>1. IsFiniteSet(upTo(m - 1))
    BY <1>2
  <2>. HIDE DEF upTo
  <2>. QED
    BY <1>10, <2>1, FS_AddElement
<1>12. Cardinality(upTo(m)) = n
  <2>1. Cardinality(upTo(m - 1)) \in Nat
    BY <1>2
  <2>. HIDE DEF upTo
  <2>. QED
    BY <1>7, <1>8, <1>11, <2>1
<1>. QED
  BY <1>9, <1>12

\* The n-th filled entry of a team's days is one of them.
LEMMA NthFilled ==
  ASSUME UsageTypeOK, NEW n \in Nat \ {0}, n <= Cardinality(Filled)
  PROVE  Nth(n) \in DayEntries /\ Nth(n).day * UsageDay <= now
<1>1. Len(days) \in Nat /\ DOMAIN days = 1 .. Len(days) /\ Filled \subseteq DOMAIN days
      /\ \A i \in Filled : i \in Nat /\ 1 <= i /\ i <= Len(days)
  BY DEF UsageTypeOK, Filled
<1>2. \E i \in Filled : Cardinality({j \in Filled : j <= i}) = n
  BY <1>1, NthOf
<1>3. PICK i \in Filled : Nth(n) = days[i]
  BY <1>2 DEF Nth
<1>. QED
  BY <1>1, <1>3 DEF UsageTypeOK

-----------------------------------------------------------------------------
(* What a split comes to.                                                      *)

\* The events of the plan cost nothing, those on demand their shares.
SplitOf(f, a, n, cost) ==
  /\ DOMAIN f = 1 .. a + n
  /\ \A i \in 1 .. a : f[i] = 0
  /\ \A i \in 1 .. a + n : ~ (i <= a) => f[i] = Share(n, i - a, cost)

LEMMA SharesAddUp ==
  ASSUME NEW a \in Nat, NEW n \in Nat, NEW cost \in Nat, n = 0 => cost = 0,
         NEW f, SplitOf(f, a, n, cost)
  PROVE  Sum(f) = cost
<1>. USE DEF SplitOf
<1>1. IsFiniteSet(1 .. a + n)
  BY FS_Interval
<1>2. CASE n = 0
  <2>1. \A i \in DOMAIN f : f[i] = 0
    BY <1>2
  <2>2. Numbers(f) /\ {} \in SUBSET DOMAIN f /\ \A i \in DOMAIN f : f[i] = IF i \in {} THEN 0 ELSE 0
    BY <1>1, <2>1 DEF Numbers
  <2>3. Sum(f) = 0 * Cardinality({})
    BY <2>2, SumOfSame
  <2>. QED
    BY <1>2, <2>3, FS_EmptySet
<1>3. CASE n # 0
  <2>quotient. PICK q : q = cost \div n
    OBVIOUS
  <2>rest. PICK rest : rest = cost % n
    OBVIOUS
  <2>. DEFINE C == a + 1 .. a + n - 1
              h == [i \in DOMAIN f \ {a + n} |-> f[i]]
  <2>1. q \in Nat /\ rest \in Nat /\ q * (n - 1) + (q + rest) = cost
    <3>1. n > 0
      BY <1>3
    <3>2. cost \div n \in Nat
      BY <3>1
    <3>3. cost % n \in Nat
      BY <3>1
    <3>4. cost % n = cost - n * (cost \div n)
      BY <3>1
    <3>5. q \in Nat /\ rest \in Nat /\ rest = cost - n * q
      BY <2>quotient, <2>rest, <3>2, <3>3, <3>4
    <3>6. \A x, y \in Int : x * y = x * (y - 1) + x
      OBVIOUS
    <3>7. \A x, y \in Int : x * y = y * x /\ x * y \in Int
      OBVIOUS
    <3>8. q * n = q * (n - 1) + q /\ n * q = q * n /\ n * q \in Int /\ q * (n - 1) \in Int
      BY <3>5, <3>6, <3>7
    <3>. QED
      BY <3>5, <3>8
  <2>2. \A i \in 1 .. a + n : f[i] = IF i <= a THEN 0 ELSE IF i = a + n THEN q + rest ELSE q
    BY <1>3, <2>quotient, <2>rest DEF Share
  <2>3. Numbers(f) /\ a + n \in DOMAIN f
    BY <1>1, <1>3, <2>1, <2>2 DEF Numbers
  <2>4. Numbers(h) /\ Sum(f) = f[a + n] + Sum(h)
    <3>. HIDE DEF h
    <3>. QED
      BY <2>3, SumTakes DEF h
  <2>5. C \in SUBSET DOMAIN h /\ \A i \in DOMAIN h : h[i] = IF i \in C THEN q ELSE 0
    BY <1>3, <2>2
  <2>6. Sum(h) = q * Cardinality(C)
    <3>. HIDE DEF h, C
    <3>. QED
      BY <2>1, <2>4, <2>5, SumOfSame
  <2>7. Cardinality(C) = n - 1
    <3>1. a + 1 \in Int /\ a + n - 1 \in Int /\ a + 1 <= a + n
      BY <1>3
    <3>. QED
      BY <1>3, <3>1, FS_Interval
  <2>8. f[a + n] = q + rest
    BY <1>3, <2>2
  <2>9. Sum(f) = (q + rest) + q * (n - 1)
    BY <2>4, <2>6, <2>7, <2>8
  <2>10. q * (n - 1) \in Int
    BY <2>1
  <2>. QED
    BY <2>1, <2>9, <2>10
<1>. QED
  BY <1>2, <1>3

\* What is made of a count: an event for each, of its bucket and under its number.
LEMMA CountedEvents ==
  ASSUME UsageTypeOK, NEW t \in Nat, t <= now, NEW b \in Bucket, NEW cost \in Nat
  PROVE  LET e == EventsFromCount(t, b, cost) IN
           /\ e \in Seq(UsageEvents) /\ Len(e) = Least(used[b], Cap)
           /\ \A i \in 1 .. Len(e) : /\ e[i].at <= now /\ e[i].id[3] = b /\ e[i].id[4] = i
                                     /\ e[i].cost = Share(Least(used[b], Cap), i, cost)
<1>. DEFINE n == Least(used[b], Cap)
            e == EventsFromCount(t, b, cost)
<1>1. n \in Nat /\ UsageDay \in Nat \ {0}
  BY LeastMeans, CursorAssumption DEF UsageTypeOK
<1>2. e = [i \in 1 .. n |-> CountEvent(t, b, n, i, cost)]
  BY DEF EventsFromCount
<1>. HIDE DEF n, e
<1>3. ASSUME NEW i \in 1 .. n
      PROVE  /\ CountEvent(t, b, n, i, cost) \in UsageEvents /\ CountEvent(t, b, n, i, cost).at <= now
             /\ CountEvent(t, b, n, i, cost).id[3] = b /\ CountEvent(t, b, n, i, cost).id[4] = i
             /\ CountEvent(t, b, n, i, cost).cost = Share(n, i, cost)
  <2>. DEFINE s == Stamp(t, n, i)
  <2>1. n \in Nat \ {0} /\ i \in Nat
    BY <1>1
  <2>2. s \in Nat /\ s <= t
    BY <2>1, StampInPast
  <2>. HIDE DEF s
  <2>3. DayOf(s) \in Nat
    BY <1>1, <2>2, DivMeans DEF DayOf
  <2>4. Share(n, i, cost) \in Int
    BY <2>1 DEF Share
  <2>5. CountEvent(t, b, n, i, cost) = [id |-> <<"summary", DayOf(s), b, i>>, at |-> s, cost |-> Share(n, i, cost)]
    BY DEF CountEvent, s
  <2>6. <<"summary", DayOf(s), b, i>> \in UsageIds
    BY <2>1, <2>3 DEF UsageIds
  <2>. QED
    BY <2>2, <2>4, <2>5, <2>6 DEF UsageEvents, UsageTypeOK
<1>. DEFINE ev(i) == CountEvent(t, b, n, i, cost)
<1>. HIDE DEF ev
<1>4. \A i \in 1 .. n : ev(i) \in UsageEvents /\ ev(i).at <= now /\ ev(i).id[3] = b /\ ev(i).id[4] = i
                        /\ ev(i).cost = Share(n, i, cost)
  BY <1>3 DEF ev
<1>5. e = [i \in 1 .. n |-> ev(i)]
  BY <1>2 DEF ev
<1>6. e \in Seq(UsageEvents) /\ Len(e) = n
  BY <1>1, <1>4, <1>5
<1>. QED
  BY <1>1, <1>4, <1>5, <1>6 DEF n, e

\* Whatever a reading makes can be stored.
LEMMA ReadingMade ==
  ASSUME NEW events \in Seq(UsageEvents), NEW count, NEW cents, NEW entries \in Seq(UsageIds),
         count = Len(events), cents = Costs(events), \A i \in DOMAIN events : events[i].at <= now,
         \A i, j \in DOMAIN events : events[i].id = events[j].id => i = j,
         account = "team" => entries = [i \in DOMAIN events |-> events[i].id]
  PROVE  Reading(Made(events, count, cents, entries))
BY DEF Reading, Made

\* Only the refresh changes.
LEMMA ProbeStep ==
  ASSUME UsageInv, NEW p, To(p),
         p = Idle \/ (p \in [step : {"summary", "daily", "legacy"}, now : Nat] /\ p.now <= now) \/ Reading(p)
  PROVE  UsageInv'
<1>1. probe' = p /\ UNCHANGED <<account, now, used, owed, days, rows, last, reads>>
  BY DEF To
<1>2. UsageTypeOK'
  BY <1>1 DEF UsageInv, UsageTypeOK, Reading
<1>3. CountStored' /\ CostStored' /\ DailyOnce' /\ NotAhead'
  BY <1>1 DEF UsageInv, CountStored, CostStored, Stored, DailyOnce, NotAhead
<1>. QED
  BY <1>2, <1>3 DEF UsageInv

\* What the account does leaves the stored rows and the reading alone.
LEMMA AccountStep ==
  ASSUME UsageInv, UNCHANGED <<account, probe, rows, last>>, now' \in Nat, now <= now',
         used' \in [Bucket -> Nat], owed' \in Nat, days' \in Seq(DayEntries),
         \A i \in DOMAIN days' : days'[i].day * UsageDay <= now',
         used'[OnDemand] = 0 => owed' = 0
  PROVE  UsageInv'
<1>1. now \in Nat /\ rows \subseteq UsageEvents /\ \A r \in rows : r.at \in Nat
  BY DEF UsageInv, UsageTypeOK, UsageEvents
<1>2. Reading(probe) => Reading(probe)'
  <2>. SUFFICES ASSUME Reading(probe) PROVE Reading(probe)'
    OBVIOUS
  <2>. DEFINE made == probe.events
  <2>0. made \in Seq(UsageEvents)
    BY DEF Reading
  <2>. HIDE DEF made
  <2>types. \A i \in DOMAIN made : made[i] \in UsageEvents
    BY <2>0
  <2>1. \A i \in DOMAIN probe.events : probe.events[i].at \in Nat
    BY <2>types DEF made, UsageEvents
  <2>2. \A i \in DOMAIN probe.events : probe.events[i].at <= now'
    BY <1>1, <2>1 DEF Reading
  <2>. QED
    BY <2>2 DEF Reading
<1>3. UsageTypeOK'
  <2>1. probe \in [step : {"summary", "daily", "legacy"}, now : Nat] /\ probe.now <= now
          => probe.now <= now'
    BY <1>1
  <2>. QED
    BY <1>2, <2>1 DEF UsageInv, UsageTypeOK
<1>4. CountStored' /\ CostStored' /\ DailyOnce' /\ NotAhead'
  BY <1>1 DEF UsageInv, CountStored, CostStored, Stored, DailyOnce, NotAhead
<1>. QED
  BY <1>3, <1>4 DEF UsageInv

\* Steps of the account and of the clock.
LEMMA MakeRequestStep == ASSUME UsageInv, NEW b \in Bucket, MakeRequest(b) PROVE UsageInv'
<1>1. UNCHANGED <<account, now, days, probe, rows, last>>
  BY DEF MakeRequest
<1>2. used' \in [Bucket -> Nat] /\ owed' \in Nat /\ (used'[OnDemand] = 0 => owed' = 0)
  BY DEF MakeRequest, UsageInv, UsageTypeOK, Bucket, OnDemand
<1>. QED
  BY <1>1, <1>2, AccountStep DEF UsageInv, UsageTypeOK

\* Today began in the past.
LEMMA TodayPast == ASSUME UsageInv PROVE DayOf(now) \in Nat /\ DayOf(now) * UsageDay <= now
<1>1. now \in Nat /\ UsageDay \in Nat \ {0}
  BY CursorAssumption DEF UsageInv, UsageTypeOK
<1>2. now \div UsageDay \in Nat /\ UsageDay * (now \div UsageDay) <= now
  BY <1>1, DivMeans
<1>. QED
  BY <1>1, <1>2 DEF DayOf

LEMMA NewEntryStep == ASSUME UsageInv, NewEntry PROVE UsageInv'
<1>1. UNCHANGED <<account, now, used, owed, probe, rows, last>>
  BY DEF NewEntry
<1>2. PICK m \in Model, cost \in 0 .. 1, dated \in BOOLEAN, i \in 1 .. Len(days) + 1 :
        days' = InsertAt(days, i, [day |-> DayOf(now), model |-> m, cost |-> cost, dated |-> dated])
  BY DEF NewEntry
<1>. DEFINE e == [day |-> DayOf(now), model |-> m, cost |-> cost, dated |-> dated]
            D == {d \in DayEntries : d.day * UsageDay <= now}
<1>3. e \in D
  BY TodayPast DEF DayEntries
<1>. HIDE DEF e
<1>4. Len(days) \in Nat /\ i \in Nat /\ 1 <= i /\ i <= Len(days) + 1
  BY DEF UsageInv, UsageTypeOK
<1>5. \A j \in 1 .. Len(days) : days[j] \in D
  BY DEF UsageInv, UsageTypeOK
<1>. HIDE DEF D
<1>6. SubSeq(days, 1, i - 1) \in Seq(D) /\ SubSeq(days, i, Len(days)) \in Seq(D)
  <2>1. (\A j \in 1 .. i - 1 : days[j] \in D) /\ i - 1 \in Int
    BY <1>4, <1>5
  <2>2. (\A j \in i .. Len(days) : days[j] \in D) /\ Len(days) \in Int
    BY <1>4, <1>5
  <2>. QED
    BY <1>4, <2>1, <2>2, SubSeqProperties
<1>7. <<e>> \in Seq(D)
  BY <1>3
<1>8. days' \in Seq(D)
  BY <1>2, <1>6, <1>7, ConcatProperties DEF InsertAt, e
<1>9. days' \in Seq(DayEntries) /\ \A j \in DOMAIN days' : days'[j].day * UsageDay <= now
  BY <1>8 DEF D
<1>. QED
  BY <1>1, <1>9, AccountStep DEF UsageInv, UsageTypeOK

LEMMA SpendMoreStep == ASSUME UsageInv, SpendMore PROVE UsageInv'
<1>1. UNCHANGED <<account, now, used, owed, probe, rows, last>>
  BY DEF SpendMore
<1>2. PICK i \in DOMAIN days : days' = [days EXCEPT ![i].cost = @ + 1]
  BY DEF SpendMore
<1>types. days \in Seq(DayEntries) /\ days[i] \in DayEntries
  BY DEF UsageInv, UsageTypeOK
<1>3. days[i] \in DayEntries /\ [days[i] EXCEPT !.cost = @ + 1] \in DayEntries
      /\ [days[i] EXCEPT !.cost = @ + 1].day = days[i].day
  BY <1>types DEF DayEntries
<1>4. days' \in Seq(DayEntries) /\ DOMAIN days' = DOMAIN days
      /\ \A j \in DOMAIN days : days'[j].day = days[j].day
  BY <1>2, <1>3, <1>types
<1>5. \A j \in DOMAIN days' : days'[j].day * UsageDay <= now'
  BY <1>1, <1>4 DEF UsageInv, UsageTypeOK
<1>. QED
  BY <1>1, <1>4, <1>5, AccountStep DEF UsageInv, UsageTypeOK

LEMMA LaterStep == ASSUME UsageInv, Later PROVE UsageInv'
<1>1. UNCHANGED <<account, used, owed, days, probe, rows, last>> /\ now' = now + 1 /\ now \in Nat
  BY DEF Later, UsageInv, UsageTypeOK
<1>2. UsageDay \in Nat
  BY CursorAssumption
<1>types. \A i \in DOMAIN days : days[i] \in DayEntries /\ days[i].day * UsageDay <= now
  BY DEF UsageInv, UsageTypeOK
<1>3. \A i \in DOMAIN days : days[i].day \in Nat /\ days[i].day * UsageDay <= now
  BY <1>types DEF DayEntries
<1>4. \A i \in DOMAIN days : days[i].day * UsageDay \in Nat
  BY <1>2, <1>3
<1>5. \A i \in DOMAIN days : days[i].day * UsageDay <= now + 1
  BY <1>1, <1>3, <1>4
<1>. QED
  BY <1>1, <1>5, AccountStep DEF UsageInv, UsageTypeOK

\* Steps of a refresh.
LEMMA RefreshStep == ASSUME UsageInv, Refresh PROVE UsageInv'
<1>1. /\ probe' = [step |-> "summary", now |-> now] /\ UNCHANGED <<account, now, used, owed, days, rows, last>>
      /\ now \in Nat
  BY DEF Refresh, UsageInv, UsageTypeOK
<1>2. UsageTypeOK'
  BY <1>1 DEF UsageInv, UsageTypeOK
<1>3. CountStored' /\ CostStored' /\ DailyOnce' /\ NotAhead'
  BY <1>1 DEF UsageInv, CountStored, CostStored, Stored, DailyOnce, NotAhead
<1>. QED
  BY <1>2, <1>3 DEF UsageInv

\* A refresh that has asked is not one that stores.
LEMMA Asking ==
  ASSUME UsageInv, probe.step \in {"summary", "daily", "legacy"}
  PROVE  probe \in [step : {"summary", "daily", "legacy"}, now : Nat] /\ probe.now <= now
BY DEF UsageInv, UsageTypeOK, Idle, Reading

\* The events of an individual's totals: none shares an id, they cost what is owed.
LEMMA SummaryStep == ASSUME UsageInv, Summary PROVE UsageInv'
<1>. DEFINE t == probe.now
            n == Least(used[1], Cap)
            k == Least(used[2], Cap)
            e1 == EventsFromCount(t, 1, 0)
            e2 == EventsFromCount(t, 2, owed)
            r == Made(e1 \o e2, n + k, owed, <<>>)
            next == [probe EXCEPT !.step = "daily"]
<1>1. probe \in [step : {"summary", "daily", "legacy"}, now : Nat] /\ t <= now /\ t \in Nat
  BY Asking DEF Summary
<1>2. (account = "individual" /\ To(r)) \/ To(next)
  BY DEF Summary, SummaryEvents, OnDemand
<1>3. CASE To(next)
  BY <1>1, <1>3, ProbeStep
<1>4. CASE account = "individual" /\ To(r)
  <2>1. used \in [Bucket -> Nat] /\ owed \in Nat /\ 1 \in Bucket /\ 2 \in Bucket /\ UsageTypeOK
    BY DEF UsageInv, UsageTypeOK, Bucket
  <2>2. /\ e1 \in Seq(UsageEvents) /\ Len(e1) = n
        /\ \A i \in 1 .. Len(e1) : e1[i].at <= now /\ e1[i].id[3] = 1 /\ e1[i].id[4] = i
                                  /\ e1[i].cost = Share(n, i, 0)
    BY <1>1, <2>1, CountedEvents
  <2>3. /\ e2 \in Seq(UsageEvents) /\ Len(e2) = k
        /\ \A i \in 1 .. Len(e2) : e2[i].at <= now /\ e2[i].id[3] = 2 /\ e2[i].id[4] = i
                                  /\ e2[i].cost = Share(k, i, owed)
    BY <1>1, <2>1, CountedEvents
  <2>. HIDE DEF e1, e2, n, k
  <2>. DEFINE all == e1 \o e2
  <2>4. /\ all \in Seq(UsageEvents) /\ Len(all) = Len(e1) + Len(e2) /\ DOMAIN all = 1 .. Len(all)
        /\ Len(e1) \in Nat /\ Len(e2) \in Nat
        /\ \A i \in 1 .. Len(all) : all[i] = IF i <= Len(e1) THEN e1[i] ELSE e2[i - Len(e1)]
    <3>0. e1 \in Seq(UsageEvents) /\ e2 \in Seq(UsageEvents)
      BY <2>2, <2>3
    <3>1. /\ all \in Seq(UsageEvents) /\ Len(all) = Len(e1) + Len(e2)
          /\ \A i \in 1 .. Len(e1) + Len(e2) : all[i] = IF i <= Len(e1) THEN e1[i] ELSE e2[i - Len(e1)]
      BY <3>0, ConcatProperties
    <3>2. Len(e1) \in Nat /\ Len(e2) \in Nat
      BY <2>2, <2>3
    <3>. HIDE DEF all
    <3>3. DOMAIN all = 1 .. Len(all)
      BY <3>1
    <3>. QED
      BY <3>1, <3>2, <3>3
  <2>. HIDE DEF all
  <2>5. \A i \in DOMAIN all :
          /\ all[i].at <= now
          /\ i <= Len(e1) => all[i].id[3] = 1 /\ all[i].id[4] = i
          /\ ~ (i <= Len(e1)) => all[i].id[3] = 2 /\ all[i].id[4] = i - Len(e1)
    <3>. SUFFICES ASSUME NEW i \in DOMAIN all
                  PROVE  /\ all[i].at <= now
                         /\ i <= Len(e1) => all[i].id[3] = 1 /\ all[i].id[4] = i
                         /\ ~ (i <= Len(e1)) => all[i].id[3] = 2 /\ all[i].id[4] = i - Len(e1)
      OBVIOUS
    <3>1. CASE i <= Len(e1)
      BY <2>2, <2>4, <3>1
    <3>2. CASE ~ (i <= Len(e1))
      <4>1. i - Len(e1) \in 1 .. Len(e2) /\ all[i] = e2[i - Len(e1)]
        BY <2>4, <3>2
      <4>. QED
        BY <2>3, <3>2, <4>1
    <3>. QED
      BY <3>1, <3>2
  <2>6. \A i, j \in DOMAIN all : all[i].id = all[j].id => i = j
    <3>. SUFFICES ASSUME NEW i \in DOMAIN all, NEW j \in DOMAIN all, all[i].id = all[j].id PROVE i = j
      OBVIOUS
    <3>1. i \in Nat /\ j \in Nat /\ Len(e1) \in Nat
      BY <2>4
    <3>2. all[i].id[3] = all[j].id[3] /\ all[i].id[4] = all[j].id[4]
      OBVIOUS
    <3>3. i <= Len(e1) <=> j <= Len(e1)
      BY <2>5, <3>2
    <3>. QED
      BY <2>5, <3>1, <3>2, <3>3
  <2>7. Reading(r)
    <3>1. Len(all) = n + k /\ <<>> \in Seq(UsageIds) /\ account # "team"
      BY <1>4, <2>2, <2>3, <2>4
    <3>2. Costs(all) = owed
      <4>. DEFINE f == [i \in DOMAIN all |-> all[i].cost]
      <4>1. n \in Nat /\ k \in Nat /\ (k = 0 => owed = 0) /\ Len(e1) = n /\ Len(e2) = k
        <5>1. used[1] \in Nat /\ used[2] \in Nat /\ Cap \in Nat \ {0} /\ (used[2] = 0 => owed = 0)
          BY <2>1, CursorAssumption DEF UsageTypeOK, OnDemand
        <5>2. Least(used[1], Cap) \in Nat /\ Least(used[2], Cap) \in Nat /\ Least(used[2], Cap) \in {used[2], Cap}
          BY <5>1, LeastMeans
        <5>3. Len(e1) = n /\ Len(e2) = k
          BY <2>2, <2>3
        <5>. QED
          BY <5>1, <5>2, <5>3 DEF n, k
      <4>2. DOMAIN f = 1 .. n + k
        BY <2>4, <4>1
      <4>3. ASSUME NEW i \in 1 .. n PROVE f[i] = 0
        <5>1. i \in DOMAIN all /\ all[i] = e1[i] /\ e1[i].cost = Share(n, i, 0)
          BY <2>2, <2>4, <4>1
        <5>2. 0 \div n = 0 /\ 0 % n = 0
          BY <4>1
        <5>. QED
          BY <5>1, <5>2 DEF Share
      <4>4. ASSUME NEW i \in 1 .. n + k, ~ (i <= n) PROVE f[i] = Share(k, i - n, owed)
        <5>1. i \in DOMAIN all /\ i - n \in 1 .. k /\ all[i] = e2[i - n] /\ e2[i - n].cost = Share(k, i - n, owed)
          BY <2>3, <2>4, <4>1, <4>4
        <5>. QED
          BY <5>1
      <4>. HIDE DEF f
      <4>5. Sum(f) = owed
        <5>1. owed \in Nat /\ n \in Nat /\ k \in Nat /\ (k = 0 => owed = 0)
          BY <2>1, <4>1
        <5>2. SplitOf(f, n, k, owed)
          BY <4>2, <4>3, <4>4 DEF SplitOf
        <5>. QED
          BY <5>1, <5>2, SharesAddUp
      <4>. QED
        BY <4>5 DEF Costs, Sum, f
    <3>3. Reading(Made(all, n + k, owed, <<>>))
      BY <2>4, <2>5, <2>6, <3>1, <3>2, ReadingMade
    <3>. QED
      BY <3>3 DEF all
  <2>. QED
    BY <1>4, <2>7, ProbeStep
<1>. QED
  BY <1>2, <1>3, <1>4

\* The events of a team's entries are numbered, each costs what its entry does.
LEMMA DailyStep == ASSUME UsageInv, Daily PROVE UsageInv'
<1>. DEFINE t == probe.now
            n == Least(Cardinality(Filled), Cap)
            e == DailyEvents(t)
            r == Made(e, n, Costs([i \in 1 .. n |-> Nth(i)]), [i \in DOMAIN e |-> e[i].id])
            next == [probe EXCEPT !.step = "legacy"]
<1>1. probe \in [step : {"summary", "daily", "legacy"}, now : Nat] /\ t <= now /\ t \in Nat
  BY Asking DEF Daily
<1>2. (account = "team" /\ Filled # {} /\ To(r)) \/ To(next)
  BY DEF Daily
<1>3. CASE To(next)
  BY <1>1, <1>3, ProbeStep
<1>4. CASE account = "team" /\ To(r)
  <2>1. UsageTypeOK /\ now \in Nat /\ UsageDay \in Nat \ {0} /\ Cap \in Nat
    BY CursorAssumption DEF UsageInv, UsageTypeOK
  <2>2. IsFiniteSet(Filled) /\ Cardinality(Filled) \in Nat
    <3>1. \A i \in Filled : i \in Nat /\ i <= Len(days) /\ Len(days) \in Nat
      BY <2>1 DEF UsageTypeOK, Filled
    <3>2. Filled = {} \/ (Filled \in SUBSET Nat /\ Len(days) \in Nat)
      BY <3>1
    <3>3. IsFiniteSet(Filled)
      BY <3>1, <3>2, FS_BoundedSetOfNaturals, FS_EmptySet
    <3>. QED
      BY <3>3, FS_CardinalityType
  <2>3. n \in Nat /\ n <= Cardinality(Filled)
    BY <2>1, <2>2, LeastMeans
  <2>4. e = [i \in 1 .. n |-> DailyEvent(t, i)]
    BY DEF DailyEvents
  <2>. HIDE DEF n, e
  <2>5. ASSUME NEW i \in 1 .. n
        PROVE  DailyEvent(t, i) \in UsageEvents /\ DailyEvent(t, i).at <= now /\ DailyEvent(t, i).id[4] = i
               /\ DailyEvent(t, i).cost = Nth(i).cost
    <3>. DEFINE d == Nth(i)
                at == IF d.dated THEN d.day * UsageDay ELSE t
    <3>1. i \in Nat \ {0} /\ i <= Cardinality(Filled)
      BY <2>2, <2>3
    <3>2. d \in DayEntries /\ d.day * UsageDay <= now
      BY <2>1, <3>1, NthFilled
    <3>. HIDE DEF d
    <3>3. d.day \in Nat /\ d.model \in Model /\ d.cost \in Nat
      BY <3>2 DEF DayEntries
    <3>4. d.day * UsageDay \in Nat
      BY <2>1, <3>3
    <3>5. at \in Nat /\ at <= now
      BY <1>1, <3>2, <3>4
    <3>6. DailyEvent(t, i) = [id |-> <<"daily", DayOf(at), d.model, i>>, at |-> at, cost |-> d.cost]
      BY DEF DailyEvent, d
    <3>. HIDE DEF at
    <3>7. DayOf(at) \in Nat
      BY <2>1, <3>5, DivMeans DEF DayOf
    <3>8. <<"daily", DayOf(at), d.model, i>> \in UsageIds
      BY <3>1, <3>3, <3>7 DEF UsageIds
    <3>9. DailyEvent(t, i).cost = Nth(i).cost
      BY <3>6 DEF d
    <3>. QED
      BY <3>3, <3>5, <3>6, <3>8, <3>9 DEF UsageEvents
  <2>. DEFINE ev(i) == DailyEvent(t, i)
  <2>. HIDE DEF ev
  <2>6. \A i \in 1 .. n : ev(i) \in UsageEvents /\ ev(i).at <= now /\ ev(i).id[4] = i /\ ev(i).cost = Nth(i).cost
    BY <2>5 DEF ev
  <2>7. e = [i \in 1 .. n |-> ev(i)]
    BY <2>4 DEF ev
  <2>8. e \in Seq(UsageEvents) /\ Len(e) = n /\ DOMAIN e = 1 .. n
    BY <2>3, <2>6, <2>7
  <2>9. \A i \in DOMAIN e : e[i].at <= now /\ e[i].id[4] = i
    BY <2>6, <2>7, <2>8
  <2>10. [i \in DOMAIN e |-> e[i].id] \in Seq(UsageIds)
    <3>1. \A i \in 1 .. n : e[i] \in UsageEvents
      BY <2>8
    <3>2. \A i \in 1 .. n : e[i].id \in UsageIds
      BY <3>1 DEF UsageEvents
    <3>. QED
      BY <2>3, <2>8, <3>2
  <2>11. \A i, j \in DOMAIN e : e[i].id = e[j].id => i = j
    BY <2>9
  <2>12. Costs(e) = Costs([i \in 1 .. n |-> Nth(i)])
    <3>1. \A i \in 1 .. n : e[i].cost = Nth(i).cost
      BY <2>6, <2>7
    <3>. DEFINE c(i) == Nth(i).cost
    <3>. HIDE DEF c
    <3>2. [i \in DOMAIN e |-> e[i].cost] = [i \in 1 .. n |-> c(i)]
      BY <2>8, <3>1 DEF c
    <3>3. [j \in DOMAIN [i \in 1 .. n |-> Nth(i)] |-> [i \in 1 .. n |-> Nth(i)][j].cost] = [i \in 1 .. n |-> c(i)]
      BY DEF c
    <3>. QED
      BY <3>2, <3>3, Zenon DEF Costs
  <2>13. Reading(r)
    BY <2>8, <2>9, <2>10, <2>11, <2>12, ReadingMade
  <2>. QED
    BY <1>4, <2>13, ProbeStep
<1>. QED
  BY <1>2, <1>3, <1>4

\* The events of an old account are numbered and cost one each.
LEMMA LegacyStep == ASSUME UsageInv, Legacy PROVE UsageInv'
<1>. DEFINE t == probe.now
            count == Least(used[1] + used[2], Cap)
            e == LegacyEvents(t)
            r == Made(e, count, count, <<>>)
<1>1. t \in Nat /\ t <= now
  BY Asking DEF Legacy
<1>2. (account = "old" /\ To(r)) \/ To(Idle)
  BY DEF Legacy
<1>3. CASE To(Idle)
  BY <1>3, ProbeStep
<1>4. CASE account = "old" /\ To(r)
  <2>1. /\ used[1] \in Nat /\ used[2] \in Nat /\ 1 \in Bucket /\ 2 \in Bucket /\ now \in Nat /\ Cap \in Nat
    BY CursorAssumption DEF UsageInv, UsageTypeOK, Bucket
  <2>. DEFINE Stamps == [model : Bucket, at : Nat]
              s1 == LegacyStamps(t, 1)
              s2 == LegacyStamps(t, 2)
              all == s1 \o s2
  <2>2. ASSUME NEW b \in Bucket
        PROVE  /\ LegacyStamps(t, b) \in Seq(Stamps) /\ Len(LegacyStamps(t, b)) = used[b]
               /\ \A i \in 1 .. used[b] : LegacyStamps(t, b)[i].at <= now
    <3>1. used[b] \in Nat
      BY DEF UsageInv, UsageTypeOK
    <3>. DEFINE s(i) == Stamp(t, used[b], i)
    <3>2. \A i \in 1 .. used[b] : s(i) \in Nat /\ s(i) <= now
      <4>. SUFFICES ASSUME NEW i \in 1 .. used[b] PROVE s(i) \in Nat /\ s(i) <= now
        OBVIOUS
      <4>1. used[b] \in Nat \ {0}
        BY <3>1
      <4>2. Stamp(t, used[b], i) \in Nat /\ Stamp(t, used[b], i) <= t
        BY <1>1, <4>1, StampInPast
      <4>. QED
        BY <1>1, <2>1, <4>2
    <3>. HIDE DEF s
    <3>3. LegacyStamps(t, b) = [i \in 1 .. used[b] |-> [model |-> b, at |-> s(i)]]
      BY DEF LegacyStamps, s
    <3>4. \A i \in 1 .. used[b] : [model |-> b, at |-> s(i)] \in Stamps
      BY <3>2
    <3>. HIDE DEF Stamps
    <3>5. LegacyStamps(t, b) \in Seq(Stamps) /\ Len(LegacyStamps(t, b)) = used[b]
      BY <3>1, <3>3, <3>4
    <3>6. \A i \in 1 .. used[b] : LegacyStamps(t, b)[i].at = s(i)
      BY <3>3
    <3>. QED
      BY <3>2, <3>5, <3>6
  <2>3. /\ all \in Seq(Stamps) /\ Len(all) = used[1] + used[2]
        /\ \A i \in 1 .. Len(all) : all[i].at <= now
    <3>1. s1 \in Seq(Stamps) /\ s2 \in Seq(Stamps) /\ Len(s1) = used[1] /\ Len(s2) = used[2]
      BY <2>1, <2>2
    <3>2. (\A i \in 1 .. Len(s1) : s1[i].at <= now) /\ (\A i \in 1 .. Len(s2) : s2[i].at <= now)
      BY <2>1, <2>2, <3>1
    <3>. HIDE DEF s1, s2, Stamps
    <3>3. /\ s1 \o s2 \in Seq(Stamps) /\ Len(s1 \o s2) = Len(s1) + Len(s2)
          /\ \A i \in 1 .. Len(s1) + Len(s2) : (s1 \o s2)[i] = IF i <= Len(s1) THEN s1[i] ELSE s2[i - Len(s1)]
      BY <3>1, ConcatProperties
    <3>4. ASSUME NEW i \in 1 .. Len(all) PROVE all[i].at <= now
      <4>1. CASE i <= Len(s1)
        BY <2>1, <3>1, <3>2, <3>3, <4>1
      <4>2. CASE ~ (i <= Len(s1))
        <5>1. i - Len(s1) \in 1 .. Len(s2) /\ all[i] = s2[i - Len(s1)]
          BY <2>1, <3>1, <3>3, <4>2
        <5>. QED
          BY <3>2, <5>1
      <4>. QED
        BY <4>1, <4>2
    <3>. QED
      BY <3>1, <3>3, <3>4
  <2>4. e = [i \in 1 .. Least(Len(all), Cap) |->
               [id |-> <<"legacy", all[i].at, all[i].model, i>>, at |-> all[i].at, cost |-> 1]]
    BY DEF LegacyEvents
  <2>. HIDE DEF all
  <2>5. count \in Nat /\ count <= Len(all) /\ count = Least(Len(all), Cap) /\ Len(all) \in Nat
    <3>1. used[1] + used[2] \in Nat /\ Len(all) = used[1] + used[2]
      BY <2>1, <2>3
    <3>2. Least(used[1] + used[2], Cap) \in Nat /\ Least(used[1] + used[2], Cap) <= used[1] + used[2]
      BY <2>1, <3>1, LeastMeans
    <3>. QED
      BY <3>1, <3>2
  <2>. HIDE DEF count, Stamps
  <2>6. \A i \in 1 .. count : all[i] \in Stamps /\ all[i].at <= now
    BY <2>3, <2>5
  <2>7. /\ e = [i \in 1 .. count |->
                  [id |-> <<"legacy", all[i].at, all[i].model, i>>, at |-> all[i].at, cost |-> 1]]
    BY <2>4, <2>5
  <2>. HIDE DEF e
  <2>8. e \in Seq(UsageEvents) /\ Len(e) = count /\ DOMAIN e = 1 .. count
    <3>1. \A i \in 1 .. count : all[i].at \in Nat /\ all[i].model \in Bucket /\ i \in Nat
      BY <2>5, <2>6 DEF Stamps
    <3>2. \A i \in 1 .. count : <<"legacy", all[i].at, all[i].model, i>> \in UsageIds
      BY <3>1 DEF UsageIds
    <3>3. \A i \in 1 .. count :
            [id |-> <<"legacy", all[i].at, all[i].model, i>>, at |-> all[i].at, cost |-> 1] \in UsageEvents
      BY <3>1, <3>2 DEF UsageEvents
    <3>. QED
      BY <2>5, <2>7, <3>3
  <2>9. \A i \in DOMAIN e : e[i].at <= now /\ e[i].id[4] = i
    BY <2>6, <2>7, <2>8
  <2>10. \A i, j \in DOMAIN e : e[i].id = e[j].id => i = j
    BY <2>9
  <2>11. Reading(r)
    <3>1. <<>> \in Seq(UsageIds) /\ account # "team"
      BY <1>4
    <3>2. Costs(e) = count
      <4>. DEFINE f == [i \in DOMAIN e |-> e[i].cost]
      <4>1. DOMAIN f = 1 .. count /\ \A i \in DOMAIN f : f[i] = 1
        BY <2>7, <2>8
      <4>. HIDE DEF f
      <4>2. IsFiniteSet(1 .. count) /\ Cardinality(1 .. count) = count
        BY <2>5, FS_Interval
      <4>3. Numbers(f) /\ \A i \in DOMAIN f : f[i] = IF i \in DOMAIN f THEN 1 ELSE 0
        BY <4>1, <4>2 DEF Numbers
      <4>4. Sum(f) = 1 * Cardinality(DOMAIN f)
        BY <4>3, SumOfSame
      <4>5. Sum(f) = count
        BY <2>5, <4>1, <4>2, <4>4
      <4>. QED
        BY <4>5, Zenon DEF Costs, Sum, f
    <3>. QED
      BY <2>8, <2>9, <2>10, <3>1, <3>2, ReadingMade
  <2>. QED
    BY <1>4, <2>11, ProbeStep
<1>. QED
  BY <1>2, <1>3, <1>4

\* One transaction replaces the rows of known ids; the events are the rows of their ids.
LEMMA StoreUsageStep == ASSUME UsageInv, StoreUsage PROVE UsageInv'
<1>. DEFINE e == probe.events
<1>1. /\ probe.step = "store" /\ probe' = Idle /\ rows' = Upserted(e)
      /\ last' = [ids |-> IdsOf(e), count |-> probe.count, bill |-> probe.bill, entries |-> probe.entries,
                  inOrder |-> last.inOrder /\ IsPrefix(last.entries, probe.entries)]
      /\ UNCHANGED <<account, now, used, owed, days>>
  BY DEF StoreUsage
<1>2. Reading(probe)
  BY <1>1 DEF UsageInv, UsageTypeOK, Idle
<1>3. /\ e \in Seq(UsageEvents) /\ DOMAIN e = 1 .. Len(e) /\ Len(e) \in Nat
      /\ \A i \in DOMAIN e : e[i] \in UsageEvents /\ e[i].at <= now
      /\ \A i, j \in DOMAIN e : e[i].id = e[j].id => i = j
      /\ probe.count = Len(e)
  BY <1>2 DEF Reading
<1>. HIDE DEF e
<1>4. {e[i] : i \in {j \in DOMAIN e : \A k \in DOMAIN e : e[k].id = e[j].id => k <= j}}
        = {e[i] : i \in DOMAIN e}
  <2>1. \A i \in DOMAIN e : \A k \in DOMAIN e : e[k].id = e[i].id => k <= i
    BY <1>3
  <2>2. {j \in DOMAIN e : \A k \in DOMAIN e : e[k].id = e[j].id => k <= j} = DOMAIN e
    BY <2>1, Zenon
  <2>. QED
    BY <2>2, Zenon
<1>. DEFINE new == {e[i] : i \in DOMAIN e}
            old == {r \in rows : r.id \notin IdsOf(e)}
<1>5. rows' = old \cup new
  BY <1>1, <1>4 DEF Upserted
<1>6. Stored' = new
  <2>1. last'.ids = IdsOf(e)
    BY <1>1
  <2>2. \A r \in new : r.id \in IdsOf(e)
    BY DEF IdsOf
  <2>. HIDE DEF new
  <2>. QED
    BY <1>5, <2>1, <2>2 DEF Stored
<1>. DEFINE f == [i \in 1 .. Len(e) |-> e[i]]
<1>7. f \in Bijection(1 .. Len(e), new)
  <2>1. f \in [1 .. Len(e) -> new]
    BY <1>3
  <2>2. \A i, j \in 1 .. Len(e) : f[i] = f[j] => i = j
    BY <1>3
  <2>3. \A x \in new : \E i \in 1 .. Len(e) : f[i] = x
    BY <1>3
  <2>. QED
    BY <2>1, <2>2, <2>3, Fun_IsBij
<1>count. CountStored'
  <2>1. Cardinality(new) = Len(e)
    BY <1>3, <1>7, FS_CountingElements DEF ExistsBijection
  <2>. QED
    BY <1>1, <1>3, <1>6, <2>1 DEF CountStored
<1>cost. CostStored'
  <2>. DEFINE g == [r \in new |-> r.cost]
              h == [i \in DOMAIN e |-> e[i].cost]
  <2>1. IsFiniteSet(new) /\ IsFiniteSet(1 .. Len(e))
    <3>1. IsFiniteSet(1 .. Len(e))
      BY <1>3, FS_Interval
    <3>. QED
      BY <1>7, <3>1, FS_Bijection DEF ExistsBijection
  <2>2. \A r \in new : r.cost \in Int
    BY <1>3 DEF UsageEvents
  <2>3. Numbers(g) /\ DOMAIN g = new
    <3>. HIDE DEF new
    <3>. QED
      BY <2>1, <2>2 DEF Numbers
  <2>4. \A i \in 1 .. Len(e) : e[i] \in new /\ f[i] = e[i]
    BY <1>3
  <2>5. h = [i \in 1 .. Len(e) |-> g[f[i]]]
    <3>. HIDE DEF new
    <3>. QED
      BY <1>3, <2>4
  <2>6. Sum(h) = Sum(g)
    <3>. HIDE DEF new, f, g, h
    <3>. QED
      BY <1>7, <2>1, <2>3, <2>5, SumRenamed
  <2>7. Costs(e) = probe.bill /\ last'.bill = probe.bill
    BY <1>1, <1>2 DEF Reading, e
  <2>8. Costs([r \in new |-> r]) = Sum(g) /\ Costs(e) = Sum(h)
    <3>. HIDE DEF new
    <3>1. [x \in DOMAIN [r \in new |-> r] |-> [r \in new |-> r][x].cost] = g
      OBVIOUS
    <3>. QED
      BY <3>1, Zenon DEF Costs, Sum
  <2>9. Costs([r \in Stored' |-> r]) = last'.bill
    <3>. HIDE DEF new, g, h
    <3>. QED
      BY <1>6, <2>6, <2>7, <2>8
  <2>10. CostStored' <=> Costs([r \in Stored |-> r])' = last'.bill
    BY Zenon DEF CostStored
  <2>11. Costs([r \in Stored |-> r])' = Costs([r \in Stored |-> r]')
    OBVIOUS
  <2>12. [r \in Stored |-> r]' = [r \in Stored' |-> r]
    OBVIOUS
  <2>. QED
    BY <2>9, <2>10, <2>11, <2>12, Zenon
<1>8. NotAhead'
  <2>1. \A r \in new : r.at \in 0 .. now
    BY <1>3 DEF UsageEvents, UsageInv, UsageTypeOK
  <2>2. \A r \in old : r.at \in 0 .. now
    BY DEF UsageInv, NotAhead
  <2>. HIDE DEF old, new
  <2>. QED
    BY <1>1, <1>5, <2>1, <2>2 DEF NotAhead
<1>9. UsageTypeOK'
  <2>1. rows' \subseteq UsageEvents
    BY <1>3, <1>5 DEF UsageInv, UsageTypeOK
  <2>2. last'.entries \in Seq(UsageIds) /\ last'.inOrder \in BOOLEAN
    BY <1>1, <1>2 DEF Reading
  <2>. QED
    BY <1>1, <2>1, <2>2 DEF UsageInv, UsageTypeOK
<1>10. DailyOnce'
  <2>. SUFFICES ASSUME account' = "team", last'.inOrder
                PROVE  {r.id : r \in rows'} = Range(last'.entries)
    BY DEF DailyOnce
  <2>1. account = "team" /\ last.inOrder /\ IsPrefix(last.entries, probe.entries) /\ last'.entries = probe.entries
    BY <1>1
  <2>2. probe.entries = [i \in DOMAIN e |-> e[i].id]
    BY <1>2, <2>1 DEF Reading, e
  <2>3. Range(probe.entries) = IdsOf(e) /\ IdsOf(e) = {r.id : r \in new}
    BY <2>2 DEF Range, IdsOf
  <2>4. {r.id : r \in rows} = Range(last.entries)
    BY <2>1 DEF UsageInv, DailyOnce
  <2>5. Range(last.entries) \subseteq Range(probe.entries)
    <3>. DEFINE s == last.entries
                u == probe.entries
    <3>1. s \in Seq(UsageIds) /\ u \in Seq(UsageIds)
      BY <1>2 DEF UsageInv, UsageTypeOK, Reading
    <3>2. IsPrefix(s, u)
      BY <2>1
    <3>. HIDE DEF s, u
    <3>3. Len(s) <= Len(u) /\ \A i \in 1 .. Len(s) : s[i] = u[i]
      BY <3>1, <3>2 DEF IsPrefix
    <3>4. Range(s) \subseteq Range(u)
      BY <3>1, <3>3 DEF Range
    <3>. QED
      BY <3>4 DEF s, u
  <2>6. \A r \in rows : r.id \in IdsOf(e)
    BY <2>3, <2>4, <2>5
  <2>7. rows' = new
    BY <1>5, <2>6
  <2>. QED
    BY <2>1, <2>3, <2>7
<1>. QED
  BY <1>count, <1>cost, <1>8, <1>9, <1>10 DEF UsageInv

(* However often Cursor is asked and whatever happens meanwhile: the table holds a *)
(* row for each request or entry the last stored answer reported, at the cost it   *)
(* reported, a team's entries are one row each while the answers grow at the end   *)
(* only, and no made-up event lies ahead of the clock.                             *)
THEOREM UsageIsSound == CursorSpec => []CursorSound
<1>1. CursorInit => UsageInv
  <2>. SUFFICES ASSUME CursorInit PROVE UsageInv
    OBVIOUS
  <2>1. UsageTypeOK
    BY DEF CursorInit, UsageTypeOK, Idle, NoReading, Bucket
  <2>2. Stored = {} /\ last.count = 0
    BY DEF CursorInit, NoReading, Stored
  <2>3. CountStored
    BY <2>2, FS_EmptySet DEF CountStored
  <2>cost. CostStored
    <3>. DEFINE f == [r \in {} |-> r.cost]
    <3>1. Numbers(f) /\ {} \in SUBSET DOMAIN f /\ \A x \in DOMAIN f : f[x] = IF x \in {} THEN 0 ELSE 0
      BY FS_EmptySet DEF Numbers
    <3>2. Sum(f) = 0 * Cardinality({})
      <4>. HIDE DEF f
      <4>. QED
        BY <3>1, SumOfSame
    <3>3. [r \in DOMAIN [x \in {} |-> x] |-> [x \in {} |-> x][r].cost] = f
      OBVIOUS
    <3>4. Costs([x \in {} |-> x]) = Sum(f)
      BY <3>3, Zenon DEF Costs, Sum
    <3>5. last.bill = 0
      BY DEF CursorInit, NoReading
    <3>. QED
      BY <2>2, <3>2, <3>4, <3>5, FS_EmptySet DEF CostStored
  <2>4. DailyOnce /\ NotAhead
    BY DEF CursorInit, NoReading, DailyOnce, NotAhead, Range
  <2>. QED
    BY <2>1, <2>3, <2>cost, <2>4 DEF UsageInv
<1>2. UsageInv /\ [CursorNext]_cursorVars => UsageInv'
  <2>. SUFFICES ASSUME UsageInv, [CursorNext]_cursorVars PROVE UsageInv'
    OBVIOUS
  <2>1. ASSUME NEW b \in Bucket, MakeRequest(b) PROVE UsageInv'
    BY <2>1, MakeRequestStep
  <2>2. CASE Fail
    BY <2>2, ProbeStep DEF Fail
  <2>3. CASE UNCHANGED cursorVars
    <3>1. UNCHANGED <<account, now, used, owed, days, probe, rows, last, reads>>
      BY <2>3 DEF cursorVars
    <3>2. To(probe)
      BY <3>1 DEF To
    <3>. QED
      BY <3>2, ProbeStep DEF UsageInv, UsageTypeOK
  <2>. QED
    BY <2>1, <2>2, <2>3, NewEntryStep, SpendMoreStep, LaterStep, RefreshStep, SummaryStep, DailyStep,
       LegacyStep, StoreUsageStep DEF CursorNext
<1>3. UsageInv => CursorSound
  BY DEF UsageInv, CursorSound, ReportStored
<1>. QED
  BY <1>1, <1>2, <1>3, PTL DEF CursorSpec

-----------------------------------------------------------------------------
(* The figures of a snapshot.                                                  *)

(* What a snapshot has answered is what the table and its day say now, unless an   *)
(* event came meanwhile; a forecast is that of its day in any case.                *)
FiguresTypeOK ==
  /\ cal \in Calendars /\ day \in 0 .. DaysInMonth - 1
  /\ IsFiniteSet(table) /\ \A x \in table : x.at \in Nat
  /\ asked = NoDay \/ asked \in 0 .. DaysInMonth - 1
  /\ asked = NoDay => answers = <<>>

Fresh == asked # NoDay /\ ~moved => \A q \in DOMAIN answers : answers[q] = AnswerTo(q)

Projected ==
  "forecastByProvider" \in DOMAIN answers =>
    \A p \in DOMAIN answers["forecastByProvider"] :
      \E n \in Nat : answers["forecastByProvider"][p] = Projection(n, asked)

FiguresInv == FiguresTypeOK /\ Fresh /\ Projected

-----------------------------------------------------------------------------
\* Midnights in numbers.
LEMMA MidnightMeans ==
  ASSUME FiguresTypeOK, NEW d \in Nat
  PROVE  /\ Midnight(d) \in Int /\ Midnight(0) \in Nat /\ DayLen \in Nat /\ DayLen > 1 /\ d * DayLen \in Nat
         /\ Midnight(d) = Midnight(0) + d * DayLen + (IF d > cal.shiftDay THEN cal.shift ELSE 0)
         /\ Midnight(0) <= Midnight(d)
<1>1. /\ DayLen \in Nat /\ DayLen > 1 /\ Week \in Nat /\ cal.zone \in Nat /\ cal.shiftDay \in Nat
      /\ cal.shift \in {-1, 0, 1}
  BY AggregationAssumption DEF FiguresTypeOK
<1>2. \A k \in Nat : k * DayLen \in Nat
  BY <1>1
<1>3. Base \in Nat
  <2>1. Week + 1 \in Nat
    BY <1>1
  <2>. QED
    BY <1>2, <2>1 DEF Base
<1>4. 0 * DayLen = 0 /\ d * DayLen \in Nat /\ (d > 0 => d * DayLen >= DayLen)
  BY <1>1
<1>. QED
  BY <1>1, <1>3, <1>4 DEF Midnight

\* The events of a time are finitely many of the table.
LEMMA BetweenFinite ==
  ASSUME FiguresTypeOK, NEW s, NEW e
  PROVE  /\ IsFiniteSet(Between(s, e)) /\ Cardinality(Between(s, e)) \in Nat
         /\ \A x \in Between(s, e) : x.at \in Nat /\ x \in table
<1>1. Between(s, e) \in SUBSET table
  BY DEF Between
<1>2. IsFiniteSet(Between(s, e)) /\ Cardinality(Between(s, e)) \in Nat
  BY <1>1, FS_Subset, FS_CardinalityType DEF FiguresTypeOK
<1>. QED
  BY <1>1, <1>2 DEF FiguresTypeOK

\* When a number is the quotient of a division.
LEMMA DivIs ==
  ASSUME NEW a \in Nat, NEW d \in Nat, d > 0, NEW k \in Int
  PROVE  a \div d \in Nat /\ (a \div d = k <=> k * d <= a /\ a < k * d + d)
<1>1. PICK q : q = a \div d
  OBVIOUS
<1>2. a \div d \in Nat
  OBVIOUS
<1>3. d * (a \div d) <= a /\ a < d * (a \div d) + d
  OBVIOUS
<1>4. q \in Nat /\ d * q <= a /\ a < d * q + d
  BY <1>1, <1>2, <1>3
<1>5. \A x, y \in Int : x * y = y * x /\ x * y \in Int
  OBVIOUS
<1>6. \A x, y \in Int : x + 1 <= y => x * d + d <= y * d
  <2>1. \A x \in Int : (x + 1) * d = x * d + d
    OBVIOUS
  <2>2. \A x, y \in Int : x <= y => x * d <= y * d
    OBVIOUS
  <2>. QED
    BY <2>1, <2>2
<1>7. q = k <=> k * d <= a /\ a < k * d + d
  <2>1. q * d <= a /\ a < q * d + d /\ q * d \in Int /\ k * d \in Int
    BY <1>4, <1>5
  <2>2. q < k => q * d + d <= k * d
    BY <1>4, <1>6
  <2>3. k < q => k * d + d <= q * d
    BY <1>4, <1>6
  <2>. QED
    BY <1>4, <2>1, <2>2, <2>3
<1>. QED
  BY <1>1, <1>4, <1>7

\* A finite set has a finite image.
LEMMA ImageFinite ==
  ASSUME NEW S, IsFiniteSet(S), NEW h, h = [x \in S |-> h[x]]
  PROVE  IsFiniteSet({h[x] : x \in S})
<1>. DEFINE T == {h[x] : x \in S}
<1>1. h \in [S -> T] /\ \A y \in T : \E x \in S : h[x] = y
  OBVIOUS
<1>2. h \in Surjection(S, T)
  BY <1>1, Fun_IsSurj
<1>. QED
  BY <1>2, FS_Surjection

\* Counted by provider, or by day, the events of a time are all its events.
LEMMA ByProviderAddsUp ==
  ASSUME FiguresTypeOK, NEW s, NEW e
  PROVE  Total(ByProvider(s, e)) = RangeTotal(s, e) /\ \A p \in DOMAIN ByProvider(s, e) : ByProvider(s, e)[p] \in Nat
<1>. DEFINE B == Between(s, e)
            P == {x.provider : x \in B}
            h == [x \in B |-> x.provider]
            f == [p \in P |-> Cardinality({x \in B : h[x] = p})]
<1>1. IsFiniteSet(B)
  BY BetweenFinite
<1>. HIDE DEF B
<1>2. IsFiniteSet(P) /\ \A x \in B : h[x] \in P
  <2>1. P = {h[x] : x \in B} /\ h = [x \in B |-> h[x]]
    OBVIOUS
  <2>. HIDE DEF h
  <2>2. IsFiniteSet({h[x] : x \in B})
    BY <1>1, <2>1, ImageFinite
  <2>. QED
    BY <2>1, <2>2
<1>3. ByProvider(s, e) = f
  BY DEF ByProvider, B
<1>4. Sum(f) = Cardinality(B)
  <2>. HIDE DEF P, h
  <2>. QED
    BY <1>1, <1>2, SumOfFibres
<1>5. \A p \in DOMAIN f : f[p] \in Nat
  <2>1. \A p \in P : {x \in B : h[x] = p} \in SUBSET B
    OBVIOUS
  <2>2. \A p \in P : Cardinality({x \in B : h[x] = p}) \in Nat
    BY <1>1, <2>1, FS_Subset, FS_CardinalityType
  <2>. QED
    BY <2>2
<1>. QED
  BY <1>3, <1>4, <1>5, Zenon DEF Total, Sum, RangeTotal, B

\* The same, by day.
LEMMA PerDayAddsUp ==
  ASSUME FiguresTypeOK, NEW s, NEW e, NEW origin
  PROVE  Total(PerDayCost(s, e, origin)) = RangeTotal(s, e)
<1>. DEFINE B == Between(s, e)
            P == {Index(x, origin) : x \in B}
            h == [x \in B |-> Index(x, origin)]
            f == [p \in P |-> Cardinality({x \in B : h[x] = p})]
<1>1. IsFiniteSet(B)
  BY BetweenFinite
<1>. HIDE DEF B
<1>2. IsFiniteSet(P) /\ \A x \in B : h[x] \in P
  <2>1. P = {h[x] : x \in B} /\ h = [x \in B |-> h[x]]
    OBVIOUS
  <2>. HIDE DEF h
  <2>2. IsFiniteSet({h[x] : x \in B})
    BY <1>1, <2>1, ImageFinite
  <2>. QED
    BY <2>1, <2>2
<1>3. PerDayCost(s, e, origin) = f
  BY DEF PerDayCost, B
<1>4. Sum(f) = Cardinality(B)
  <2>. HIDE DEF P, h
  <2>. QED
    BY <1>1, <1>2, SumOfFibres
<1>. QED
  BY <1>3, <1>4, Zenon DEF Total, Sum, RangeTotal, B

\* The bars of the chart add up to the days of the window, the last one is today.
LEMMA SeriesAddsUp ==
  ASSUME FiguresTypeOK, NEW d \in Nat
  PROVE  LET today == RangeTotal(DayStart(d), DayEnd(d))
             week  == RangeTotal(DayEnd(d) - Week * DayLen, DayEnd(d))
         IN  /\ Total(DailySeries(d, Week)) = week /\ DailySeries(d, Week)[Week - 1] = today
             /\ today <= week
<1>. DEFINE S == SeriesStart(d, Week)
            B == Between(S, DayEnd(d))
            T == Between(DayStart(d), DayEnd(d))
            bars == PerDayCost(S, DayEnd(d), S)
            h == [x \in B |-> Index(x, S)]
            P == 0 .. Week - 1
            f == [i \in P |-> Cardinality({x \in B : h[x] = i})]
<1>1. /\ DayLen \in Nat /\ DayLen > 0 /\ Week \in Nat /\ Week > 0 /\ Midnight(d) \in Int
  BY AggregationAssumption, MidnightMeans
<1>2. /\ S \in Int /\ DayStart(d) \in Int /\ DayEnd(d) = DayStart(d) + DayLen
      /\ S = DayEnd(d) - Week * DayLen /\ DayStart(d) = S + (Week - 1) * DayLen /\ S <= DayStart(d)
  <2>1. \A k \in Nat : k * DayLen \in Nat
    BY <1>1
  <2>2. (Week - 1) * DayLen \in Nat /\ Week * DayLen = (Week - 1) * DayLen + DayLen
    BY <1>1, <2>1
  <2>. QED
    BY <1>1, <2>2 DEF DayStart, DayEnd, SeriesStart
<1>. HIDE DEF S
<1>3. IsFiniteSet(B) /\ IsFiniteSet(T) /\ Cardinality(B) \in Nat
  BY BetweenFinite
<1>4. ASSUME NEW x \in B
      PROVE  /\ Index(x, S) \in 0 .. Week - 1
             /\ Index(x, S) = Week - 1 <=> x \in T
  <2>1. x \in table /\ x.at \in Nat /\ S <= x.at /\ x.at < DayEnd(d)
    BY BetweenFinite DEF Between
  <2>. DEFINE a == x.at - S
              i == a \div DayLen
  <2>2. a \in Nat /\ a < Week * DayLen
    <3>1. \A k \in Nat : k * DayLen \in Nat
      BY <1>1
    <3>. QED
      BY <1>1, <1>2, <2>1, <3>1
  <2>. HIDE DEF a
  <2>3. i \in Nat /\ i * DayLen <= a /\ a < i * DayLen + DayLen
        /\ (i = Week - 1 <=> (Week - 1) * DayLen <= a /\ a < (Week - 1) * DayLen + DayLen)
    BY <1>1, <2>2, DivIs
  <2>. HIDE DEF i
  <2>4. i <= Week - 1
    <3>. SUFFICES ASSUME Week <= i PROVE FALSE
      BY <1>1, <2>3
    <3>1. Week * DayLen <= i * DayLen
      BY <1>1, <2>3
    <3>2. Week * DayLen \in Int /\ i * DayLen \in Int
      BY <1>1, <2>3
    <3>. QED
      BY <2>2, <2>3, <3>1, <3>2
  <2>5. (Week - 1) * DayLen + DayLen = Week * DayLen /\ (Week - 1) * DayLen \in Int
    BY <1>1
  <2>6. x \in T <=> (Week - 1) * DayLen <= a
    BY <1>2, <2>1, <2>5 DEF Between, a
  <2>7. Index(x, S) = i
    BY DEF Index, i, a
  <2>. QED
    BY <1>1, <2>2, <2>3, <2>4, <2>5, <2>6, <2>7
<1>5. T \subseteq B
  <2>1. \A x \in T : x \in table /\ x.at \in Nat /\ DayStart(d) <= x.at /\ x.at < DayEnd(d)
    BY BetweenFinite DEF Between
  <2>2. \A x \in T : S <= x.at
    BY <1>2, <2>1
  <2>. QED
    BY <2>1, <2>2 DEF Between
<1>6. DailySeries(d, Week) = f
  <2>1. bars = [i \in {Index(x, S) : x \in B} |-> Cardinality({x \in B : Index(x, S) = i})]
    BY DEF PerDayCost
  <2>. HIDE DEF B
  <2>2. ASSUME NEW i \in 0 .. Week - 1
        PROVE  (IF i \in DOMAIN bars THEN bars[i] ELSE 0) = f[i]
    <3>1. {x \in B : h[x] = i} = {x \in B : Index(x, S) = i}
      OBVIOUS
    <3>2. i \notin DOMAIN bars => {x \in B : Index(x, S) = i} = {}
      BY <2>1
    <3>3. f[i] = Cardinality({x \in B : Index(x, S) = i})
      BY <3>1, Zenon
    <3>4. i \in DOMAIN bars => bars[i] = Cardinality({x \in B : Index(x, S) = i})
      BY <2>1
    <3>. HIDE DEF bars, f
    <3>. QED
      BY <3>2, <3>3, <3>4, FS_EmptySet
  <2>3. DailySeries(d, Week) = [i \in 0 .. Week - 1 |-> IF i \in DOMAIN bars THEN bars[i] ELSE 0]
    BY Zenon DEF DailySeries, S
  <2>4. f = [i \in 0 .. Week - 1 |-> f[i]]
    BY Zenon
  <2>. HIDE DEF bars, f
  <2>. QED
    BY <2>2, <2>3, <2>4
<1>7. Sum(f) = Cardinality(B)
  <2>1. IsFiniteSet(P) /\ \A x \in B : h[x] \in P
    BY <1>1, <1>4, FS_Interval
  <2>. HIDE DEF B, h, P
  <2>. QED
    BY <1>3, <2>1, SumOfFibres
<1>8. f[Week - 1] = Cardinality(T)
  <2>1. {x \in B : h[x] = Week - 1} = T
    BY <1>4, <1>5
  <2>2. Week - 1 \in 0 .. Week - 1
    BY <1>1
  <2>. QED
    BY <2>1, <2>2
<1>9. Cardinality(T) <= Cardinality(B)
  BY <1>3, <1>5, FS_Subset
<1>10. /\ RangeTotal(DayStart(d), DayEnd(d)) = Cardinality(T)
       /\ RangeTotal(DayEnd(d) - Week * DayLen, DayEnd(d)) = Cardinality(B)
  BY <1>2, Zenon DEF RangeTotal
<1>11. Total(f) = Sum(f)
  BY Zenon DEF Total, Sum
<1>. HIDE DEF B, T, f
<1>. QED
  BY <1>6, <1>7, <1>8, <1>9, <1>10, <1>11

-----------------------------------------------------------------------------
\* The days of the month that are over, today among them.
LEMMA ElapsedMeans ==
  ASSUME FiguresTypeOK, NEW d \in 0 .. DaysInMonth - 1
  PROVE  /\ DaysElapsed(d) = (IF cal.shift < 0 /\ d > cal.shiftDay THEN d ELSE d + 1)
         /\ DaysElapsed(d) \in 1 .. DaysInMonth
<1>1. /\ d \in Nat /\ DaysInMonth \in Nat /\ d + 1 <= DaysInMonth /\ cal.shiftDay \in Nat
      /\ cal.shift \in {-1, 0, 1}
  BY AggregationAssumption DEF FiguresTypeOK
<1>. DEFINE s == IF d > cal.shiftDay THEN cal.shift ELSE 0
            a == DayEnd(d) - MonthStart
            k == IF cal.shift < 0 /\ d > cal.shiftDay THEN d ELSE d + 1
<1>2. DayLen \in Nat /\ DayLen > 1 /\ Midnight(0) \in Nat /\ d * DayLen \in Nat
      /\ Midnight(d) = Midnight(0) + d * DayLen + s
  BY <1>1, MidnightMeans
<1>3. a = d * DayLen + DayLen + s
  BY <1>1, <1>2 DEF DayEnd, DayStart, MonthStart
<1>4. a \in Nat
  BY <1>1, <1>2, <1>3
<1>5. (d + 1) * DayLen = d * DayLen + DayLen
  BY <1>1, <1>2
<1>6. k \in Int /\ k * DayLen <= a /\ a < k * DayLen + DayLen
  <2>1. CASE cal.shift < 0 /\ d > cal.shiftDay
    BY <1>1, <1>2, <1>3, <2>1
  <2>2. CASE ~ (cal.shift < 0 /\ d > cal.shiftDay)
    BY <1>1, <1>2, <1>3, <1>5, <2>2
  <2>. QED
    BY <2>1, <2>2
<1>7. a \div DayLen = k
  <2>. HIDE DEF a, k
  <2>. QED
    BY <1>2, <1>4, <1>6, DivIs
<1>8. DaysElapsed(d) = k
  BY <1>7 DEF DaysElapsed
<1>. QED
  BY <1>1, <1>8

\* What is projected from a part of the month is no lower than what was spent.
LEMMA ProjectionSane ==
  ASSUME FiguresTypeOK, NEW d \in 0 .. DaysInMonth - 1, NEW n \in Nat
  PROVE  LET f == Projection(n, d) IN
           /\ f.spent = n /\ f.days = DaysElapsed(d) /\ f.estimate >= f.spent
<1>. DEFINE e == DaysElapsed(d)
<1>1. e \in Nat /\ 1 <= e /\ e <= DaysInMonth /\ DaysInMonth \in Nat
  BY ElapsedMeans, AggregationAssumption
<1>. HIDE DEF e
<1>. DEFINE a == n * DaysInMonth
            q == a \div e
<1>2. a \in Nat /\ n * e \in Nat /\ n * e <= a
  <2>1. \A x, y \in Nat : x <= y => n * x <= n * y /\ n * x \in Nat
    OBVIOUS
  <2>. QED
    BY <1>1, <2>1
<1>. HIDE DEF a
<1>3. q \in Nat /\ q * e <= a /\ a < q * e + e
  BY <1>1, <1>2, DivIs
<1>. HIDE DEF q
<1>4. n <= q
  <2>. SUFFICES ASSUME q + 1 <= n PROVE FALSE
    BY <1>3
  <2>1. q * e + e <= n * e
    <3>1. \A x, y \in Nat : x <= y => x * e <= y * e
      BY <1>1
    <3>2. (q + 1) * e = q * e + e
      BY <1>1, <1>3
    <3>. QED
      BY <1>3, <3>1, <3>2
  <2>2. q * e \in Int
    BY <1>1, <1>3
  <2>. QED
    BY <1>1, <1>2, <1>3, <2>1, <2>2
<1>5. Projection(n, d) = [spent |-> n, days |-> e, estimate |-> q]
  <2>1. Projection(n, d) = [spent |-> n, days |-> e, estimate |-> IF e > 0 THEN q ELSE 0]
    BY Zenon DEF Projection, e, q, a
  <2>. QED
    BY <1>1, <2>1
<1>. QED
  BY <1>3, <1>4, <1>5 DEF e

\* The forecast and those by provider start from the events of the month.
LEMMA ForecastsAgree ==
  ASSUME FiguresTypeOK, NEW d \in Nat, Forecast(d) # Null
  PROVE  Total([p \in DOMAIN ForecastByProvider(d) |-> ForecastByProvider(d)[p].spent]) = Forecast(d).spent
<1>. DEFINE by == ByProvider(MonthStart, DayEnd(d))
            F == ForecastByProvider(d)
<1>1. F = [p \in DOMAIN by |-> Projection(by[p], d)]
  BY DEF ForecastByProvider
<1>2. \A p \in DOMAIN by : Projection(by[p], d).spent = by[p]
  BY DEF Projection
<1>3. by = [p \in DOMAIN by |-> by[p]]
  BY Zenon DEF ByProvider
<1>4. [p \in DOMAIN F |-> F[p].spent] = by
  <2>. HIDE DEF F, by
  <2>. QED
    BY <1>1, <1>2, <1>3
<1>5. Total(by) = RangeTotal(MonthStart, DayEnd(d))
  BY ByProviderAddsUp
<1>6. Forecast(d) = Projection(Total(PerDayCost(MonthStart, DayEnd(d), 0)), d)
  BY DEF Forecast
<1>7. Forecast(d).spent = Total(PerDayCost(MonthStart, DayEnd(d), 0))
  BY <1>6 DEF Projection
<1>8. Total(PerDayCost(MonthStart, DayEnd(d), 0)) = RangeTotal(MonthStart, DayEnd(d))
  BY PerDayAddsUp
<1>. HIDE DEF F, by
<1>. QED
  BY <1>4, <1>5, <1>7, <1>8 DEF F

\* Where local days are UTC days, the days from the epoch are the days of the month.
LEMMA DaysWithEvents ==
  ASSUME FiguresTypeOK, NEW d \in Nat, cal.zone = 0, cal.shift = 0
  PROVE  Cardinality(DOMAIN PerDayCost(MonthStart, DayEnd(d), 0))
           = Cardinality({i \in 0 .. d : Between(Midnight(i), Midnight(i + 1)) # {}})
<1>. DEFINE B == Between(MonthStart, DayEnd(d))
            D == {i \in 0 .. d : Between(Midnight(i), Midnight(i + 1)) # {}}
            R == {Index(x, 0) : x \in B}
            W == Week + 1
            f == [i \in D |-> W + i]
<1>1. DayLen \in Nat /\ DayLen > 0 /\ W \in Nat /\ \A k \in Nat : k * DayLen \in Nat
  BY AggregationAssumption
<1>2. \A i \in Nat : Midnight(i) = (W + i) * DayLen
  BY <1>1 DEF Midnight, Base
<1>3. \A i \in Nat : (W + i) * DayLen \in Nat /\ (W + (i + 1)) * DayLen = (W + i) * DayLen + DayLen
  BY <1>1
<1>4. MonthStart = (W + 0) * DayLen /\ DayEnd(d) = (W + d) * DayLen + DayLen
  BY <1>2 DEF MonthStart, DayEnd, DayStart
<1>. HIDE DEF W
<1>5. ASSUME NEW x \in table, NEW i \in Nat
      PROVE  x \in Between(Midnight(i), Midnight(i + 1)) <=> Index(x, 0) = W + i
  <2>1. x.at \in Nat
    BY DEF FiguresTypeOK
  <2>2. x \in Between(Midnight(i), Midnight(i + 1))
          <=> (W + i) * DayLen <= x.at /\ x.at < (W + i) * DayLen + DayLen
    BY <1>2, <1>3 DEF Between
  <2>3. x.at \div DayLen = W + i <=> (W + i) * DayLen <= x.at /\ x.at < (W + i) * DayLen + DayLen
    BY <1>1, <2>1, DivIs
  <2>4. Index(x, 0) = x.at \div DayLen
    BY <2>1 DEF Index
  <2>. QED
    BY <2>2, <2>3, <2>4
<1>6. ASSUME NEW x \in table
      PROVE  x \in B <=> \E i \in 0 .. d : Index(x, 0) = W + i
  <2>1. x.at \in Nat
    BY DEF FiguresTypeOK
  <2>2. x \in B <=> W * DayLen <= x.at /\ x.at < (W + d) * DayLen + DayLen
    BY <1>1, <1>4 DEF Between
  <2>. DEFINE q == x.at \div DayLen
  <2>3. q \in Nat /\ Index(x, 0) = q /\ q * DayLen <= x.at /\ x.at < q * DayLen + DayLen
    <3>1. q \in Nat /\ (q = q <=> q * DayLen <= x.at /\ x.at < q * DayLen + DayLen)
      BY <1>1, <2>1, DivIs
    <3>. QED
      BY <2>1, <3>1 DEF Index
  <2>. HIDE DEF q
  <2>4. \A a, b \in Nat : a < b => a * DayLen + DayLen <= b * DayLen
    <3>1. \A a \in Nat : (a + 1) * DayLen = a * DayLen + DayLen
      BY <1>1
    <3>2. \A a, b \in Nat : a <= b => a * DayLen <= b * DayLen
      BY <1>1
    <3>. QED
      BY <3>1, <3>2
  <2>5. W + d \in Nat /\ W * DayLen \in Nat /\ (W + d) * DayLen \in Nat /\ q * DayLen \in Nat
    BY <1>1, <2>3
  <2>6. (W * DayLen <= x.at <=> W <= q) /\ (x.at < (W + d) * DayLen + DayLen <=> q <= W + d)
    <3>1. q < W => q * DayLen + DayLen <= W * DayLen
      BY <1>1, <2>3, <2>4
    <3>2. W + d < q => (W + d) * DayLen + DayLen <= q * DayLen
      BY <2>3, <2>4, <2>5
    <3>3. W < q => W * DayLen + DayLen <= q * DayLen
      BY <1>1, <2>3, <2>4
    <3>4. q < W + d => q * DayLen + DayLen <= (W + d) * DayLen
      BY <2>3, <2>4, <2>5
    <3>. QED
      BY <1>1, <2>1, <2>3, <2>5, <3>1, <3>2, <3>3, <3>4
  <2>7. W <= q /\ q <= W + d <=> \E i \in 0 .. d : q = W + i
    <3>1. W <= q /\ q <= W + d => q - W \in 0 .. d /\ q = W + (q - W)
      BY <1>1, <2>3
    <3>. QED
      BY <1>1, <2>3, <3>1
  <2>. QED
    BY <2>2, <2>3, <2>6, <2>7
<1>7. f \in Bijection(D, R)
  <2>1. \A x \in B : x \in table
    BY DEF Between
  <2>2. ASSUME NEW i \in D PROVE W + i \in R
    <3>1. i \in 0 .. d /\ i \in Nat
      OBVIOUS
    <3>2. PICK x \in Between(Midnight(i), Midnight(i + 1)) : TRUE
      OBVIOUS
    <3>3. x \in table
      BY <3>2 DEF Between
    <3>4. Index(x, 0) = W + i
      BY <1>5, <3>1, <3>2, <3>3
    <3>5. x \in B
      BY <1>6, <3>1, <3>3, <3>4
    <3>. QED
      BY <3>4, <3>5
  <2>3. ASSUME NEW r \in R PROVE \E i \in D : W + i = r
    <3>1. PICK x \in B : r = Index(x, 0)
      OBVIOUS
    <3>2. x \in table
      BY <2>1
    <3>3. PICK i \in 0 .. d : Index(x, 0) = W + i
      BY <1>6, <3>1, <3>2
    <3>4. i \in Nat /\ x \in Between(Midnight(i), Midnight(i + 1))
      BY <1>5, <3>2, <3>3
    <3>5. i \in D
      BY <3>3, <3>4
    <3>. QED
      BY <3>1, <3>3, <3>5
  <2>4. \A i, j \in D : W + i = W + j => i = j
    <3>1. \A i \in D : i \in Nat
      OBVIOUS
    <3>. HIDE DEF D
    <3>. QED
      BY <1>1, <3>1
  <2>. HIDE DEF D, R
  <2>. QED
    BY <2>2, <2>3, <2>4, Fun_IsBij
<1>8. IsFiniteSet(D)
  <2>1. D \in SUBSET (0 .. d) /\ IsFiniteSet(0 .. d)
    BY FS_Interval
  <2>. HIDE DEF D
  <2>. QED
    BY <2>1, FS_Subset
<1>9. Cardinality(R) = Cardinality(D)
  <2>. HIDE DEF D, R, f
  <2>. QED
    BY <1>7, <1>8, FS_Bijection DEF ExistsBijection
<1>10. DOMAIN PerDayCost(MonthStart, DayEnd(d), 0) = R
  BY DEF PerDayCost
<1>. QED
  BY <1>9, <1>10, Zenon

-----------------------------------------------------------------------------
\* The table, the calendar and the day asked for are all an answer depends on.
LEMMA AnswersStand ==
  ASSUME UNCHANGED <<cal, table, asked>>, NEW q
  PROVE  AnswerTo(q)' = AnswerTo(q)
<1>1. cal' = cal /\ table' = table /\ asked' = asked
  OBVIOUS
<1>. QED
  BY <1>1 DEF AnswerTo, Now, RangeTotal, ByProvider, DailySeries, Forecast, ForecastByProvider, Projection,
     DaysElapsed, PerDayCost, Index, Between, DayStart, DayEnd, MonthStart, Midnight, SeriesStart, Null

\* Nothing of what a snapshot reads has changed.
LEMMA SnapshotStands ==
  ASSUME FiguresInv, UNCHANGED <<cal, table, asked, answers, moved>>, day' \in 0 .. DaysInMonth - 1
  PROVE  FiguresInv'
<1>1. FiguresTypeOK'
  BY DEF FiguresInv, FiguresTypeOK
<1>2. Fresh'
  <2>1. \A q : AnswerTo(q)' = AnswerTo(q)
    BY AnswersStand
  <2>. QED
    BY <2>1 DEF FiguresInv, Fresh
<1>3. Projected'
  <2>1. \A n, d : Projection(n, d)' = Projection(n, d)
    BY DEF Projection, DaysElapsed, DayEnd, DayStart, MonthStart, Midnight
  <2>. QED
    BY <2>1 DEF FiguresInv, Projected
<1>. QED
  BY <1>1, <1>2, <1>3 DEF FiguresInv

\* An event may stand for other figures, and says so.
LEMMA StoreEventStep == ASSUME FiguresInv, StoreEvent PROVE FiguresInv'
<1>1. UNCHANGED <<cal, day, asked, answers>> /\ moved' = (asked # NoDay)
  BY DEF StoreEvent
<1>2. PICK x \in Arrivals : table' = table \cup {x}
  BY DEF StoreEvent
<1>3. FiguresTypeOK'
  <2>1. x.at \in Nat
    BY AggregationAssumption
  <2>2. IsFiniteSet(table) /\ \A y \in table : y.at \in Nat
    BY DEF FiguresInv, FiguresTypeOK
  <2>3. IsFiniteSet(table')
    BY <1>2, <2>2, FS_AddElement
  <2>. QED
    BY <1>1, <1>2, <2>1, <2>2, <2>3 DEF FiguresInv, FiguresTypeOK
<1>4. Fresh'
  BY <1>1 DEF Fresh
<1>5. Projected'
  <2>1. \A n, d : Projection(n, d)' = Projection(n, d)
    BY <1>1 DEF Projection, DaysElapsed, DayEnd, DayStart, MonthStart, Midnight
  <2>. QED
    BY <1>1, <2>1 DEF FiguresInv, Projected
<1>. QED
  BY <1>3, <1>4, <1>5 DEF FiguresInv

\* A snapshot begins and ends without answers.
LEMMA EmptyStep ==
  ASSUME FiguresInv, UNCHANGED <<cal, day, table>>, answers' = <<>>,
         asked' = NoDay \/ asked' \in 0 .. DaysInMonth - 1
  PROVE  FiguresInv'
<1>1. FiguresTypeOK'
  BY DEF FiguresInv, FiguresTypeOK
<1>2. DOMAIN answers' = {}
  OBVIOUS
<1>. QED
  BY <1>1, <1>2 DEF FiguresInv, Fresh, Projected

\* An answer is of the table as it is, and the others still are.
LEMMA RunQueryStep == ASSUME FiguresInv, NEW q \in Query, RunQuery(q) PROVE FiguresInv'
<1>1. /\ asked # NoDay /\ q \notin DOMAIN answers /\ answers' = [r \in DOMAIN answers \cup {q} |-> IF r = q THEN AnswerTo(q) ELSE answers[r]]
      /\ UNCHANGED <<cal, day, table, asked, moved>>
  BY DEF RunQuery
<1>2. /\ DOMAIN answers' = DOMAIN answers \cup {q}
      /\ answers'[q] = AnswerTo(q)
      /\ \A r \in DOMAIN answers : answers'[r] = answers[r]
  BY <1>1
<1>3. FiguresTypeOK'
  BY <1>1 DEF FiguresInv, FiguresTypeOK
<1>4. Fresh'
  <2>1. \A r : AnswerTo(r)' = AnswerTo(r)
    BY <1>1, AnswersStand
  <2>2. asked' = asked /\ moved' = moved
    BY <1>1
  <2>. QED
    BY <1>1, <1>2, <2>1, <2>2 DEF FiguresInv, Fresh
<1>5. Projected'
  <2>1. \A n, d : Projection(n, d)' = Projection(n, d)
    BY <1>1 DEF Projection, DaysElapsed, DayEnd, DayStart, MonthStart, Midnight
  <2>2. CASE q = "forecastByProvider"
    <3>. DEFINE by == ByProvider(MonthStart, DayEnd(asked))
    <3>1. answers'["forecastByProvider"] = [p \in DOMAIN by |-> Projection(by[p], asked)]
      BY <1>2, <2>2 DEF AnswerTo, ForecastByProvider, Now
    <3>2. \A p \in DOMAIN by : by[p] \in Nat
      BY ByProviderAddsUp DEF FiguresInv
    <3>. HIDE DEF by
    <3>3. asked' = asked
      BY <1>1
    <3>4. \A p \in DOMAIN answers'["forecastByProvider"] :
            \E n \in Nat : answers'["forecastByProvider"][p] = Projection(n, asked)
      BY <3>1, <3>2
    <3>. QED
      BY <2>1, <3>3, <3>4 DEF Projected
  <2>3. CASE q # "forecastByProvider"
    <3>1. answers'["forecastByProvider"] = answers["forecastByProvider"]
          \/ "forecastByProvider" \notin DOMAIN answers'
      BY <1>2, <2>3
    <3>. QED
      BY <1>1, <1>2, <2>1, <2>3, <3>1 DEF FiguresInv, Projected
  <2>. QED
    BY <2>2, <2>3
<1>. QED
  BY <1>3, <1>4, <1>5 DEF FiguresInv

\* Complete and undisturbed answers are those of the table, and fit together.
LEMMA FreshAgree == ASSUME FiguresInv, Complete, ~ moved PROVE FiguresAgree /\ ThreeDays
<1>1. FiguresTypeOK /\ asked \in 0 .. DaysInMonth - 1 /\ asked \in Nat
  BY DEF FiguresInv, FiguresTypeOK, Complete
<1>2. \A q \in Query : answers[q] = AnswerTo(q)
  BY DEF FiguresInv, Fresh, Complete
<1>3. /\ answers["today"] = RangeTotal(DayStart(asked), DayEnd(asked))
      /\ answers["week"] = RangeTotal(DayEnd(asked) - Week * DayLen, DayEnd(asked))
      /\ answers["byProvider"] = ByProvider(DayStart(asked), DayEnd(asked))
      /\ answers["series"] = DailySeries(asked, Week)
      /\ answers["forecast"] = Forecast(asked)
      /\ answers["forecastByProvider"] = ForecastByProvider(asked)
  BY <1>2 DEF Query, AnswerTo, Now
<1>4. FiguresAgree
  <2>1. Total(answers["byProvider"]) = answers["today"]
    BY <1>1, <1>3, ByProviderAddsUp
  <2>2. /\ Total(answers["series"]) = answers["week"] /\ answers["series"][Week - 1] = answers["today"]
        /\ answers["today"] <= answers["week"]
    BY <1>1, <1>3, SeriesAddsUp
  <2>3. answers["forecast"] # Null =>
          Total([p \in DOMAIN answers["forecastByProvider"] |-> answers["forecastByProvider"][p].spent])
            = answers["forecast"].spent
    BY <1>1, <1>3, ForecastsAgree
  <2>. QED
    BY <2>1, <2>2, <2>3, Zenon DEF FiguresAgree
<1>5. ThreeDays
  <2>. SUFFICES ASSUME cal.zone = 0, cal.shift = 0
                PROVE  (answers["forecast"] # Null) <=>
                         Cardinality({d \in 0 .. asked : Between(Midnight(d), Midnight(d + 1)) # {}}) >= 3
    BY Zenon DEF ThreeDays
  <2>. DEFINE c == Cardinality(DOMAIN PerDayCost(MonthStart, DayEnd(asked), 0))
              D == {d \in 0 .. asked : Between(Midnight(d), Midnight(d + 1)) # {}}
  <2>1. c = Cardinality(D)
    BY <1>1, DaysWithEvents
  <2>2. Cardinality(D) \in Nat
    <3>1. D \in SUBSET (0 .. asked) /\ IsFiniteSet(0 .. asked)
      BY <1>1, FS_Interval
    <3>. HIDE DEF D
    <3>. QED
      BY <3>1, FS_Subset, FS_CardinalityType
  <2>3. Forecast(asked) = IF c < 3 THEN Null ELSE Projection(Total(PerDayCost(MonthStart, DayEnd(asked), 0)), asked)
    BY DEF Forecast
  <2>4. \A n : Projection(n, asked) # Null
    <3>1. "spent" \notin DOMAIN Null
      BY DEF Null
    <3>2. \A n : "spent" \in DOMAIN Projection(n, asked)
      BY DEF Projection
    <3>. QED
      BY <3>1, <3>2
  <2>5. Forecast(asked) # Null <=> ~ (c < 3)
    <3>. HIDE DEF c
    <3>. QED
      BY <2>3, <2>4
  <2>6. answers["forecast"] # Null <=> Cardinality(D) >= 3
    <3>. HIDE DEF c, D
    <3>. QED
      BY <1>3, <2>1, <2>2, <2>5
  <2>. QED
    BY <2>6
<1>. QED
  BY <1>4, <1>5

\* A forecast is one of its day, whatever came since.
LEMMA AlwaysSane == ASSUME FiguresInv PROVE ForecastSane
<1>. SUFFICES ASSUME Complete, NEW p \in DOMAIN answers["forecastByProvider"]
              PROVE  LET f == answers["forecastByProvider"][p] IN
                       /\ f.days \in 1 .. DaysInMonth
                       /\ f.days = (IF cal.shift < 0 /\ asked > cal.shiftDay THEN asked ELSE asked + 1)
                       /\ f.estimate >= f.spent
  BY Zenon DEF ForecastSane
<1>1. FiguresTypeOK /\ asked \in 0 .. DaysInMonth - 1
  BY DEF FiguresInv, FiguresTypeOK, Complete
<1>2. PICK n \in Nat : answers["forecastByProvider"][p] = Projection(n, asked)
  BY DEF FiguresInv, Projected, Complete, Query
<1>. QED
  BY <1>1, <1>2, ElapsedMeans, ProjectionSane

(* Whatever is stored during a snapshot and whenever midnight passes: the figures  *)
(* of an undisturbed snapshot agree with each other, a forecast counts the days up *)
(* to its own and is no lower than what was spent, and there is one from the third *)
(* day with an event on.                                                           *)
THEOREM FiguresAreSound == AggSpec => []AggregationSound
<1>1. AggInit => FiguresInv
  <2>. SUFFICES ASSUME AggInit PROVE FiguresInv
    OBVIOUS
  <2>1. FiguresTypeOK
    BY AggregationAssumption DEF AggInit, FiguresTypeOK
  <2>2. DOMAIN answers = {}
    BY DEF AggInit
  <2>. QED
    BY <2>1, <2>2 DEF FiguresInv, Fresh, Projected
<1>2. FiguresInv /\ [AggNext]_aggVars => FiguresInv'
  <2>. SUFFICES ASSUME FiguresInv, [AggNext]_aggVars PROVE FiguresInv'
    OBVIOUS
  <2>1. day \in 0 .. DaysInMonth - 1 /\ DaysInMonth \in Nat
    BY AggregationAssumption DEF FiguresInv, FiguresTypeOK
  <2>2. CASE MidnightPasses
    BY <2>1, <2>2, SnapshotStands DEF MidnightPasses
  <2>3. CASE Ask
    <3>1. answers' = <<>> /\ UNCHANGED <<cal, day, table>> /\ asked' = day
      BY <2>3 DEF Ask, FiguresInv, FiguresTypeOK
    <3>. QED
      BY <2>1, <3>1, EmptyStep
  <2>4. CASE Return
    BY <2>4, EmptyStep DEF Return
  <2>5. ASSUME NEW q \in Query, RunQuery(q) PROVE FiguresInv'
    BY <2>5, RunQueryStep
  <2>6. CASE UNCHANGED aggVars
    BY <2>1, <2>6, SnapshotStands DEF aggVars
  <2>. QED
    BY <2>2, <2>3, <2>4, <2>5, <2>6, StoreEventStep DEF AggNext
<1>3. FiguresInv => AggregationSound
  <2>1. ~ Complete \/ moved => FiguresAgree /\ ThreeDays
    BY Zenon DEF FiguresAgree, ThreeDays
  <2>. QED
    BY <2>1, FreshAgree, AlwaysSane DEF AggregationSound
<1>. QED
  BY <1>1, <1>2, <1>3, PTL DEF AggSpec

-----------------------------------------------------------------------------
\* The quotient by a positive number: the multiple that is no greater.
LEMMA FloorIs ==
  ASSUME NEW a \in Int, NEW d \in Nat, d > 0
  PROVE  a \div d \in Int /\ (a \div d) * d <= a /\ a < (a \div d) * d + d
<1>1. a \div d \in Int
  OBVIOUS
<1>2. d * (a \div d) <= a /\ a < d * (a \div d) + d
  OBVIOUS
<1>3. \A x, y \in Int : x * y = y * x
  OBVIOUS
<1>. QED
  BY <1>1, <1>2, <1>3

\* It is the quotient just when the multiples of the divisor say so.
LEMMA FloorAtLeast ==
  ASSUME NEW a \in Int, NEW d \in Nat, d > 0, NEW k \in Int
  PROVE  k <= a \div d <=> k * d <= a
<1>1. PICK q \in Int : q = a \div d /\ q * d <= a /\ a < q * d + d
  BY FloorIs
<1>2. \A x, y \in Int : x <= y => x * d <= y * d
  OBVIOUS
<1>3. \A x \in Int : (x + 1) * d = x * d + d /\ x * d \in Int
  OBVIOUS
<1>4. k <= q => k * d <= a
  BY <1>1, <1>2, <1>3
<1>5. k * d <= a => k <= q
  <2>. SUFFICES ASSUME k * d <= a, q + 1 <= k PROVE FALSE
    BY <1>1
  <2>1. (q + 1) * d <= k * d
    BY <1>1, <1>2
  <2>. QED
    BY <1>1, <1>3, <2>1
<1>. QED
  BY <1>1, <1>4, <1>5

-----------------------------------------------------------------------------
(* The figures of a team.                                                      *)

RowsOf(e) == {y \in merged : y.event = e}
DailyRow  == [event : Work, user : User, level : {"full", "redacted", "aggregateOnly"}, up : Nat]
AskedOK(o) ==
  /\ o \in [step : 1 .. 9, by : User, period : Nat, now : Nat, since : Int, today : Int]
  /\ UtcDayLen <= o.now /\ o.now <= clock
  /\ o.since <= o.now
  /\ o.period = Today => o.since = (IF o.now = UtcMidnight(o.now) THEN o.now - 1 ELSE UtcMidnight(o.now))

TeamTypeOK ==
  /\ clock \in Nat /\ UtcDayLen <= clock
  /\ zone \in Int /\ 0 - UtcDayLen < zone /\ zone < UtcDayLen
  /\ sent \subseteq {a.event : a \in applied} /\ applied \subseteq [event : Work, user : User]
  /\ tangled \subseteq Node
  /\ merged \subseteq DailyRow /\ \A x \in merged : [event |-> x.event, user |-> x.user] \in applied
  /\ DOMAIN nodes \subseteq Node
  /\ \A n \in DOMAIN nodes : nodes[n].user \in User /\ nodes[n].seen \in Nat /\ nodes[n].seen <= clock
  /\ overview = Asleep \/ AskedOK(overview)
  /\ DOMAIN figures = {QueryOrder[i] : i \in 1 .. overview.step - 1}

\* A row is no newer than the last upload of its node.
Noted == \A x \in merged : x.event.node \in DOMAIN nodes /\ x.up <= nodes[x.event.node].seen

\* While nothing is uploaded an answer stays true.
Undisturbed == ~ disturbed => \A q \in DOMAIN figures : figures[q] = FigureOf(q)

\* While no daily row is overwritten, what was counted is still there.
AtMost(a, b) == a \in Nat /\ b \in Nat /\ a <= b
Growing ==
  ~ shrunk =>
    /\ "members" \in DOMAIN figures => AtMost(SumUp(figures["members"].cost), Cardinality(InWindow))
    /\ "providers" \in DOMAIN figures => /\ AtMost(SumUp(figures["providers"]), Cardinality(InWindow))
                                         /\ AtMost(SumUp(figures["members"].cost), SumUp(figures["providers"]))
    /\ "total" \in DOMAIN figures => AtMost(SumUp(figures["providers"]), figures["total"])
    /\ "month" \in DOMAIN figures => AtMost(figures["month"], Cardinality(InMonth))
    /\ "monthModels" \in DOMAIN figures => AtMost(figures["month"], SumUp(figures["monthModels"]))

\* Whoever was active has a machine that was seen.
SeenIn(N, u) == \E n \in MachinesOf(u) : n \in DOMAIN N /\ Recent(N[n].seen)
ActiveSeen ==
  "members" \in DOMAIN figures => \A u \in figures["members"].active :
    SeenIn(nodes, u) /\ ("nodes" \in DOMAIN figures => SeenIn(figures["nodes"], u))

TeamInv == TeamTypeOK /\ IsFiniteSet(merged) /\ Noted /\ CountedOnce /\ Undisturbed /\ Growing /\ ActiveSeen

-----------------------------------------------------------------------------
\* The days and months in numbers.
LEMMA DayLens ==
  /\ UtcDayLen \in Nat /\ UtcDayLen > 0 /\ MonthLen \in Nat /\ MonthLen > 0
  /\ \A k \in Int : k * UtcDayLen \in Int /\ MonthLen * k \in Int
  /\ \A t \in Int : UtcDay(t) \in Int /\ UtcMidnight(t) \in Int /\ UtcMidnight(t) <= t /\ t < UtcMidnight(t) + UtcDayLen
  /\ \A t \in Int, k \in Int : k <= UtcDay(t) <=> k * UtcDayLen <= t
<1>1. UtcDayLen \in Nat /\ UtcDayLen > 0 /\ MonthLen \in Nat /\ MonthLen > 0
  BY TeamFiguresAssumption
<1>2. \A k \in Int : k * UtcDayLen \in Int /\ MonthLen * k \in Int
  BY <1>1
<1>. QED
  BY <1>1, <1>2, FloorIs, FloorAtLeast DEF UtcDay, UtcMidnight

\* What a query selects is finite.
LEMMA SelectedFinite ==
  ASSUME IsFiniteSet(merged), NEW d, NEW t
  PROVE  /\ IsFiniteSet(FromDay(d)) /\ Cardinality(FromDay(d)) \in Nat
         /\ IsFiniteSet(RowsSince(t)) /\ Cardinality(RowsSince(t)) \in Nat
<1>1. FromDay(d) \in SUBSET merged /\ RowsSince(t) \in SUBSET merged
  BY DEF FromDay, RowsSince
<1>. QED
  BY <1>1, FS_Subset, FS_CardinalityType

LEMMA PartFinite ==
  ASSUME IsFiniteSet(merged), NEW S \in SUBSET merged
  PROVE  IsFiniteSet(S) /\ Cardinality(S) \in Nat
BY FS_Subset, FS_CardinalityType

LEMMA MonthFinite == IsFiniteSet(merged) => IsFiniteSet(InMonth) /\ Cardinality(InMonth) \in Nat
<1>1. InMonth \in SUBSET merged
  BY DEF InMonth, FromDay
<1>. QED
  BY <1>1, PartFinite

\* Counted by member, by model or by project, a selection is counted whole.
LEMMA PerUserAddsUp ==
  ASSUME TeamTypeOK, NEW S \in SUBSET merged, IsFiniteSet(S)
  PROVE  SumUp(PerUser(S)) = Cardinality(S)
<1>. DEFINE h == [x \in S |-> x.user]
            f == [u \in User |-> Cardinality({x \in S : h[x] = u})]
<1>1. \A x \in S : h[x] \in User
  BY DEF TeamTypeOK, DailyRow
<1>2. PerUser(S) = f
  BY DEF PerUser
<1>3. IsFiniteSet(User)
  BY TeamFiguresAssumption
<1>4. Sum(f) = Cardinality(S)
  <2>. HIDE DEF h
  <2>. QED
    BY <1>1, <1>3, SumOfFibres
<1>. QED
  BY <1>2, <1>4, Zenon DEF SumUp, Sum

LEMMA PerModelAddsUp ==
  ASSUME NEW S, IsFiniteSet(S)
  PROVE  SumUp(PerModel(S)) = Cardinality(S)
<1>. DEFINE h == [x \in S |-> x.event.model]
            P == {x.event.model : x \in S}
            f == [u \in P |-> Cardinality({x \in S : h[x] = u})]
<1>1. IsFiniteSet(P) /\ \A x \in S : h[x] \in P
  <2>1. P = {h[x] : x \in S} /\ h = [x \in S |-> h[x]]
    OBVIOUS
  <2>. HIDE DEF h
  <2>2. IsFiniteSet({h[x] : x \in S})
    BY <2>1, ImageFinite
  <2>. QED
    BY <2>1, <2>2
<1>2. PerModel(S) = f
  BY DEF PerModel
<1>4. Sum(f) = Cardinality(S)
  <2>. HIDE DEF h, P
  <2>. QED
    BY <1>1, SumOfFibres
<1>. QED
  BY <1>2, <1>4, Zenon DEF SumUp, Sum

LEMMA PerProjectAddsUp ==
  ASSUME NEW S, IsFiniteSet(S)
  PROVE  SumUp(PerProject(S)) = Cardinality(S)
<1>. DEFINE h == [x \in S |-> ProjectKey(x)]
            P == {ProjectKey(x) : x \in S}
            f == [u \in P |-> Cardinality({x \in S : h[x] = u})]
<1>1. IsFiniteSet(P) /\ \A x \in S : h[x] \in P
  <2>1. P = {h[x] : x \in S} /\ h = [x \in S |-> h[x]]
    OBVIOUS
  <2>. HIDE DEF h
  <2>2. IsFiniteSet({h[x] : x \in S})
    BY <2>1, ImageFinite
  <2>. QED
    BY <2>1, <2>2
<1>2. PerProject(S) = f
  BY DEF PerProject
<1>4. Sum(f) = Cardinality(S)
  <2>. HIDE DEF h, P
  <2>. QED
    BY <1>1, SumOfFibres
<1>. QED
  BY <1>2, <1>4, Zenon DEF SumUp, Sum

\* Of an account whose machines are all straight, the rows from a day on are the events
\* uploaded from that day on.
LEMMA RowsAreEvents ==
  ASSUME TeamInv, NEW u \in User, Straight(u), NEW d
  PROVE  Cardinality({x \in FromDay(d) : x.user = u}) = Cardinality({e \in Uploaded(u) : UtcDay(e.at) >= d})
<1>. DEFINE R == {x \in FromDay(d) : x.user = u}
            E == {e \in Uploaded(u) : UtcDay(e.at) >= d}
            f == [x \in R |-> x.event]
<1>1. \A x \in R : x \in merged /\ x.event \in Uploaded(u) /\ UtcDay(x.event.at) >= d
  <2>. SUFFICES ASSUME NEW x \in R PROVE x \in merged /\ x.event \in Uploaded(u) /\ UtcDay(x.event.at) >= d
    OBVIOUS
  <2>1. x \in merged /\ x.user = u /\ UtcDay(x.event.at) >= d
    BY DEF FromDay
  <2>2. [event |-> x.event, user |-> u] \in applied
    BY <2>1 DEF TeamInv, TeamTypeOK
  <2>. QED
    BY <2>1, <2>2 DEF Uploaded
<1>2. \A e \in Uploaded(u) : \E x \in merged : x.user = u /\ RowsOf(e) = {x}
  <2>. SUFFICES ASSUME NEW e \in Uploaded(u) PROVE \E x \in merged : x.user = u /\ RowsOf(e) = {x}
    OBVIOUS
  <2>1. PICK a \in applied : a.user = u /\ a.event = e
    BY DEF Uploaded
  <2>2. e.node \notin tangled
    BY DEF Straight, MachinesOf
  <2>. QED
    BY <2>1, <2>2 DEF TeamInv, CountedOnce, RowsOf
<1>3. f \in [R -> E]
  BY <1>1
<1>4. \A x, y \in R : x.event = y.event => x = y
  <2>. SUFFICES ASSUME NEW x \in R, NEW y \in R, x.event = y.event PROVE x = y
    OBVIOUS
  <2>1. x \in RowsOf(x.event) /\ y \in RowsOf(x.event)
    BY <1>1 DEF RowsOf
  <2>. QED
    BY <1>1, <1>2, <2>1
<1>5. \A e \in E : \E x \in R : f[x] = e
  <2>. SUFFICES ASSUME NEW e \in E PROVE \E x \in R : x.event = e
    OBVIOUS
  <2>1. PICK x \in merged : x.user = u /\ RowsOf(e) = {x}
    BY <1>2
  <2>2. x.event = e
    BY <2>1 DEF RowsOf
  <2>. QED
    BY <2>1, <2>2 DEF FromDay
<1>6. f \in Bijection(R, E)
  <2>1. f \in Surjection(R, E)
    BY <1>3, <1>5, Fun_IsSurj
  <2>2. f \in Injection(R, E)
    BY <1>3, <1>4 DEF Injection, IsInjective
  <2>. QED
    BY <2>1, <2>2 DEF Bijection
<1>7. IsFiniteSet(R)
  <2>1. R \in SUBSET merged
    BY <1>1
  <2>. HIDE DEF R
  <2>. QED
    BY <2>1, PartFinite DEF TeamInv
<1>. HIDE DEF R, E, f
<1>8. Cardinality(E) = Cardinality(R)
  BY <1>6, <1>7, FS_Bijection DEF ExistsBijection
<1>. QED
  BY <1>8 DEF R, E

-----------------------------------------------------------------------------
(* Uploads.                                                                    *)

\* The rows of an event after an upload: of another machine, as before; of this one, one
\* if there was one of the same kind at most and no daily row lost it.
LEMMA OneRow ==
  ASSUME TeamTypeOK, CountedOnce, NEW n \in Node, NEW u \in User, NEW B \in SUBSET Pending(n), NEW l \in Levels,
         merged' = (IF l = "aggregateOnly" THEN UpsertBuckets(B, u) ELSE UpsertEvents(B, u, l)),
         applied' = applied \cup {[event |-> e, user |-> u] : e \in B},
         tangled' = (IF CountsTwice(B, u, l) \/ Loses(B, u, l) THEN tangled \cup {n} ELSE tangled)
  PROVE  \A a \in applied' : a.event.node \notin tangled' =>
           \E x \in merged' : x.user = a.user /\ {y \in merged' : y.event = a.event} = {x}
<1>. SUFFICES ASSUME NEW a \in applied', a.event.node \notin tangled'
              PROVE  \E x \in merged' : x.user = a.user /\ {y \in merged' : y.event = a.event} = {x}
  OBVIOUS
<1>. DEFINE e == a.event
            new == [event |-> e, user |-> u, level |-> l, up |-> clock]
<1>1. B \in SUBSET Work /\ \A b \in B : b.node = n
  BY DEF Pending
<1>2. e.node \notin tangled
  OBVIOUS
<1>3. a \in applied => \E x \in merged : x.user = a.user /\ {y \in merged : y.event = e} = {x}
  BY <1>2 DEF CountedOnce
<1>4. a \in applied \/ (e \in B /\ a.user = u)
  OBVIOUS
<1>. HIDE DEF e
<1>5. CASE e.node # n
  <2>1. a \in applied /\ e \notin B
    BY <1>1, <1>4, <1>5
  <2>2. \A x \in Overwritten(B, u) : x.event.node = n
    <3>. SUFFICES ASSUME NEW x \in Overwritten(B, u) PROVE x.event.node = n
      OBVIOUS
    <3>1. PICK b \in B : DailyKey(b) = DailyKey(x.event)
      BY DEF Overwritten
    <3>2. b.node = x.event.node
      BY <3>1 DEF DailyKey
    <3>. QED
      BY <1>1, <3>2
  <2>3. \A y : y.event = e => (y \in merged' <=> y \in merged)
    BY <1>5, <2>1, <2>2 DEF UpsertBuckets, UpsertEvents, Redacted
  <2>4. {y \in merged' : y.event = e} = {y \in merged : y.event = e}
    BY <2>3
  <2>. QED
    BY <1>3, <2>1, <2>4 DEF e
<1>6. CASE e.node = n
  <2>1. ~ CountsTwice(B, u, l) /\ ~ Loses(B, u, l)
    BY <1>6 DEF e
  <2>2. \A x \in merged : x.event \in B => (x.user = u /\ (IsDaily(x) <=> l = "aggregateOnly"))
    BY <2>1 DEF CountsTwice, IsDaily
  <2>3. e \in B => a.user = u
    <3>. SUFFICES ASSUME e \in B, a \in applied PROVE a.user = u
      BY <1>4
    <3>1. PICK x \in merged : x.user = a.user /\ {y \in merged : y.event = e} = {x}
      BY <1>3
    <3>2. x.event = e
      BY <3>1
    <3>. QED
      BY <2>2, <3>1, <3>2
  <2>4. CASE l = "aggregateOnly" /\ e \in B
    <3>1. \A y \in merged : y.event = e => y \in Overwritten(B, u)
      BY <2>2, <2>4 DEF Overwritten
    <3>2. {y \in merged' : y.event = e} = {new} /\ new \in merged' /\ new.user = u
      BY <2>4, <3>1 DEF UpsertBuckets, Redacted
    <3>. QED
      BY <2>3, <2>4, <3>2 DEF e
  <2>5. CASE l = "aggregateOnly" /\ e \notin B
    <3>1. \A y \in Overwritten(B, u) : y.event # e
      BY <2>1, <2>5 DEF Loses
    <3>2. {y \in merged' : y.event = e} = {y \in merged : y.event = e}
      BY <2>5, <3>1 DEF UpsertBuckets, Redacted
    <3>. QED
      BY <1>3, <1>4, <2>5, <3>2 DEF e
  <2>6. CASE l # "aggregateOnly" /\ e \in B /\ HasRow(e, u)
    <3>1. PICK x \in merged : x.event = e /\ x.user = u
      BY <2>6 DEF HasRow
    <3>2. a \in applied
      <4>1. [event |-> e, user |-> u] \in applied
        BY <3>1 DEF TeamTypeOK
      <4>2. a \in [event : Work, user : User] \/ a \in {[event |-> b, user |-> u] : b \in B}
        BY DEF TeamTypeOK
      <4>3. a = [event |-> a.event, user |-> a.user]
        BY <4>2
      <4>. QED
        BY <2>3, <2>6, <4>1, <4>3 DEF e
    <3>3. {y \in merged' : y.event = e} = {y \in merged : y.event = e}
      BY <2>6 DEF UpsertEvents, Redacted
    <3>. QED
      BY <1>3, <3>2, <3>3 DEF e
  <2>7. CASE l # "aggregateOnly" /\ e \in B /\ ~ HasRow(e, u)
    <3>1. \A y \in merged : y.event # e
      BY <2>2, <2>7 DEF HasRow
    <3>2. {y \in merged' : y.event = e} = {new} /\ new \in merged' /\ new.user = u
      BY <2>7, <3>1 DEF UpsertEvents, Redacted
    <3>. QED
      BY <2>3, <2>7, <3>2 DEF e
  <2>8. CASE l # "aggregateOnly" /\ e \notin B
    <3>1. {y \in merged' : y.event = e} = {y \in merged : y.event = e}
      BY <2>8 DEF UpsertEvents, Redacted
    <3>. QED
      BY <1>3, <1>4, <2>8, <3>1 DEF e
  <2>. QED
    BY <2>4, <2>5, <2>6, <2>7, <2>8
<1>. QED
  BY <1>5, <1>6

\* The rows of a batch are finitely many.
LEMMA BatchFinite ==
  ASSUME NEW B \in SUBSET Work, NEW u, NEW l
  PROVE  IsFiniteSet(Redacted(B, u, l))
<1>. DEFINE h == [e \in B |-> [event |-> e, user |-> u, level |-> l, up |-> clock]]
<1>1. IsFiniteSet(B)
  BY TeamFiguresAssumption, FS_Subset
<1>2. h = [e \in B |-> h[e]] /\ Redacted(B, u, l) = {h[e] : e \in B}
  BY DEF Redacted
<1>. HIDE DEF h
<1>. QED
  BY <1>1, <1>2, ImageFinite

\* What rows there are after an upload.
LEMMA RowsAfter ==
  ASSUME TeamTypeOK, NEW n \in Node, NEW u \in User, NEW B \in SUBSET Pending(n), NEW l \in Levels, IsFiniteSet(merged),
         merged' = (IF l = "aggregateOnly" THEN UpsertBuckets(B, u) ELSE UpsertEvents(B, u, l))
  PROVE  /\ merged' \subseteq DailyRow /\ IsFiniteSet(merged')
         /\ \A x \in merged' : x \in merged \/ (x.event \in B /\ x.event.node = n /\ x.user = u /\ x.up = clock)
         /\ ~ (l = "aggregateOnly" /\ Overwritten(B, u) # {}) => merged \subseteq merged'
<1>1. B \in SUBSET Work /\ \A b \in B : b.node = n
  BY DEF Pending
<1>2. l \in {"full", "redacted", "aggregateOnly"} /\ clock \in Nat /\ merged \subseteq DailyRow
  BY TeamFiguresAssumption DEF TeamTypeOK
<1>3. ASSUME NEW C \in SUBSET B
      PROVE  Redacted(C, u, l) \subseteq DailyRow /\ \A x \in Redacted(C, u, l) : x.event \in B /\ x.user = u /\ x.up = clock
  BY <1>1, <1>2 DEF Redacted, DailyRow
<1>4. CASE l = "aggregateOnly"
  <2>1. merged' = (merged \ Overwritten(B, u)) \cup Redacted(B, u, l)
    BY <1>4 DEF UpsertBuckets
  <2>2. IsFiniteSet(merged \ Overwritten(B, u)) /\ IsFiniteSet(Redacted(B, u, l))
    BY <1>1, BatchFinite, FS_Subset
  <2>3. IsFiniteSet(merged')
    BY <2>1, <2>2, FS_Union
  <2>. QED
    BY <1>1, <1>2, <1>3, <1>4, <2>1, <2>3
<1>5. CASE l # "aggregateOnly"
  <2>. DEFINE C == {e \in B : ~HasRow(e, u)}
  <2>1. merged' = merged \cup Redacted(C, u, l) /\ C \in SUBSET B /\ C \in SUBSET Work
    BY <1>1, <1>5 DEF UpsertEvents
  <2>. HIDE DEF C
  <2>2. IsFiniteSet(merged')
    BY <2>1, BatchFinite, FS_Union
  <2>. QED
    BY <1>1, <1>2, <1>3, <1>5, <2>1, <2>2
<1>. QED
  BY <1>4, <1>5

\* Selections of more rows are larger.
LEMMA SelectionsGrow ==
  ASSUME IsFiniteSet(merged), IsFiniteSet(merged'), merged \subseteq merged', UNCHANGED overview
  PROVE  /\ AtMost(Cardinality(InWindow), Cardinality(InWindow'))
         /\ AtMost(Cardinality(InMonth), Cardinality(InMonth'))
<1>1. InWindow \in SUBSET merged /\ InMonth \in SUBSET merged /\ InWindow' \in SUBSET merged' /\ InMonth' \in SUBSET merged'
  BY DEF InWindow, InMonth, FromDay
<1>2. InWindow \in SUBSET InWindow' /\ InMonth \in SUBSET InMonth'
  BY DEF InWindow, InMonth, FromDay, UtcMonth, UtcDay
<1>3. IsFiniteSet(InWindow') /\ IsFiniteSet(InMonth')
  BY <1>1, FS_Subset
<1>. QED
  BY <1>2, <1>3, FS_Subset, FS_CardinalityType DEF AtMost

\* What is known of the nodes after an upload.
LEMMA NodesAfter ==
  ASSUME TeamTypeOK, NEW n \in Node, NEW u \in User, nodes' = Touched(n, u)
  PROVE  /\ n \in DOMAIN nodes' /\ nodes'[n].seen = clock
         /\ DOMAIN nodes \subseteq DOMAIN nodes' /\ DOMAIN nodes' \subseteq Node
         /\ \A m \in DOMAIN nodes' : nodes'[m].user \in User /\ nodes'[m].seen \in Nat /\ nodes'[m].seen <= clock
         /\ \A m \in DOMAIN nodes : /\ nodes[m].seen \in Nat /\ nodes[m].seen <= nodes'[m].seen
<1>. DEFINE D == DOMAIN nodes \cup {n}
            touched == [user |-> IF n \in DOMAIN nodes THEN nodes[n].user ELSE u, seen |-> clock]
<1>1. nodes' = [m \in D |-> IF m # n THEN nodes[m] ELSE touched]
  BY DEF Touched
<1>2. clock \in Nat /\ DOMAIN nodes \subseteq Node
  BY DEF TeamTypeOK
<1>3. \A m \in DOMAIN nodes : nodes[m].user \in User /\ nodes[m].seen \in Nat /\ nodes[m].seen <= clock
  BY DEF TeamTypeOK
<1>4. touched.user \in User /\ touched.seen = clock
  BY <1>3
<1>. HIDE DEF touched
<1>5. DOMAIN nodes' = D /\ nodes'[n] = touched /\ \A m \in D : m # n => nodes'[m] = nodes[m] /\ m \in DOMAIN nodes
  BY <1>1
<1>6. \A m \in D : nodes'[m].user \in User /\ nodes'[m].seen \in Nat /\ nodes'[m].seen <= clock
  BY <1>2, <1>3, <1>4, <1>5
<1>7. \A m \in DOMAIN nodes : nodes[m].seen \in Nat /\ nodes[m].seen <= nodes'[m].seen
  BY <1>3, <1>4, <1>5
<1>. QED
  BY <1>2, <1>4, <1>5, <1>6, <1>7

LEMMA UploadStep == ASSUME TeamInv, NEW n \in Node, NEW u \in User, Upload(n, u) PROVE TeamInv'
<1>1. PICK B \in SUBSET Pending(n) \ {{}}, l \in Levels, answered \in BOOLEAN :
        /\ merged' = (IF l = "aggregateOnly" THEN UpsertBuckets(B, u) ELSE UpsertEvents(B, u, l))
        /\ applied' = applied \cup {[event |-> e, user |-> u] : e \in B}
        /\ sent' = (IF answered THEN sent \cup B ELSE sent)
        /\ nodes' = Touched(n, u)
        /\ tangled' = (IF CountsTwice(B, u, l) \/ Loses(B, u, l) THEN tangled \cup {n} ELSE tangled)
        /\ disturbed' = (overview # Asleep)
        /\ shrunk' = (shrunk \/ (l = "aggregateOnly" /\ Overwritten(B, u) # {}))
        /\ UNCHANGED <<clock, zone, overview, figures>>
  BY Zenon DEF Upload
<1>2. TeamTypeOK /\ IsFiniteSet(merged) /\ Noted /\ CountedOnce /\ Undisturbed /\ Growing /\ ActiveSeen
  BY DEF TeamInv
<1>3. B \in SUBSET Work
  BY <1>1 DEF Pending
<1>4. /\ merged' \subseteq DailyRow /\ IsFiniteSet(merged')
      /\ \A x \in merged' : x \in merged \/ (x.event \in B /\ x.event.node = n /\ x.user = u /\ x.up = clock)
      /\ ~ (l = "aggregateOnly" /\ Overwritten(B, u) # {}) => merged \subseteq merged'
  BY <1>1, <1>2, RowsAfter
<1>5. /\ n \in DOMAIN nodes' /\ nodes'[n].seen = clock
      /\ DOMAIN nodes \subseteq DOMAIN nodes' /\ DOMAIN nodes' \subseteq Node
      /\ \A m \in DOMAIN nodes' : nodes'[m].user \in User /\ nodes'[m].seen \in Nat /\ nodes'[m].seen <= clock
      /\ \A m \in DOMAIN nodes : nodes[m].seen \in Nat /\ nodes[m].seen <= nodes'[m].seen
  BY <1>1, <1>2, NodesAfter
<1>6. TeamTypeOK'
  <2>1. applied' \subseteq [event : Work, user : User] /\ tangled' \subseteq Node
    BY <1>1, <1>2, <1>3 DEF TeamTypeOK
  <2>2. sent' \subseteq {a.event : a \in applied'}
    <3>. SUFFICES ASSUME NEW e \in sent' PROVE \E a \in applied' : a.event = e
      OBVIOUS
    <3>1. CASE e \in sent
      <4>1. PICK a \in applied : a.event = e
        BY <1>2, <3>1 DEF TeamTypeOK
      <4>. QED
        BY <1>1, <4>1
    <3>2. CASE e \in B
      <4>1. [event |-> e, user |-> u] \in applied'
        BY <1>1, <3>2
      <4>. QED
        BY <4>1
    <3>. QED
      BY <1>1, <3>1, <3>2
  <2>3. \A x \in merged' : [event |-> x.event, user |-> x.user] \in applied'
    <3>. SUFFICES ASSUME NEW x \in merged' PROVE [event |-> x.event, user |-> x.user] \in applied'
      OBVIOUS
    <3>1. CASE x \in merged
      BY <1>1, <1>2, <3>1 DEF TeamTypeOK
    <3>2. CASE x.event \in B /\ x.user = u
      BY <1>1, <3>2
    <3>. QED
      BY <1>4, <3>1, <3>2
  <2>4. (overview = Asleep \/ AskedOK(overview))'
    BY <1>1, <1>2 DEF TeamTypeOK, AskedOK, UtcMidnight, UtcDay
  <2>5. (DOMAIN figures = {QueryOrder[i] : i \in 1 .. overview.step - 1})'
    BY <1>1, <1>2 DEF TeamTypeOK
  <2>. QED
    BY <1>1, <1>2, <1>4, <1>5, <2>1, <2>2, <2>3, <2>4, <2>5 DEF TeamTypeOK
<1>7. Noted'
  <2>. SUFFICES ASSUME NEW x \in merged' PROVE x.event.node \in DOMAIN nodes' /\ x.up <= nodes'[x.event.node].seen
    BY DEF Noted
  <2>1. CASE x \in merged
    <3>1. x.event.node \in DOMAIN nodes /\ x.up \in Nat /\ x.up <= nodes[x.event.node].seen
      BY <1>2, <2>1 DEF TeamTypeOK, DailyRow, Noted
    <3>2. nodes[x.event.node].seen \in Nat /\ nodes'[x.event.node].seen \in Nat
          /\ nodes[x.event.node].seen <= nodes'[x.event.node].seen
      BY <1>5, <3>1
    <3>. QED
      BY <1>5, <3>1, <3>2
  <2>2. CASE x.event.node = n /\ x.up = clock
    BY <1>2, <1>5, <2>2 DEF TeamTypeOK
  <2>. QED
    BY <1>4, <2>1, <2>2
<1>8. CountedOnce'
  <2>1. \A a \in applied' : a.event.node \notin tangled' =>
          \E x \in merged' : x.user = a.user /\ {y \in merged' : y.event = a.event} = {x}
    BY <1>1, <1>2, OneRow
  <2>. QED
    BY <1>6, <2>1 DEF CountedOnce, TeamTypeOK
<1>9. Undisturbed'
  <2>1. CASE overview = Asleep
    <3>1. DOMAIN figures = {}
      BY <1>2, <2>1 DEF TeamTypeOK, Asleep
    <3>. QED
      BY <1>1, <3>1 DEF Undisturbed
  <2>2. CASE overview # Asleep
    BY <1>1, <2>2 DEF Undisturbed
  <2>. QED
    BY <2>1, <2>2
<1>10. Growing'
  <2>. SUFFICES ASSUME ~ shrunk' PROVE Growing'
    BY DEF Growing
  <2>1. ~ shrunk /\ merged \subseteq merged'
    BY <1>1, <1>4
  <2>2. /\ AtMost(Cardinality(InWindow), Cardinality(InWindow'))
        /\ AtMost(Cardinality(InMonth), Cardinality(InMonth'))
    BY <1>1, <1>2, <1>4, <2>1, SelectionsGrow
  <2>3. \A a, b, c : AtMost(a, b) /\ AtMost(b, c) => AtMost(a, c)
    BY DEF AtMost
  <2>4. figures' = figures
    BY <1>1
  <2>. QED
    BY <1>2, <2>1, <2>2, <2>3, <2>4 DEF Growing
<1>11. ActiveSeen'
  <2>1. overview' = overview /\ figures' = figures /\ \A t : Recent(t)' <=> Recent(t)
    BY <1>1 DEF Recent
  <2>2. \A v : MachinesOf(v) \subseteq MachinesOf(v)'
    <3>1. \A v : Uploaded(v) \subseteq Uploaded(v)'
      BY <1>1 DEF Uploaded
    <3>. QED
      BY <3>1 DEF MachinesOf
  <2>. SUFFICES ASSUME "members" \in DOMAIN figures, NEW v \in figures["members"].active
                PROVE  SeenIn(nodes, v)' /\ ("nodes" \in DOMAIN figures => SeenIn(figures["nodes"], v)')
    BY <2>1 DEF ActiveSeen
  <2>3. PICK m \in MachinesOf(v) : m \in DOMAIN nodes /\ Recent(nodes[m].seen)
    BY <1>2 DEF ActiveSeen, SeenIn
  <2>4. overview.now \in Nat
    <3>1. overview # Asleep
      BY <1>2 DEF TeamTypeOK, Asleep
    <3>. QED
      BY <1>2, <3>1 DEF TeamTypeOK, AskedOK
  <2>5. m \in DOMAIN nodes' /\ Recent(nodes'[m].seen)
    <3>1. /\ m \in DOMAIN nodes' /\ nodes[m].seen \in Nat /\ nodes'[m].seen \in Nat
          /\ nodes[m].seen <= nodes'[m].seen
      BY <1>5, <2>3
    <3>2. UtcDayLen \in Nat
      BY TeamFiguresAssumption
    <3>. QED
      BY <2>3, <2>4, <3>1, <3>2 DEF Recent
  <2>6. "nodes" \in DOMAIN figures => SeenIn(figures["nodes"], v)
    BY <1>2 DEF ActiveSeen
  <2>7. SeenIn(nodes, v)'
    <3>1. m \in MachinesOf(v)' /\ m \in DOMAIN nodes' /\ nodes'[m].seen >= overview'.now - UtcDayLen
      BY <2>1, <2>2, <2>3, <2>5 DEF Recent
    <3>. QED
      BY <2>5, <3>1 DEF SeenIn, Recent
  <2>8. "nodes" \in DOMAIN figures => SeenIn(figures["nodes"], v)'
    <3>. SUFFICES ASSUME "nodes" \in DOMAIN figures PROVE SeenIn(figures["nodes"], v)'
      OBVIOUS
    <3>1. PICK k \in MachinesOf(v) : k \in DOMAIN figures["nodes"] /\ Recent(figures["nodes"][k].seen)
      BY <2>6 DEF SeenIn
    <3>2. k \in MachinesOf(v)'
      BY <2>2, <3>1
    <3>. QED
      BY <2>1, <3>1, <3>2 DEF SeenIn, Recent
  <2>. QED
    BY <2>7, <2>8
<1>. QED
  BY <1>4, <1>6, <1>7, <1>8, <1>9, <1>10, <1>11 DEF TeamInv

-----------------------------------------------------------------------------
(* Overviews.                                                                  *)

\* What an answer depends on.
SameSource ==
  /\ UNCHANGED <<merged, applied, nodes>>
  /\ overview'.since = overview.since /\ overview'.now = overview.now
  /\ overview'.by = overview.by /\ overview'.today = overview.today

LEMMA AnswerStands ==
  ASSUME SameSource
  PROVE  /\ InWindow' = InWindow /\ InMonth' = InMonth /\ \A t : Recent(t)' <=> Recent(t)
         /\ \A q : FigureOf(q)' = FigureOf(q)
<1>1. merged' = merged /\ nodes' = nodes
  BY DEF SameSource
<1>2. /\ overview'.since = overview.since /\ overview'.now = overview.now
      /\ overview'.by = overview.by /\ overview'.today = overview.today
  BY DEF SameSource
<1>3. InWindow' = InWindow /\ InMonth' = InMonth /\ OfProjects' = OfProjects /\ RowsSince(overview.today)' = RowsSince(overview.today)
  BY <1>1, <1>2 DEF InWindow, InMonth, FromDay, OfProjects, RowsSince, UtcMonth, UtcDay, IsDaily
<1>4. \A t : Recent(t)' <=> Recent(t)
  BY <1>2 DEF Recent
<1>5. /\ PerUser(InWindow)' = PerUser(InWindow) /\ ActiveIn(InWindow)' = ActiveIn(InWindow)
      /\ PerModel(InWindow)' = PerModel(InWindow) /\ PerModel(InMonth)' = PerModel(InMonth)
      /\ PerProject(OfProjects)' = PerProject(OfProjects)
  BY <1>1, <1>3, <1>4 DEF PerUser, ActiveIn, PerModel, PerProject, ProjectKey
<1>. QED
  BY <1>1, <1>3, <1>4, <1>5 DEF FigureOf

\* With no answers nothing is claimed of them.
LEMMA NoFigures ==
  ASSUME TeamInv, UNCHANGED <<clock, eventVars>>, figures' = <<>>,
         overview' = Asleep \/ (AskedOK(overview)' /\ overview'.step = 1)
  PROVE  TeamInv'
<1>1. DOMAIN figures' = {}
  OBVIOUS
<1>2. UNCHANGED <<clock, zone, sent, applied, merged, nodes, tangled>>
  BY DEF eventVars
<1>3. overview'.step \in {0, 1} /\ (overview = Asleep \/ AskedOK(overview))'
  BY DEF Asleep
<1>4. TeamTypeOK'
  <2>1. (DOMAIN figures = {QueryOrder[i] : i \in 1 .. overview.step - 1})'
    BY <1>1, <1>3
  <2>. QED
    BY <1>2, <1>3, <2>1 DEF TeamInv, TeamTypeOK
<1>5. IsFiniteSet(merged)' /\ Noted' /\ CountedOnce'
  BY <1>2 DEF TeamInv, Noted, CountedOnce
<1>6. Undisturbed' /\ Growing' /\ ActiveSeen'
  BY <1>1 DEF Undisturbed, Growing, ActiveSeen
<1>. QED
  BY <1>4, <1>5, <1>6 DEF TeamInv

LEMMA AskOverviewStep ==
  ASSUME TeamInv, NEW u \in User, NEW p \in Periods \cup {Today}, AskOverview(u, p)
  PROVE  TeamInv'
<1>. DEFINE m == UtcMidnight(clock)
<1>1. /\ overview' = [step |-> 1, by |-> u, period |-> p, now |-> clock, since |-> clock - Window(p),
                      today |-> TodaySince(LocalMidnight(clock))]
      /\ figures' = <<>> /\ UNCHANGED <<clock, eventVars>>
  BY DEF AskOverview
<1>2. clock \in Nat /\ UtcDayLen <= clock /\ zone \in Int
  BY DEF TeamInv, TeamTypeOK
<1>3. m \in Int /\ m <= clock /\ UtcDayLen \in Nat /\ UtcDayLen > 0
  BY <1>2, DayLens
<1>4. p \in Nat /\ Today = 0
  BY TeamFiguresAssumption DEF Today
<1>5. /\ Window(p) \in Nat
      /\ p = Today => clock - Window(p) = (IF clock = m THEN clock - 1 ELSE m)
  <2>1. \A k \in Nat : k * UtcDayLen \in Nat
    BY <1>3
  <2>. HIDE DEF m
  <2>2. CASE p = Today
    BY <1>2, <1>3, <2>2 DEF Window, m
  <2>3. CASE p # Today
    BY <1>4, <2>1, <2>3 DEF Window
  <2>. QED
    BY <2>2, <2>3
<1>6. TodaySince(LocalMidnight(clock)) \in Int
  <2>1. LocalMidnight(clock) \in Int
    <3>1. LocalDay(clock) \in Int
      BY <1>2, <1>3, FloorIs DEF LocalDay
    <3>. QED
      BY <1>2, <3>1, DayLens DEF LocalMidnight
  <2>. HIDE DEF m
  <2>. QED
    BY <1>3, <2>1 DEF TodaySince, m
<1>7. AskedOK(overview')
  <2>. HIDE DEF m
  <2>1. overview' \in [step : 1 .. 9, by : User, period : Nat, now : Nat, since : Int, today : Int]
    BY <1>1, <1>2, <1>4, <1>5, <1>6
  <2>. QED
    BY <1>1, <1>2, <1>3, <1>5, <2>1 DEF AskedOK, m
<1>8. AskedOK(overview)'
  BY <1>1, <1>7 DEF AskedOK, UtcMidnight, UtcDay
<1>. QED
  BY <1>1, <1>8, NoFigures

LEMMA ForgetStep == ASSUME TeamInv, Forget PROVE TeamInv'
BY NoFigures DEF Forget

LEMMA HourStep ==
  ASSUME TeamInv, clock' \in {clock, clock + 1}, UNCHANGED <<eventVars, overview, figures, disturbed, shrunk>>
  PROVE  TeamInv'
<1>1. /\ UNCHANGED <<zone, sent, applied, merged, nodes, tangled, overview, figures, disturbed, shrunk>>
      /\ clock \in Nat /\ clock' \in Nat /\ clock <= clock'
  BY DEF eventVars, TeamInv, TeamTypeOK
<1>2. SameSource
  BY <1>1 DEF SameSource
<1>3. TeamTypeOK'
  <2>1. (overview = Asleep \/ AskedOK(overview))'
    BY <1>1 DEF TeamInv, TeamTypeOK, AskedOK, UtcMidnight, UtcDay
  <2>2. UtcDayLen \in Nat
    BY DayLens
  <2>. QED
    BY <1>1, <2>1, <2>2 DEF TeamInv, TeamTypeOK
<1>4. IsFiniteSet(merged)' /\ Noted' /\ CountedOnce'
  BY <1>1 DEF TeamInv, Noted, CountedOnce
<1>5. Undisturbed' /\ Growing'
  BY <1>1, <1>2, AnswerStands DEF TeamInv, Undisturbed, Growing
<1>6. ActiveSeen'
  BY <1>1, <1>2, AnswerStands DEF TeamInv, ActiveSeen, SeenIn, MachinesOf, Uploaded, Recent
<1>. QED
  BY <1>3, <1>4, <1>5, <1>6 DEF TeamInv

\* Each query of the order, and what was asked before it.
LEMMA InOrder ==
  ASSUME TeamTypeOK, NEW q, q = QueryOrder[overview.step], overview.step \in DOMAIN QueryOrder
  PROVE  /\ overview # Asleep /\ AskedOK(overview) /\ overview.step \in 1 .. 8
         /\ q \notin DOMAIN figures
         /\ DOMAIN figures \cup {q} = {QueryOrder[i] : i \in 1 .. overview.step}
         /\ q \in {"providers", "total"} => "members" \in DOMAIN figures
         /\ q = "total" => "providers" \in DOMAIN figures
         /\ q = "monthModels" => "month" \in DOMAIN figures
         /\ q = "nodes" => "members" \in DOMAIN figures
         /\ q = "members" => DOMAIN figures = {}
         /\ q = "month" => "monthModels" \notin DOMAIN figures
         /\ q = "providers" => "total" \notin DOMAIN figures
<1>1. overview.step \in 1 .. 8
  BY DEF QueryOrder
<1>2. overview # Asleep /\ AskedOK(overview)
  BY <1>1 DEF TeamTypeOK, Asleep
<1>3. DOMAIN figures = {QueryOrder[i] : i \in 1 .. overview.step - 1}
  BY DEF TeamTypeOK
<1>4. /\ QueryOrder[1] = "members" /\ QueryOrder[2] = "projects" /\ QueryOrder[3] = "providers" /\ QueryOrder[4] = "nodes"
      /\ QueryOrder[5] = "total" /\ QueryOrder[6] = "today" /\ QueryOrder[7] = "month" /\ QueryOrder[8] = "monthModels"
  BY DEF QueryOrder
<1>5. DOMAIN figures \cup {q} = {QueryOrder[i] : i \in 1 .. overview.step}
  <2>. DEFINE k == overview.step
  <2>1. 1 .. k = (1 .. k - 1) \cup {k}
    BY <1>1
  <2>. QED
    BY <1>3, <2>1
<1>6. \A i, j \in 1 .. 8 : QueryOrder[i] = QueryOrder[j] => i = j
  BY <1>4
<1>7. q \notin DOMAIN figures
  BY <1>1, <1>3, <1>6
<1>8. \A i \in 1 .. 8 : q = QueryOrder[i] => i = overview.step
  BY <1>1, <1>6
<1>9. \A i \in 1 .. 8 : QueryOrder[i] \in DOMAIN figures <=> i < overview.step
  BY <1>1, <1>3, <1>6
<1>10. /\ "members" \in DOMAIN figures <=> 1 < overview.step
       /\ "providers" \in DOMAIN figures <=> 3 < overview.step
       /\ "total" \in DOMAIN figures <=> 5 < overview.step
       /\ "month" \in DOMAIN figures <=> 7 < overview.step
       /\ "monthModels" \in DOMAIN figures <=> 8 < overview.step
  BY <1>4, <1>9
<1>11. /\ q = "members" => overview.step = 1
       /\ q = "providers" => overview.step = 3
       /\ q = "nodes" => overview.step = 4
       /\ q = "total" => overview.step = 5
       /\ q = "month" => overview.step = 7
       /\ q = "monthModels" => overview.step = 8
  BY <1>4, <1>8
<1>12. q = "members" => DOMAIN figures = {}
  BY <1>3, <1>11
<1>. QED
  BY <1>1, <1>2, <1>5, <1>7, <1>10, <1>11, <1>12

\* An answer came after those of the queries before it, and the last one after all.
LEMMA Earlier ==
  ASSUME TeamTypeOK
  PROVE  /\ "providers" \in DOMAIN figures => "members" \in DOMAIN figures
         /\ "total" \in DOMAIN figures => "providers" \in DOMAIN figures
         /\ "monthModels" \in DOMAIN figures => "month" \in DOMAIN figures
         /\ Told => /\ overview # Asleep /\ AskedOK(overview)
                    /\ DOMAIN figures = {"members", "projects", "providers", "nodes", "total", "today", "month", "monthModels"}
<1>1. overview.step \in 0 .. 9 /\ (overview.step = 9 => overview # Asleep)
  BY DEF TeamTypeOK, AskedOK, Asleep
<1>2. DOMAIN figures = {QueryOrder[i] : i \in 1 .. overview.step - 1}
  BY DEF TeamTypeOK
<1>3. /\ QueryOrder[1] = "members" /\ QueryOrder[2] = "projects" /\ QueryOrder[3] = "providers" /\ QueryOrder[4] = "nodes"
      /\ QueryOrder[5] = "total" /\ QueryOrder[6] = "today" /\ QueryOrder[7] = "month" /\ QueryOrder[8] = "monthModels"
      /\ Len(QueryOrder) = 8
  BY DEF QueryOrder
<1>4. \A i, j \in 1 .. 8 : QueryOrder[i] = QueryOrder[j] => i = j
  BY <1>3
<1>5. \A i \in 1 .. 8 : QueryOrder[i] \in DOMAIN figures <=> i < overview.step
  BY <1>1, <1>2, <1>4
<1>6. /\ "members" \in DOMAIN figures <=> 1 < overview.step
      /\ "providers" \in DOMAIN figures <=> 3 < overview.step
      /\ "total" \in DOMAIN figures <=> 5 < overview.step
      /\ "month" \in DOMAIN figures <=> 7 < overview.step
      /\ "monthModels" \in DOMAIN figures <=> 8 < overview.step
  BY <1>3, <1>5
<1>7. Told => /\ overview # Asleep /\ AskedOK(overview)
              /\ DOMAIN figures = {QueryOrder[i] : i \in 1 .. 8}
  BY <1>1, <1>2, <1>3 DEF Told, TeamTypeOK
<1>8. {QueryOrder[i] : i \in 1 .. 8} = {"members", "projects", "providers", "nodes", "total", "today", "month", "monthModels"}
  <2>1. 1 .. 8 = {1, 2, 3, 4, 5, 6, 7, 8}
    OBVIOUS
  <2>. QED
    BY <1>3, <2>1
<1>. QED
  BY <1>1, <1>6, <1>7, <1>8

LEMMA RunNextQueryStep == ASSUME TeamInv, RunNextQuery PROVE TeamInv'
<1>. DEFINE q == QueryOrder[overview.step]
            D == DOMAIN figures
<1>1. /\ overview.step \in DOMAIN QueryOrder
      /\ figures' = [r \in D \cup {q} |-> IF r = q THEN FigureOf(q) ELSE figures[r]]
      /\ overview' = [overview EXCEPT !.step = @ + 1]
      /\ UNCHANGED <<clock, uploads, eventVars, disturbed, shrunk>>
  BY DEF RunNextQuery
<1>2. TeamTypeOK /\ IsFiniteSet(merged) /\ Noted /\ CountedOnce /\ Undisturbed /\ Growing /\ ActiveSeen
  BY DEF TeamInv
<1>3. UNCHANGED <<clock, zone, sent, applied, merged, nodes, tangled, disturbed, shrunk>>
  BY <1>1 DEF eventVars
<1>4. /\ overview # Asleep /\ AskedOK(overview) /\ overview.step \in 1 .. 8
      /\ q \notin D
      /\ D \cup {q} = {QueryOrder[i] : i \in 1 .. overview.step}
      /\ q \in {"providers", "total"} => "members" \in D
      /\ q = "total" => "providers" \in D
      /\ q = "monthModels" => "month" \in D
      /\ q = "nodes" => "members" \in D
      /\ q = "members" => D = {}
      /\ q = "month" => "monthModels" \notin D
      /\ q = "providers" => "total" \notin D
  BY <1>1, <1>2, InOrder
<1>5. /\ DOMAIN figures' = D \cup {q} /\ figures'[q] = FigureOf(q)
      /\ \A r \in D : r # q /\ figures'[r] = figures[r]
  <2>. HIDE DEF q
  <2>. QED
    BY <1>1, <1>4
<1>6. /\ overview' \in [step : 1 .. 9, by : User, period : Nat, now : Nat, since : Int, today : Int]
      /\ overview'.step = overview.step + 1 /\ overview'.by = overview.by /\ overview'.period = overview.period
      /\ overview'.now = overview.now /\ overview'.since = overview.since /\ overview'.today = overview.today
  BY <1>1, <1>4 DEF AskedOK
<1>7. SameSource
  BY <1>3, <1>6 DEF SameSource
<1>8. /\ InWindow' = InWindow /\ InMonth' = InMonth /\ \A t : Recent(t)' <=> Recent(t)
      /\ \A r : FigureOf(r)' = FigureOf(r)
  BY <1>7, AnswerStands
<1>9. TeamTypeOK'
  <2>1. AskedOK(overview)'
    BY <1>3, <1>4, <1>6 DEF AskedOK, UtcMidnight, UtcDay
  <2>2. (DOMAIN figures = {QueryOrder[i] : i \in 1 .. overview.step - 1})'
    <3>1. overview'.step - 1 = overview.step
      BY <1>4, <1>6
    <3>. QED
      BY <1>4, <1>5, <3>1 DEF QueryOrder
  <2>. QED
    BY <1>2, <1>3, <2>1, <2>2 DEF TeamTypeOK
<1>10. IsFiniteSet(merged)' /\ Noted' /\ CountedOnce'
  BY <1>2, <1>3 DEF Noted, CountedOnce
<1>11. Undisturbed'
  <2>. HIDE DEF q
  <2>. QED
    BY <1>2, <1>3, <1>5, <1>8 DEF Undisturbed
<1>12. /\ q = "members" => FigureOf(q) = [cost |-> PerUser(InWindow), active |-> ActiveIn(InWindow)]
       /\ q = "providers" => FigureOf(q) = PerModel(InWindow)
       /\ q = "nodes" => FigureOf(q) = nodes
       /\ q = "total" => FigureOf(q) = Cardinality(InWindow)
       /\ q = "month" => FigureOf(q) = Cardinality(InMonth)
       /\ q = "monthModels" => FigureOf(q) = PerModel(InMonth)
  <2>. HIDE DEF q
  <2>. QED
    BY DEF FigureOf
<1>. HIDE DEF q, D
<1>13. Growing'
  <2>. SUFFICES ASSUME ~ shrunk PROVE Growing'
    BY <1>3 DEF Growing
  <2>1. InWindow \in SUBSET merged /\ IsFiniteSet(InWindow) /\ Cardinality(InWindow) \in Nat
    BY <1>2, PartFinite DEF InWindow, FromDay
  <2>2. IsFiniteSet(InMonth) /\ Cardinality(InMonth) \in Nat
    BY <1>2, MonthFinite
  <2>3. /\ SumUp(PerUser(InWindow)) = Cardinality(InWindow)
        /\ SumUp(PerModel(InWindow)) = Cardinality(InWindow)
        /\ SumUp(PerModel(InMonth)) = Cardinality(InMonth)
    BY <1>2, <2>1, <2>2, PerUserAddsUp, PerModelAddsUp
  <2>4. "members" \in DOMAIN figures' => AtMost(SumUp(figures'["members"].cost), Cardinality(InWindow))
    <3>1. CASE q = "members"
      BY <1>5, <1>12, <2>1, <2>3, <3>1 DEF AtMost
    <3>2. CASE q # "members"
      BY <1>2, <1>5, <3>2 DEF Growing, D
    <3>. QED
      BY <3>1, <3>2
  <2>5. "providers" \in DOMAIN figures' =>
           /\ AtMost(SumUp(figures'["providers"]), Cardinality(InWindow))
           /\ AtMost(SumUp(figures'["members"].cost), SumUp(figures'["providers"]))
    <3>1. CASE q = "providers"
      <4>1. "members" \in D /\ figures'["members"] = figures["members"]
        BY <1>4, <1>5, <3>1
      <4>2. AtMost(SumUp(figures["members"].cost), Cardinality(InWindow))
        BY <1>2, <4>1 DEF Growing, D
      <4>. QED
        BY <1>5, <1>12, <2>1, <2>3, <3>1, <4>1, <4>2 DEF AtMost
    <3>2. CASE q # "providers" /\ "providers" \in D
      <4>1. q # "members" /\ figures'["providers"] = figures["providers"]
        BY <1>4, <1>5, <3>2
      <4>2. figures'["members"] = figures["members"] \/ "members" \notin D
        BY <1>5
      <4>3. "members" \in D
        BY <1>2, <3>2, Earlier DEF D
      <4>. QED
        BY <1>2, <3>2, <4>1, <4>2, <4>3 DEF Growing, D
    <3>. QED
      BY <1>5, <3>1, <3>2
  <2>6. "total" \in DOMAIN figures' => AtMost(SumUp(figures'["providers"]), figures'["total"])
    <3>1. CASE q = "total"
      <4>1. "providers" \in D /\ figures'["providers"] = figures["providers"]
        BY <1>4, <1>5, <3>1
      <4>2. AtMost(SumUp(figures["providers"]), Cardinality(InWindow))
        BY <1>2, <4>1 DEF Growing, D
      <4>. QED
        BY <1>5, <1>12, <3>1, <4>1, <4>2
    <3>2. CASE q # "total" /\ "total" \in D
      <4>1. q # "providers" /\ figures'["total"] = figures["total"]
        BY <1>4, <1>5, <3>2
      <4>2. "providers" \in D
        BY <1>2, <3>2, Earlier DEF D
      <4>. QED
        BY <1>2, <1>5, <3>2, <4>1, <4>2 DEF Growing, D
    <3>. QED
      BY <1>5, <3>1, <3>2
  <2>7. "month" \in DOMAIN figures' => AtMost(figures'["month"], Cardinality(InMonth))
    <3>1. CASE q = "month"
      BY <1>5, <1>12, <2>2, <3>1 DEF AtMost
    <3>2. CASE q # "month"
      BY <1>2, <1>5, <3>2 DEF Growing, D
    <3>. QED
      BY <3>1, <3>2
  <2>8. "monthModels" \in DOMAIN figures' => AtMost(figures'["month"], SumUp(figures'["monthModels"]))
    <3>1. CASE q = "monthModels"
      <4>1. "month" \in D /\ figures'["month"] = figures["month"]
        BY <1>4, <1>5, <3>1
      <4>2. AtMost(figures["month"], Cardinality(InMonth))
        BY <1>2, <4>1 DEF Growing, D
      <4>. QED
        BY <1>5, <1>12, <2>3, <3>1, <4>1, <4>2
    <3>2. CASE q # "monthModels" /\ "monthModels" \in D
      <4>1. q # "month" /\ figures'["monthModels"] = figures["monthModels"]
        BY <1>4, <1>5, <3>2
      <4>2. "month" \in D
        BY <1>2, <3>2, Earlier DEF D
      <4>. QED
        BY <1>2, <1>5, <3>2, <4>1, <4>2 DEF Growing, D
    <3>. QED
      BY <1>5, <3>1, <3>2
  <2>. QED
    BY <1>8, <2>4, <2>5, <2>6, <2>7, <2>8 DEF Growing
<1>14. ActiveSeen'
  <2>1. nodes' = nodes /\ (\A t : Recent(t)' <=> Recent(t)) /\ \A v : MachinesOf(v)' = MachinesOf(v)
    BY <1>3, <1>8 DEF MachinesOf, Uploaded
  <2>. SUFFICES ASSUME "members" \in DOMAIN figures', NEW u \in figures'["members"].active
                PROVE  SeenIn(nodes, u) /\ ("nodes" \in DOMAIN figures' => SeenIn(figures'["nodes"], u))
    BY <2>1 DEF ActiveSeen, SeenIn
  <2>2. CASE q = "members"
    <3>1. u \in ActiveIn(InWindow) /\ D = {} /\ "nodes" \notin DOMAIN figures'
      BY <1>4, <1>5, <1>12, <2>2
    <3>2. PICK x \in InWindow : x.user = u /\ Recent(x.up)
      BY <3>1 DEF ActiveIn
    <3>. DEFINE m == x.event.node
    <3>3. x \in merged /\ x.up \in Nat /\ m \in DOMAIN nodes /\ x.up <= nodes[m].seen
      <4>1. x \in merged /\ x \in DailyRow
        BY <1>2, <3>2 DEF InWindow, FromDay, TeamTypeOK
      <4>. QED
        BY <1>2, <4>1 DEF DailyRow, Noted
    <3>4. nodes[m].seen \in Nat /\ overview.now \in Nat /\ UtcDayLen \in Nat
      BY <1>2, <1>4, <3>3, DayLens DEF TeamTypeOK, AskedOK
    <3>5. Recent(nodes[m].seen)
      BY <3>2, <3>3, <3>4 DEF Recent
    <3>6. m \in MachinesOf(u)
      <4>1. [event |-> x.event, user |-> u] \in applied
        BY <1>2, <3>2, <3>3 DEF TeamTypeOK
      <4>. QED
        BY <4>1 DEF MachinesOf, Uploaded
    <3>. QED
      BY <3>1, <3>3, <3>5, <3>6 DEF SeenIn
  <2>3. CASE q # "members"
    <3>1. "members" \in D /\ figures'["members"] = figures["members"]
      BY <1>5, <2>3
    <3>2. SeenIn(nodes, u)
      BY <1>2, <3>1 DEF ActiveSeen, D
    <3>3. CASE q = "nodes"
      BY <1>5, <1>12, <3>2, <3>3
    <3>4. CASE q # "nodes"
      BY <1>2, <1>5, <3>1, <3>2, <3>4 DEF ActiveSeen, D
    <3>. QED
      BY <3>3, <3>4
  <2>. QED
    BY <2>2, <2>3
<1>. QED
  BY <1>9, <1>10, <1>11, <1>13, <1>14 DEF TeamInv

-----------------------------------------------------------------------------
\* The undisturbed answers in full.
LEMMA AnswersInFull ==
  ASSUME TeamInv, Told, ~ disturbed
  PROVE  /\ figures["members"] = [cost |-> PerUser(InWindow), active |-> ActiveIn(InWindow)]
         /\ figures["projects"] = PerProject(OfProjects)
         /\ figures["providers"] = PerModel(InWindow)
         /\ figures["total"] = Cardinality(InWindow)
         /\ figures["today"] = Cardinality(RowsSince(overview.today))
         /\ figures["month"] = Cardinality(InMonth)
         /\ figures["monthModels"] = PerModel(InMonth)
<1>1. \A q \in {"members", "projects", "providers", "nodes", "total", "today", "month", "monthModels"} :
        figures[q] = FigureOf(q)
  BY Earlier DEF TeamInv, Undisturbed
<1>. QED
  BY <1>1 DEF FigureOf

\* The figures of one undisturbed overview agree.
LEMMA Agree == ASSUME TeamInv PROVE OverviewAgrees
<1>. SUFFICES ASSUME Told, ~ disturbed
              PROVE  /\ SumUp(figures["members"].cost) = figures["total"]
                     /\ SumUp(figures["providers"]) = figures["total"]
                     /\ SumUp(figures["monthModels"]) = figures["month"]
                     /\ SumUp(figures["projects"]) <= figures["total"]
                     /\ UtcDay(overview.today) >= UtcDay(overview.since) => figures["today"] <= figures["total"]
  BY Zenon DEF OverviewAgrees
<1>1. TeamTypeOK /\ IsFiniteSet(merged) /\ AskedOK(overview)
  BY Earlier DEF TeamInv
<1>2. InWindow \in SUBSET merged /\ IsFiniteSet(InWindow) /\ Cardinality(InWindow) \in Nat
  BY <1>1, PartFinite DEF InWindow, FromDay
<1>3. IsFiniteSet(InMonth)
  BY <1>1, MonthFinite
<1>4. /\ overview.since \in Int /\ overview.today \in Int
      /\ UtcDay(overview.since) \in Int /\ UtcDay(overview.today) \in Int
  BY <1>1, DayLens DEF AskedOK
<1>5. ASSUME NEW t \in Int, UtcDay(t) >= UtcDay(overview.since)
      PROVE  RowsSince(t) \in SUBSET InWindow
  <2>. SUFFICES ASSUME NEW x \in RowsSince(t) PROVE x \in InWindow
    OBVIOUS
  <2>1. x \in merged /\ x.event.at >= t
    BY DEF RowsSince
  <2>2. x.event.at \in Nat
    BY <1>1, <2>1, TeamFiguresAssumption DEF TeamTypeOK, DailyRow
  <2>3. UtcDay(t) * UtcDayLen <= t /\ UtcDay(t) \in Int /\ UtcDay(t) * UtcDayLen \in Int
    BY DayLens
  <2>4. UtcDay(t) * UtcDayLen <= x.event.at
    BY <2>1, <2>2, <2>3
  <2>5. UtcDay(t) <= UtcDay(x.event.at) /\ UtcDay(x.event.at) \in Int
    BY <2>2, <2>3, <2>4, DayLens
  <2>. QED
    BY <1>4, <1>5, <2>1, <2>3, <2>5 DEF InWindow, FromDay
<1>6. ASSUME NEW S \in SUBSET InWindow PROVE IsFiniteSet(S) /\ Cardinality(S) <= Cardinality(InWindow)
  BY <1>2, FS_Subset
<1>7. OfProjects \in SUBSET InWindow
  <2>1. RowsSince(overview.since) \in SUBSET InWindow
    BY <1>4, <1>5
  <2>. QED
    BY <2>1 DEF OfProjects
<1>8. SumUp(PerProject(OfProjects)) <= Cardinality(InWindow)
  BY <1>6, <1>7, PerProjectAddsUp
<1>9. UtcDay(overview.today) >= UtcDay(overview.since) => Cardinality(RowsSince(overview.today)) <= Cardinality(InWindow)
  BY <1>4, <1>5, <1>6
<1>. QED
  BY <1>1, <1>2, <1>3, <1>8, <1>9, AnswersInFull, PerUserAddsUp, PerModelAddsUp

\* What is asked for later is no lower, and the active have their machines.
LEMMA Grows == ASSUME TeamInv PROVE OverviewGrows
<1>. SUFFICES ASSUME Told
              PROVE  /\ ~ shrunk => /\ SumUp(figures["members"].cost) <= SumUp(figures["providers"])
                                    /\ SumUp(figures["providers"]) <= figures["total"]
                                    /\ figures["month"] <= SumUp(figures["monthModels"])
                     /\ \A u \in figures["members"].active : MachinesOf(u) \cap ActiveNodes # {}
                     /\ clock = overview.now /\ overview.by \in figures["members"].active =>
                          MyActive # {} \/ \E n \in MachinesOf(overview.by) \cap ActiveNodes :
                                              figures["nodes"][n].user # overview.by
  BY Zenon DEF OverviewGrows
<1>1. DOMAIN figures = {"members", "projects", "providers", "nodes", "total", "today", "month", "monthModels"}
  BY Earlier DEF TeamInv
<1>2. ~ shrunk => /\ SumUp(figures["members"].cost) <= SumUp(figures["providers"])
                  /\ SumUp(figures["providers"]) <= figures["total"]
                  /\ figures["month"] <= SumUp(figures["monthModels"])
  BY <1>1 DEF TeamInv, Growing, AtMost
<1>3. \A u \in figures["members"].active : MachinesOf(u) \cap ActiveNodes # {}
  <2>1. \A u \in figures["members"].active : SeenIn(figures["nodes"], u)
    BY <1>1 DEF TeamInv, ActiveSeen
  <2>. QED
    BY <2>1 DEF SeenIn, ActiveNodes
<1>4. ASSUME clock = overview.now, overview.by \in figures["members"].active,
             \A n \in MachinesOf(overview.by) \cap ActiveNodes : figures["nodes"][n].user = overview.by
      PROVE  MyActive # {}
  <2>1. PICK n \in MachinesOf(overview.by) : n \in ActiveNodes
    BY <1>3, <1>4
  <2>2. n \in MyActive
    BY <1>4, <2>1 DEF MyActive, ActiveNodes, Recent
  <2>. QED
    BY <2>2
<1>. QED
  BY <1>2, <1>3, <1>4

\* A window that begins at midnight begins with the day, one before it with the last.
LEMMA TodayBegins ==
  ASSUME TeamInv, Told, overview.period = Today
  PROVE  UtcDay(overview.since) = UtcDay(overview.now) - (IF overview.now = UtcMidnight(overview.now) THEN 1 ELSE 0)
<1>. DEFINE t == overview.now
            k == UtcDay(t)
<1>1. /\ t \in Nat /\ overview.since \in Int
      /\ overview.since = (IF t = UtcMidnight(t) THEN t - 1 ELSE UtcMidnight(t))
  BY Earlier DEF TeamInv, AskedOK
<1>2. k \in Int /\ UtcMidnight(t) = k * UtcDayLen /\ UtcDayLen \in Nat /\ UtcDayLen > 0 /\ k * UtcDayLen \in Int
  BY <1>1, DayLens DEF UtcMidnight
<1>3. (k - 1) * UtcDayLen = k * UtcDayLen - UtcDayLen /\ (k + 1) * UtcDayLen = k * UtcDayLen + UtcDayLen
  BY <1>2
<1>4. \A j \in Int : j <= UtcDay(overview.since) <=> j * UtcDayLen <= overview.since
  BY <1>1, DayLens
<1>5. UtcDay(overview.since) \in Int
  BY <1>1, DayLens
<1>. HIDE DEF k
<1>6. CASE t = UtcMidnight(t)
  <2>1. overview.since = k * UtcDayLen - 1
    BY <1>1, <1>2, <1>6
  <2>2. k - 1 <= UtcDay(overview.since) /\ ~ (k <= UtcDay(overview.since))
    BY <1>2, <1>3, <1>4, <2>1
  <2>. QED
    BY <1>2, <1>5, <1>6, <2>2 DEF k
<1>7. CASE t # UtcMidnight(t)
  <2>1. overview.since = k * UtcDayLen
    BY <1>1, <1>2, <1>7
  <2>2. k <= UtcDay(overview.since) /\ ~ (k + 1 <= UtcDay(overview.since))
    BY <1>2, <1>3, <1>4, <2>1
  <2>. QED
    BY <1>2, <1>5, <1>7, <2>2 DEF k
<1>. QED
  BY <1>6, <1>7

LEMMA TodayCounts == ASSUME TeamInv PROVE TodayIsToday
<1>. SUFFICES ASSUME Told, ~ disturbed, overview.period = Today, NEW u \in User, Straight(u)
              PROVE  figures["members"].cost[u] =
                       Cardinality({e \in Uploaded(u) : UtcDay(e.at) >= UtcDay(overview.now) -
                         (IF overview.now = UtcMidnight(overview.now) THEN 1 ELSE 0)})
  BY Zenon DEF TodayIsToday
<1>1. figures["members"].cost[u] = Cardinality({x \in InWindow : x.user = u})
  BY AnswersInFull DEF PerUser
<1>2. Cardinality({x \in InWindow : x.user = u}) = Cardinality({e \in Uploaded(u) : UtcDay(e.at) >= UtcDay(overview.since)})
  BY RowsAreEvents DEF InWindow
<1>. QED
  BY <1>1, <1>2, TodayBegins, Zenon

\* What is projected from a part of a month is no lower.
LEMMA NoLower ==
  ASSUME NEW n \in Nat, NEW len \in Nat, NEW e \in 1 .. len
  PROVE  n <= (n * len) \div e
<1>1. e \in Nat /\ e > 0 /\ n * len \in Nat /\ n * e \in Nat /\ n * e <= n * len
  <2>1. \A x, y \in Nat : x <= y => n * x <= n * y /\ n * x \in Nat
    OBVIOUS
  <2>. QED
    BY <2>1
<1>. DEFINE a == n * len
<1>2. a \in Int /\ n * e <= a
  BY <1>1
<1>. HIDE DEF a
<1>3. n <= a \div e
  BY <1>1, <1>2, FloorAtLeast
<1>. QED
  BY <1>3 DEF a

LEMMA UploadedWork == ASSUME TeamInv, NEW u PROVE Uploaded(u) \subseteq Work
BY DEF Uploaded, TeamInv, TeamTypeOK

LEMMA ForecastStands == ASSUME TeamInv PROVE ForecastCovers
<1>. DEFINE by == overview.by
            s == LocalMonthStart(clock)
            m == UtcMonth(overview.now)
<1>. SUFFICES ASSUME Told, ~ disturbed, Straight(by), s >= m * UtcDayLen
              PROVE  /\ Cardinality({e \in Uploaded(by) : e.at >= s}) <= figures["month"]
                     /\ figures["month"] <= (figures["month"] * MonthLen) \div ElapsedDays
  BY Zenon DEF ForecastCovers, TeamForecast
<1>1. by \in User /\ overview.now \in Nat /\ clock \in Nat /\ zone \in Int
  BY Earlier DEF TeamInv, TeamTypeOK, AskedOK
<1>2. figures["month"] = Cardinality({x \in FromDay(m) : x.user = by})
  BY AnswersInFull DEF InMonth
<1>3. figures["month"] = Cardinality({e \in Uploaded(by) : UtcDay(e.at) >= m})
  BY <1>1, <1>2, RowsAreEvents
<1>4. m \in Int /\ s \in Int /\ m * UtcDayLen \in Int /\ ElapsedDays \in 1 .. MonthLen
  <2>1. \A k \in Int : /\ k \div MonthLen \in Int /\ MonthLen * (k \div MonthLen) \in Int
                       /\ MonthLen * (k \div MonthLen) <= k /\ k < MonthLen * (k \div MonthLen) + MonthLen
    <3>1. MonthLen \in Nat /\ MonthLen > 0 /\ \A k \in Int : MonthLen * k \in Int
      BY DayLens
    <3>2. \A x \in Int : x * MonthLen = MonthLen * x
      BY <3>1
    <3>. QED
      BY <3>1, <3>2, FloorIs
  <2>2. LocalDay(clock) \in Int
    BY <1>1, DayLens, FloorIs DEF LocalDay
  <2>3. LocalMonth(clock) \in Int /\ LocalMonth(clock) <= LocalDay(clock) /\ LocalDay(clock) < LocalMonth(clock) + MonthLen
    BY <2>1, <2>2 DEF LocalMonth
  <2>4. m \in Int
    <3>1. UtcDay(overview.now) \in Int
      BY <1>1, DayLens
    <3>. QED
      BY <2>1, <3>1 DEF UtcMonth
  <2>5. s \in Int /\ m * UtcDayLen \in Int
    <3>1. UtcDayLen \in Int /\ \A k \in Int : k * UtcDayLen \in Int
      BY DayLens
    <3>2. LocalMonth(clock) * UtcDayLen \in Int /\ m * UtcDayLen \in Int
      <4>. HIDE DEF m
      <4>. QED
        BY <2>3, <2>4, <3>1, Zenon
    <3>. HIDE DEF m
    <3>. QED
      BY <1>1, <3>2 DEF LocalMonthStart
  <2>6. MonthLen \in Nat
    BY DayLens
  <2>. QED
    BY <2>2, <2>3, <2>4, <2>5, <2>6 DEF ElapsedDays
<1>. DEFINE E == {e \in Uploaded(by) : UtcDay(e.at) >= m}
            F == {e \in Uploaded(by) : e.at >= s}
<1>. HIDE DEF s, m, by
<1>5. F \in SUBSET E
  <2>. SUFFICES ASSUME NEW e \in F PROVE UtcDay(e.at) >= m
    OBVIOUS
  <2>1. e.at \in Nat /\ e.at >= s
    BY UploadedWork, TeamFiguresAssumption
  <2>2. m * UtcDayLen <= e.at
    BY <1>4, <2>1
  <2>3. m <= UtcDay(e.at) /\ UtcDay(e.at) \in Int
    BY <1>4, <2>1, <2>2, DayLens
  <2>. QED
    BY <1>4, <2>3
<1>6. IsFiniteSet(E)
  <2>1. E \in SUBSET Work
    BY UploadedWork
  <2>. HIDE DEF E
  <2>. QED
    BY <2>1, TeamFiguresAssumption, FS_Subset
<1>. HIDE DEF E, F
<1>7. Cardinality(F) <= Cardinality(E) /\ Cardinality(E) \in Nat
  BY <1>5, <1>6, FS_Subset, FS_CardinalityType
<1>8. figures["month"] = Cardinality(E)
  BY <1>3 DEF E
<1>9. Cardinality(E) <= (Cardinality(E) * MonthLen) \div ElapsedDays
  BY <1>4, <1>7, NoLower, DayLens
<1>. QED
  BY <1>7, <1>8, <1>9 DEF F

LEMMA TeamInvInit == TeamFiguresInit => TeamInv
<1>. SUFFICES ASSUME TeamFiguresInit PROVE TeamInv
  OBVIOUS
<1>1. zone \in Zones
  BY DEF TeamFiguresInit
<1>2. /\ clock = UtcDayLen /\ sent = {} /\ applied = {} /\ merged = {} /\ nodes = <<>> /\ tangled = {}
      /\ overview = Asleep /\ figures = <<>>
  BY DEF TeamFiguresInit
<1>3. zone \in Int /\ 0 - UtcDayLen < zone /\ zone < UtcDayLen
  BY <1>1, TeamFiguresAssumption
<1>4. DOMAIN figures = {} /\ overview.step = 0 /\ {QueryOrder[i] : i \in 1 .. overview.step - 1} = {}
  BY <1>2 DEF Asleep
<1>5. TeamTypeOK
  BY <1>2, <1>3, <1>4, DayLens DEF TeamTypeOK
<1>6. IsFiniteSet(merged)
  BY <1>2, FS_EmptySet
<1>. QED
  BY <1>2, <1>4, <1>5, <1>6 DEF TeamInv, Noted, CountedOnce, Undisturbed, Growing, ActiveSeen

LEMMA TeamInvStep == TeamInv /\ [TeamFiguresNext]_teamVars => TeamInv'
<1>. SUFFICES ASSUME TeamInv, [TeamFiguresNext]_teamVars PROVE TeamInv'
  OBVIOUS
<1>1. CASE HourPasses
  BY <1>1, HourStep DEF HourPasses
<1>2. CASE UNCHANGED teamVars
  BY <1>2, HourStep DEF teamVars
<1>. QED
  BY <1>1, <1>2, UploadStep, AskOverviewStep, RunNextQueryStep, ForgetStep DEF TeamFiguresNext

(* Whatever is uploaded while an overview is made, at whatever level, and        *)
(* whatever answer is lost, for whichever account a machine uploads: an event is *)
(* counted once and for its account, unless its machine sent it again at another *)
(* kind of level or for another account, or sent a day apart; the figures of an  *)
(* undisturbed overview agree; whoever is active has an active machine; and a    *)
(* window's "today" and forecast cover what they stand for.                      *)
THEOREM TeamFiguresAreSound == TeamFiguresSpec => []TeamFiguresSound
<1>1. TeamInv => TeamFiguresSound
  BY Agree, Grows, TodayCounts, ForecastStands DEF TeamFiguresSound, TeamInv
<1>. QED
  BY <1>1, TeamInvInit, TeamInvStep, PTL DEF TeamFiguresSpec
=============================================================================
