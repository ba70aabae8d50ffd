------------------------------ MODULE SumLemmas ------------------------------
(***************************************************************************)
(* What the proofs need of sums over sets, SumFunction and                 *)
(* SumFunctionOnSet of Functions, which are folds: their unfolding, and    *)
(* what a change at one element does to them.  With it, two facts about    *)
(* least elements, from the well-founded orders of the library.            *)
(***************************************************************************)
EXTENDS Integers, FiniteSets, Functions, FiniteSetTheorems, WellFoundedInduction, TLAPS

\* Every non-empty set of naturals has a least element.
LEMMA Least ==
  ASSUME NEW T, T \subseteq Nat, T # {}
  PROVE  \E n \in T : \A m \in T : n <= m
<1>1. \E n \in T : \A m \in T : ~(<<m, n>> \in OpToRel(<, Nat))
  BY NatLessThanWellFounded, WFMin
<1>2. \A m, n \in Nat : m < n => <<m, n>> \in OpToRel(<, Nat)
  BY DEF OpToRel
<1>3. PICK n \in T : \A m \in T : ~(<<m, n>> \in OpToRel(<, Nat))
  BY <1>1
<1>4. \A m \in T : n <= m
  <2> SUFFICES ASSUME NEW m \in T PROVE ~(m < n)
    <3>1. \A m \in T : m \in Nat /\ n \in Nat
      OBVIOUS
    <3> QED BY <3>1
  <2>1. m \in Nat /\ n \in Nat
    OBVIOUS
  <2> QED BY <1>2, <1>3, <2>1
<1> QED BY <1>4

\* Every non-empty set of subsets of a finite set has a minimal one.
LEMMA MinimalSubset ==
  ASSUME NEW S, IsFiniteSet(S), NEW W, W \subseteq SUBSET S, W # {}
  PROVE  \E s \in W : \A t \in W : t \subseteq s => t = s
<1> DEFINE T == {Cardinality(s) : s \in W}
<1>1. \A s \in W : IsFiniteSet(s) /\ Cardinality(s) \in Nat
  BY FS_Subset, FS_CardinalityType
<1>2. T \subseteq Nat /\ T # {}
  BY <1>1
<1>3. \E n \in T : \A m \in T : n <= m
  <2> HIDE DEF T
  <2> QED BY <1>2, Least
<1>4. PICK s \in W : \A t \in W : Cardinality(s) <= Cardinality(t)
  BY <1>3
<1>5. \A t \in W : t \subseteq s => t = s
  <2> SUFFICES ASSUME NEW t \in W, t \subseteq s PROVE t = s
    OBVIOUS
  <2>1. t \in SUBSET s
    OBVIOUS
  <2>2. IsFiniteSet(s) /\ Cardinality(s) \in Nat /\ Cardinality(t) \in Nat
    BY <1>1
  <2>3. Cardinality(t) <= Cardinality(s) /\ (Cardinality(s) = Cardinality(t) => s = t)
    BY <2>1, <2>2, FS_Subset
  <2> QED BY <1>4, <2>2, <2>3
<1> QED BY <1>5

Pick(s) == CHOOSE x \in s : TRUE

\* One unfolding of the sum of f over s, the sums of smaller sets being g.
Unfold(f, g, s) == IF s = {} THEN 0 ELSE f[Pick(s)] + g[s \ {Pick(s)}]

Sums(f, g, S) == g = [s \in SUBSET S |-> Unfold(f, g, s)]

\* The sum of a function is the application of the recursive function that the fold chooses.
LEMMA SumDef ==
  ASSUME NEW f, NEW S
  PROVE  SumFunctionOnSet(f, S) = (CHOOSE g : Sums(f, g, S))[S]
BY DEF SumFunctionOnSet, FoldFunctionOnSet, MapThenFoldSet, Sums, Unfold, Pick

UpTo(S, n) == {s \in SUBSET S : Cardinality(s) <= n}

SumsUpTo(f, S, n) == \E g : g = [s \in UpTo(S, n) |-> Unfold(f, g, s)]

\* That function exists on the subsets of up to n elements, for every n.
LEMMA SumsUpToAll ==
  ASSUME NEW f, NEW S, IsFiniteSet(S), NEW n \in Nat
  PROVE  SumsUpTo(f, S, n)
<1> DEFINE T == {k \in Nat : ~SumsUpTo(f, S, k)}
<1> SUFFICES T = {}
  OBVIOUS
<1> SUFFICES ASSUME T # {} PROVE FALSE
  OBVIOUS
<1>1. PICK k \in T : \A m \in T : k <= m
  <2> HIDE DEF T
  <2>1. T \subseteq Nat
    BY DEF T
  <2> QED BY <2>1, Least
<1>2. \A s \in SUBSET S : IsFiniteSet(s) /\ Cardinality(s) \in Nat
  BY FS_Subset, FS_CardinalityType
<1>3. CASE k = 0
  <2> DEFINE g == [s \in UpTo(S, 0) |-> 0]
  <2>1. \A s \in UpTo(S, 0) : s = {}
    <3> SUFFICES ASSUME NEW s \in UpTo(S, 0) PROVE s = {}
      OBVIOUS
    <3>1. IsFiniteSet(s) /\ Cardinality(s) = 0
      BY <1>2 DEF UpTo
    <3> QED BY <3>1, FS_EmptySet
  <2>2. g = [s \in UpTo(S, 0) |-> Unfold(f, g, s)]
    BY <2>1 DEF Unfold
  <2> HIDE DEF g
  <2> QED BY <1>3, <2>2 DEF SumsUpTo
<1>4. CASE k > 0
  <2>1. k - 1 \in Nat /\ SumsUpTo(f, S, k - 1)
    BY <1>1, <1>4
  <2>2. PICK g : g = [s \in UpTo(S, k - 1) |-> Unfold(f, g, s)]
    BY <2>1 DEF SumsUpTo
  <2> DEFINE h == [s \in UpTo(S, k) |-> Unfold(f, g, s)]
  <2>3. \A s \in UpTo(S, k) : s # {} => s \ {Pick(s)} \in UpTo(S, k - 1)
    <3> SUFFICES ASSUME NEW s \in UpTo(S, k), s # {} PROVE s \ {Pick(s)} \in UpTo(S, k - 1)
      OBVIOUS
    <3>1. Pick(s) \in s
      BY DEF Pick
    <3>2. IsFiniteSet(s) /\ s \subseteq S /\ Cardinality(s) <= k /\ Cardinality(s) \in Nat
      BY <1>2 DEF UpTo
    <3>3. Cardinality(s \ {Pick(s)}) = Cardinality(s) - 1
      BY <3>1, <3>2, FS_RemoveElement
    <3>4. k \in Nat
      OBVIOUS
    <3> HIDE DEF T
    <3>5. Cardinality(s \ {Pick(s)}) <= k - 1 /\ s \ {Pick(s)} \in SUBSET S
      BY <3>2, <3>3, <3>4
    <3> QED BY <3>5 DEF UpTo
  <2>4. \A s \in UpTo(S, k - 1) : s \in UpTo(S, k) /\ h[s] = g[s]
    <3>1. \A s \in UpTo(S, k - 1) : s \in UpTo(S, k)
      BY <1>2, <2>1 DEF UpTo
    <3> QED BY <3>1, <2>2
  <2>5. \A s \in UpTo(S, k) : Unfold(f, g, s) = Unfold(f, h, s)
    BY <2>3, <2>4 DEF Unfold
  <2>6. h = [s \in UpTo(S, k) |-> Unfold(f, h, s)]
    BY <2>5
  <2> HIDE DEF h
  <2> QED BY <2>6 DEF SumsUpTo
<1> QED BY <1>1, <1>3, <1>4

\* It exists, so that what the fold chooses is it.
LEMMA SumExists ==
  ASSUME NEW f, NEW S, IsFiniteSet(S)
  PROVE  \E g : Sums(f, g, S) /\ SumFunctionOnSet(f, S) = g[S]
<1>1. Cardinality(S) \in Nat
  BY FS_CardinalityType
<1>2. UpTo(S, Cardinality(S)) = SUBSET S
  BY FS_Subset DEF UpTo
<1>3. PICK g : g = [s \in UpTo(S, Cardinality(S)) |-> Unfold(f, g, s)]
  BY <1>1, SumsUpToAll DEF SumsUpTo
<1>4. Sums(f, g, S)
  BY <1>2, <1>3 DEF Sums
<1> QED BY <1>4, SumDef

AgreeOn(f, h, S) == \A x \in S : f[x] = h[x]

\* Two families of sums agree on the sets that both have, if their terms do.
LEMMA SumsAgree ==
  ASSUME NEW f, NEW g, NEW S, NEW h, NEW k, NEW U, NEW T, IsFiniteSet(T),
         Sums(f, g, S), Sums(h, k, U), T \subseteq S, T \subseteq U, AgreeOn(f, h, T)
  PROVE  g[T] = k[T]
<1> DEFINE W == {s \in SUBSET T : g[s] # k[s]}
<1> SUFFICES ASSUME W # {} PROVE FALSE
  OBVIOUS
<1>1. PICK s \in W : \A t \in W : t \subseteq s => t = s
  <2>1. W \subseteq SUBSET T
    OBVIOUS
  <2> HIDE DEF W
  <2> QED BY <2>1, MinimalSubset
<1>2. g[s] = Unfold(f, g, s) /\ k[s] = Unfold(h, k, s)
  BY DEF Sums
<1>3. s # {}
  BY <1>2 DEF Unfold
<1>4. Pick(s) \in s
  BY <1>3 DEF Pick
<1>5. g[s \ {Pick(s)}] = k[s \ {Pick(s)}]
  BY <1>1, <1>4
<1> QED BY <1>2, <1>3, <1>4, <1>5 DEF Unfold, AgreeOn

\* The sum depends on the values over the set only.
LEMMA SumCongruence ==
  ASSUME NEW f, NEW h, NEW S, IsFiniteSet(S), \A x \in S : f[x] = h[x]
  PROVE  SumFunctionOnSet(f, S) = SumFunctionOnSet(h, S)
<1>1. PICK g : Sums(f, g, S) /\ SumFunctionOnSet(f, S) = g[S]
  BY SumExists
<1>2. PICK k : Sums(h, k, S) /\ SumFunctionOnSet(h, S) = k[S]
  BY SumExists
<1>3. AgreeOn(f, h, S)
  BY DEF AgreeOn
<1>4. g[S] = k[S]
  BY <1>1, <1>2, <1>3, SumsAgree
<1> QED BY <1>1, <1>2, <1>4

\* Nothing sums to zero.
LEMMA SumEmpty ==
  ASSUME NEW f
  PROVE  SumFunctionOnSet(f, {}) = 0
<1>1. PICK g : Sums(f, g, {}) /\ SumFunctionOnSet(f, {}) = g[{}]
  BY SumExists, FS_EmptySet
<1> QED BY <1>1 DEF Sums, Unfold

\* The sum unfolds at the element that the fold picks.
LEMMA SumPick ==
  ASSUME NEW f, NEW S, IsFiniteSet(S), S # {}
  PROVE  Pick(S) \in S /\ SumFunctionOnSet(f, S) = f[Pick(S)] + SumFunctionOnSet(f, S \ {Pick(S)})
<1> DEFINE R == S \ {Pick(S)}
<1>1. Pick(S) \in S
  BY DEF Pick
<1>2. PICK g : Sums(f, g, S) /\ SumFunctionOnSet(f, S) = g[S]
  BY SumExists
<1>3. IsFiniteSet(R)
  BY FS_RemoveElement
<1>4. PICK k : Sums(f, k, R) /\ SumFunctionOnSet(f, R) = k[R]
  BY <1>3, SumExists
<1>5. g[R] = k[R]
  <2>1. AgreeOn(f, f, R)
    BY DEF AgreeOn
  <2> QED BY <2>1, <1>2, <1>3, <1>4, SumsAgree
<1>6. g[S] = f[Pick(S)] + g[R]
  BY <1>2 DEF Sums, Unfold
<1> QED BY <1>1, <1>2, <1>4, <1>5, <1>6

\* A sum of integers is an integer.
LEMMA SumInt ==
  ASSUME NEW f, NEW S, IsFiniteSet(S), \A x \in S : f[x] \in Int
  PROVE  SumFunctionOnSet(f, S) \in Int
<1> DEFINE W == {s \in SUBSET S : SumFunctionOnSet(f, s) \notin Int}
<1> SUFFICES ASSUME W # {} PROVE FALSE
  OBVIOUS
<1>1. PICK s \in W : \A t \in W : t \subseteq s => t = s
  <2>1. W \subseteq SUBSET S
    OBVIOUS
  <2> HIDE DEF W
  <2> QED BY <2>1, MinimalSubset
<1>2. s # {} /\ IsFiniteSet(s)
  <2>1. SumFunctionOnSet(f, s) \notin Int /\ s \in SUBSET S
    BY <1>1
  <2>2. SumFunctionOnSet(f, {}) = 0
    BY SumEmpty
  <2> QED BY <2>1, <2>2, FS_Subset
<1>3. Pick(s) \in s /\ SumFunctionOnSet(f, s) = f[Pick(s)] + SumFunctionOnSet(f, s \ {Pick(s)})
  BY <1>2, SumPick
<1>4. SumFunctionOnSet(f, s \ {Pick(s)}) \in Int
  BY <1>1, <1>3
<1> QED BY <1>3, <1>4

\* A sum is one of its terms and the sum of the others.
LEMMA SumSplit ==
  ASSUME NEW f, NEW S, IsFiniteSet(S), \A x \in S : f[x] \in Int, NEW a \in S
  PROVE  SumFunctionOnSet(f, S) = f[a] + SumFunctionOnSet(f, S \ {a})
<1> DEFINE Splits(s, x) == SumFunctionOnSet(f, s) = f[x] + SumFunctionOnSet(f, s \ {x})
           W == {s \in SUBSET S : \E x \in s : ~Splits(s, x)}
<1> SUFFICES ASSUME W # {} PROVE FALSE
  OBVIOUS
<1>1. PICK s \in W : \A t \in W : t \subseteq s => t = s
  <2>1. W \subseteq SUBSET S
    OBVIOUS
  <2> HIDE DEF W
  <2> QED BY <2>1, MinimalSubset
<1>2. PICK x \in s : ~Splits(s, x)
  BY <1>1
<1>3. IsFiniteSet(s) /\ s \subseteq S
  BY FS_Subset
<1> DEFINE c  == Pick(s)
           sx == s \ {x}
           sc == s \ {c}
           r  == s \ {x, c}
<1>4. c \in s /\ Splits(s, c)
  BY <1>3, SumPick
<1>5. c # x
  BY <1>2, <1>4
<1>6. \A t \in SUBSET s : t # s => \A y \in t : Splits(t, y)
  BY <1>1, <1>3
<1>7. Splits(sc, x) /\ Splits(sx, c)
  <2>1. x \in sc /\ sc # s /\ c \in sx /\ sx # s
    BY <1>4, <1>5
  <2> HIDE DEF Splits
  <2> QED BY <2>1, <1>6
<1>8. sc \ {x} = r /\ sx \ {c} = r
  OBVIOUS
<1>9. SumFunctionOnSet(f, r) \in Int /\ f[x] \in Int /\ f[c] \in Int
  <2>1. IsFiniteSet(r)
    BY <1>3, FS_Subset
  <2>2. \A y \in r : f[y] \in Int
    BY <1>3
  <2> QED BY <2>1, <2>2, <1>3, <1>4, SumInt
<1>10. /\ SumFunctionOnSet(f, s) = f[c] + SumFunctionOnSet(f, sc)
       /\ SumFunctionOnSet(f, sc) = f[x] + SumFunctionOnSet(f, r)
       /\ SumFunctionOnSet(f, sx) = f[c] + SumFunctionOnSet(f, r)
       /\ SumFunctionOnSet(f, s) # f[x] + SumFunctionOnSet(f, sx)
  BY <1>2, <1>4, <1>7, <1>8
<1> HIDE DEF W, c, sx, sc, r
<1> QED BY <1>9, <1>10

\* A sum changes by what one of its terms changes.
LEMMA SumUpdate ==
  ASSUME NEW f, NEW h, NEW S, IsFiniteSet(S), NEW a \in S,
         \A x \in S : f[x] \in Int /\ h[x] \in Int, \A x \in S \ {a} : h[x] = f[x]
  PROVE  SumFunctionOnSet(h, S) = SumFunctionOnSet(f, S) - f[a] + h[a]
<1>1. IsFiniteSet(S \ {a})
  BY FS_RemoveElement
<1>2. SumFunctionOnSet(f, S \ {a}) = SumFunctionOnSet(h, S \ {a})
  BY <1>1, SumCongruence
<1>3. SumFunctionOnSet(f, S \ {a}) \in Int
  BY <1>1, SumInt
<1>4. /\ SumFunctionOnSet(f, S) = f[a] + SumFunctionOnSet(f, S \ {a})
      /\ SumFunctionOnSet(h, S) = h[a] + SumFunctionOnSet(h, S \ {a})
  BY SumSplit
<1> QED BY <1>2, <1>3, <1>4

\* Without some terms, none of which is negative, a sum is no larger.
LEMMA SumSubset ==
  ASSUME NEW f, NEW S, IsFiniteSet(S), \A x \in S : f[x] \in Nat, NEW T, T \subseteq S
  PROVE  SumFunctionOnSet(f, T) <= SumFunctionOnSet(f, S)
<1> DEFINE Smaller(s) == ~(SumFunctionOnSet(f, T) <= SumFunctionOnSet(f, s))
           W == {s \in SUBSET S : T \subseteq s /\ Smaller(s)}
<1> SUFFICES ASSUME W # {} PROVE FALSE
  OBVIOUS
<1>1. PICK s \in W : \A t \in W : t \subseteq s => t = s
  <2>1. W \subseteq SUBSET S
    OBVIOUS
  <2> HIDE DEF W
  <2> QED BY <2>1, MinimalSubset
<1>2. IsFiniteSet(s) /\ s \subseteq S /\ T \subseteq s /\ Smaller(s)
  BY <1>1, FS_Subset
<1>3. IsFiniteSet(T) /\ SumFunctionOnSet(f, T) \in Int
  BY <1>2, FS_Subset, SumInt
<1>4. s # T
  BY <1>2, <1>3
<1>5. PICK x \in s : x \notin T
  BY <1>2, <1>4
<1>6. s \ {x} \in SUBSET S /\ T \subseteq s \ {x} /\ ~Smaller(s \ {x})
  BY <1>1, <1>2, <1>5
<1>7. SumFunctionOnSet(f, s) = f[x] + SumFunctionOnSet(f, s \ {x})
  BY <1>2, SumSplit
<1>8. SumFunctionOnSet(f, s \ {x}) \in Int
  <2>1. IsFiniteSet(s \ {x})
    BY <1>2, FS_RemoveElement
  <2> QED BY <1>2, <2>1, SumInt
<1> QED BY <1>2, <1>3, <1>6, <1>7, <1>8

-----------------------------------------------------------------------------
\* The same of the sum of a whole function.

LEMMA SumFunctionInt ==
  ASSUME NEW S, IsFiniteSet(S), NEW f \in [S -> Int]
  PROVE  SumFunction(f) \in Int
BY SumInt DEF SumFunction

\* One element can be taken out of a sum.
LEMMA SumFunctionSplit ==
  ASSUME NEW S, IsFiniteSet(S), NEW f \in [S -> Int], NEW a \in S
  PROVE  SumFunction(f) = f[a] + SumFunction([x \in S \ {a} |-> f[x]])
<1> DEFINE r == [x \in S \ {a} |-> f[x]]
<1>1. IsFiniteSet(S \ {a})
  BY FS_RemoveElement
<1>2. SumFunctionOnSet(f, S \ {a}) = SumFunctionOnSet(r, S \ {a})
  BY <1>1, SumCongruence
<1>3. SumFunctionOnSet(f, S) = f[a] + SumFunctionOnSet(f, S \ {a})
  BY SumSplit
<1>4. DOMAIN f = S /\ DOMAIN r = S \ {a}
  OBVIOUS
<1> HIDE DEF r
<1>5. SumFunction(f) = SumFunctionOnSet(f, S) /\ SumFunction(r) = SumFunctionOnSet(r, S \ {a})
  BY <1>4 DEF SumFunction
<1>6. SumFunction(f) = f[a] + SumFunction(r)
  BY <1>2, <1>3, <1>5
<1> QED BY <1>6 DEF r

\* A function that changes at one element changes its sum by as much.
LEMMA SumFunctionUpdate ==
  ASSUME NEW S, IsFiniteSet(S), NEW f \in [S -> Int], NEW h \in [S -> Int], NEW a \in S,
         \A x \in S \ {a} : h[x] = f[x]
  PROVE  SumFunction(h) = SumFunction(f) - f[a] + h[a]
BY SumUpdate DEF SumFunction

\* Part of a function with no negative value sums to no more.
LEMMA SumFunctionSubset ==
  ASSUME NEW S, IsFiniteSet(S), NEW f \in [S -> Nat], NEW T, T \subseteq S
  PROVE  /\ SumFunction([x \in T |-> f[x]]) <= SumFunction(f)
         /\ SumFunction([x \in T |-> f[x]]) \in Int /\ SumFunction(f) \in Int
<1>1. IsFiniteSet(T)
  BY FS_Subset
<1>2. PICK g : g = [x \in T |-> f[x]]
  OBVIOUS
<1>3. SumFunctionOnSet(g, T) = SumFunctionOnSet(f, T)
  BY <1>1, <1>2, SumCongruence
<1>4. SumFunction(g) = SumFunctionOnSet(g, T) /\ SumFunction(f) = SumFunctionOnSet(f, S)
  BY <1>2 DEF SumFunction
<1>5. SumFunctionOnSet(f, T) <= SumFunctionOnSet(f, S)
  BY SumSubset
<1>6. SumFunctionOnSet(f, T) \in Int /\ SumFunctionOnSet(f, S) \in Int
  BY <1>1, SumInt
<1> QED BY <1>2, <1>3, <1>4, <1>5, <1>6
=============================================================================
