---------------------------- MODULE SumTheorems -----------------------------
(***************************************************************************)
(* Sums over finite sets.  SumFunctionOnSet adds up the values of a function   *)
(* at the members of a set, in the order of a CHOOSE; proved here is that the    *)
(* order does not matter, and what follows for the ledgers of the stock: what     *)
(* one more entry, one changed entry and entries of zero do to a sum.            *)
(*                                                                          *)
(* The induction is over the subsets of a finite set.  As a theorem about a set   *)
(* of them (SubsetInduction), and not about a predicate, it can be cited by the    *)
(* proofs that need it.                                                       *)
(***************************************************************************)
EXTENDS Functions, FiniteSetTheorems, WellFoundedInduction, TLAPS

(* What holds of a set as soon as it holds of all its proper subsets holds of all    *)
(* the subsets of a finite set.                                                *)
LEMMA SubsetInduction ==
    ASSUME NEW S, IsFiniteSet(S), NEW Good,
           \A T \in SUBSET S : (\A U \in SUBSET T : U # T => U \in Good) => T \in Good
    PROVE  \A T \in SUBSET S : T \in Good
<1> DEFINE Bad == {T \in SUBSET S : T \notin Good}
           R == StrictSubsetOrdering(S)
<1> SUFFICES ASSUME Bad # {}
             PROVE  FALSE
  OBVIOUS
<1>1. IsWellFoundedOn(R, SUBSET S)
  <2>1. FiniteSubsetsOf(S) = SUBSET S
    BY FS_FiniteSubsetsOfFinite
  <2>2. IsWellFoundedOn(R, FiniteSubsetsOf(S))
    BY FS_StrictSubsetOrderingWellFounded
  <2> QED BY <2>1, <2>2
<1>2. Bad \subseteq SUBSET S
  OBVIOUS
<1>3. \A T, U \in SUBSET S : U \subseteq T /\ U # T => <<U, T>> \in R
  BY DEF StrictSubsetOrdering
<1> HIDE DEF R, Bad
<1>4. PICK T \in Bad : \A U \in Bad : <<U, T>> \notin R
  BY <1>1, <1>2, WFMin
<1>5. ASSUME NEW U \in SUBSET T, U # T
      PROVE  U \in Good
  <2>1. T \in SUBSET S /\ U \in SUBSET S
    BY <1>2, <1>4
  <2>2. <<U, T>> \in R
    BY <1>3, <1>5, <2>1
  <2>3. U \notin Bad
    BY <1>4, <2>2
  <2> QED BY <2>1, <2>3 DEF Bad
<1> QED BY <1>4, <1>5 DEF Bad

LEMMA NatInductionOnSet ==
    ASSUME NEW Good, 0 \in Good, \A n \in Nat : n \in Good => n + 1 \in Good
    PROVE  \A n \in Nat : n \in Good
<1> DEFINE Bad == {n \in Nat : n \notin Good}
           R == OpToRel(<, Nat)
<1> SUFFICES ASSUME Bad # {}
             PROVE  FALSE
  OBVIOUS
<1>1. IsWellFoundedOn(R, Nat)
  BY NatLessThanWellFounded
<1>2. \A m, n \in Nat : m < n => <<m, n>> \in R
  BY DEF OpToRel
<1> HIDE DEF R
<1>3. PICK n \in Bad : \A m \in Bad : <<m, n>> \notin R
  BY <1>1, WFMin
<1>4. n \in Nat \ {0} /\ n - 1 \in Nat /\ n - 1 < n /\ n = (n - 1) + 1
  BY <1>3
<1>5. n - 1 \in Good
  BY <1>2, <1>3, <1>4
<1> QED BY <1>3, <1>4, <1>5

-----------------------------------------------------------------------------
(* The recursive function that SumFunctionOnSet is defined by.                        *)

First(T) == CHOOSE x \in T : TRUE

IsSum(h, f, S) ==
    \A T \in SUBSET S : h[T] = IF T = {} THEN 0 ELSE f[First(T)] + h[T \ {First(T)}]

LEMMA SumUnfold ==
    ASSUME NEW f, NEW S
    PROVE  SumFunctionOnSet(f, S) =
             (CHOOSE h : h = [T \in SUBSET S |->
                 IF T = {} THEN 0
                 ELSE f[CHOOSE x \in T : TRUE] + h[T \ {CHOOSE x \in T : TRUE}]])[S]
BY DEF SumFunctionOnSet, FoldFunctionOnSet, MapThenFoldSet

(* It exists: from the sets of up to n members to those of n + 1.                     *)
LEMMA SumExists ==
    ASSUME NEW S, IsFiniteSet(S), NEW f, \A x \in S : f[x] \in Int
    PROVE  \E h \in [SUBSET S -> Int] : IsSum(h, f, S)
<1> DEFINE UpTo(n) == {T \in SUBSET S : Cardinality(T) <= n}
           Next(h, T) == IF T = {} THEN 0 ELSE f[First(T)] + h[T \ {First(T)}]
           Good == {n \in Nat : \E h \in [SUBSET S -> Int] : \A T \in UpTo(n) : h[T] = Next(h, T)}
<1>1. \A T \in SUBSET S : IsFiniteSet(T) /\ Cardinality(T) \in Nat
  BY FS_Subset, FS_CardinalityType
<1>2. \A T \in SUBSET S : T # {} => /\ First(T) \in T
                                    /\ Cardinality(T \ {First(T)}) = Cardinality(T) - 1
  <2> SUFFICES ASSUME NEW T \in SUBSET S, T # {}
               PROVE  First(T) \in T /\ Cardinality(T \ {First(T)}) = Cardinality(T) - 1
    OBVIOUS
  <2>1. First(T) \in T
    BY DEF First
  <2> QED BY <1>1, <2>1, FS_RemoveElement
<1>3. \A T \in UpTo(0) : T = {}
  BY <1>1, FS_EmptySet
<1>4. 0 \in Good
  <2> DEFINE h == [T \in SUBSET S |-> 0]
  <2>1. h \in [SUBSET S -> Int] /\ \A T \in UpTo(0) : h[T] = Next(h, T)
    BY <1>3
  <2> QED BY <2>1
<1>5. ASSUME NEW n \in Nat, n \in Good
      PROVE  n + 1 \in Good
  <2>1. PICK h \in [SUBSET S -> Int] : \A T \in UpTo(n) : h[T] = Next(h, T)
    BY <1>5
  <2> DEFINE g == [T \in SUBSET S |-> IF Cardinality(T) <= n THEN h[T] ELSE Next(h, T)]
  <2>2. ASSUME NEW T \in SUBSET S
        PROVE  Next(h, T) \in Int
    <3>1. CASE T = {}
      BY <3>1
    <3>2. CASE T # {}
      <4>1. f[First(T)] \in Int /\ h[T \ {First(T)}] \in Int
        BY <1>2, <3>2
      <4> QED BY <3>2, <4>1
    <3> QED BY <3>1, <3>2
  <2>3. g \in [SUBSET S -> Int]
    BY <2>2
  <2>4. ASSUME NEW T \in UpTo(n + 1)
        PROVE  g[T] = Next(g, T)
    <3>1. CASE T = {}
      <4>1. Cardinality(T) <= n /\ T \in UpTo(n)
        BY <3>1, FS_EmptySet
      <4> QED BY <2>1, <3>1, <4>1
    <3>2. CASE T # {}
      <4>1. First(T) \in T /\ Cardinality(T \ {First(T)}) = Cardinality(T) - 1
        BY <1>2, <3>2
      <4>2. T \ {First(T)} \in UpTo(n)
        BY <1>1, <4>1
      <4>3. g[T \ {First(T)}] = h[T \ {First(T)}]
        BY <4>2
      <4>4. g[T] = Next(h, T)
        BY <2>1
      <4> QED BY <3>2, <4>3, <4>4
    <3> QED BY <3>1, <3>2
  <2> HIDE DEF g, Next, UpTo
  <2> QED BY <2>3, <2>4
<1>6. Cardinality(S) \in Good
  <2> HIDE DEF Good
  <2>1. \A n \in Nat : n \in Good
    BY <1>4, <1>5, NatInductionOnSet
  <2> QED BY <1>1, <2>1
<1>7. \A T \in SUBSET S : T \in UpTo(Cardinality(S))
  BY <1>1, FS_Subset
<1> QED BY <1>6, <1>7 DEF IsSum

LEMMA FirstIn ==
    ASSUME NEW T, T # {}
    PROVE  First(T) \in T
BY DEF First

(* Two functions that add up the same values are the same, on the subsets of both       *)
(* their domains.                                                              *)
LEMMA SumUnique ==
    ASSUME NEW S, IsFiniteSet(S), NEW f, NEW g, NEW h, NEW e, NEW D,
           IsSum(h, f, S), IsSum(e, g, D), S \subseteq D, \A x \in S : f[x] = g[x]
    PROVE  h[S] = e[S]
<1> DEFINE Good == {T \in SUBSET S : h[T] = e[T]}
<1>1. ASSUME NEW T \in SUBSET S, \A U \in SUBSET T : U # T => U \in Good
      PROVE  T \in Good
  <2>1. CASE T = {}
    <3>1. h[T] = 0 /\ e[T] = 0
      BY <2>1 DEF IsSum
    <3> QED BY <3>1
  <2>2. CASE T # {}
    <3>1. First(T) \in T /\ T \ {First(T)} \in SUBSET T /\ T \ {First(T)} # T
      BY <2>2, FirstIn
    <3>2. h[T \ {First(T)}] = e[T \ {First(T)}] /\ f[First(T)] = g[First(T)]
      BY <1>1, <3>1
    <3>3. h[T] = f[First(T)] + h[T \ {First(T)}] /\ e[T] = g[First(T)] + e[T \ {First(T)}]
      BY <2>2 DEF IsSum
    <3> QED BY <3>2, <3>3
  <2> QED BY <2>1, <2>2
<1> HIDE DEF Good
<1>2. \A T \in SUBSET S : T \in Good
  BY <1>1, SubsetInduction
<1>3. S \in Good
  BY <1>2
<1> QED BY <1>3 DEF Good

LEMMA SumIs ==
    ASSUME NEW S, IsFiniteSet(S), NEW f, \A x \in S : f[x] \in Int,
           NEW h, NEW D, IsSum(h, f, D), S \subseteq D
    PROVE  SumFunctionOnSet(f, S) = h[S]
<1> DEFINE Def(g) == g = [T \in SUBSET S |->
                            IF T = {} THEN 0
                            ELSE f[CHOOSE x \in T : TRUE] + g[T \ {CHOOSE x \in T : TRUE}]]
           e == CHOOSE g : Def(g)
<1>1. PICK k \in [SUBSET S -> Int] : IsSum(k, f, S)
  BY SumExists
<1>2. Def(k)
  BY <1>1 DEF IsSum, First
<1>3. Def(e)
  BY <1>2
<1>4. SumFunctionOnSet(f, S) = e[S]
  BY SumUnfold
<1> HIDE DEF e
<1>5. IsSum(e, f, S)
  BY <1>3 DEF IsSum, First
<1> HIDE DEF Def
<1>6. e[S] = h[S]
  BY <1>5, SumUnique
<1> QED BY <1>4, <1>6

(* The order of the summands does not matter: any of them may come first.               *)
AnyOrder(h, f, S) == \A y \in S : h[S] = f[y] + h[S \ {y}]

LEMMA AnyFirst ==
    ASSUME NEW S, IsFiniteSet(S), NEW f, \A x \in S : f[x] \in Int,
           NEW h, \A T \in SUBSET S : h[T] \in Int, IsSum(h, f, S)
    PROVE  AnyOrder(h, f, S)
<1> DEFINE Good == {T \in SUBSET S : \A x \in T : h[T] = f[x] + h[T \ {x}]}
<1>1. ASSUME NEW T \in SUBSET S, \A U \in SUBSET T : U # T => U \in Good, NEW x \in T
      PROVE  h[T] = f[x] + h[T \ {x}]
  <2> DEFINE c == First(T)
  <2>1. c \in T /\ h[T] = f[c] + h[T \ {c}]
    BY FirstIn DEF IsSum
  <2> HIDE DEF c
  <2>2. CASE x = c
    BY <2>1, <2>2
  <2>3. CASE x # c
    <3>1. T \ {c} \in Good /\ T \ {x} \in Good
      BY <1>1, <2>1
    <3>2. h[T \ {c}] = f[x] + h[(T \ {c}) \ {x}]
      BY <2>3, <3>1
    <3>3. h[T \ {x}] = f[c] + h[(T \ {x}) \ {c}]
      BY <2>1, <2>3, <3>1
    <3>4. (T \ {c}) \ {x} = (T \ {x}) \ {c} /\ (T \ {c}) \ {x} \in SUBSET S
      OBVIOUS
    <3>5. f[x] \in Int /\ f[c] \in Int /\ h[(T \ {c}) \ {x}] \in Int
      BY <2>1, <3>4
    <3> DEFINE a == f[x]
               b == f[c]
               r == h[(T \ {c}) \ {x}]
               u == h[T \ {c}]
               v == h[T \ {x}]
               w == h[T]
    <3>6. /\ a \in Int /\ b \in Int /\ r \in Int
          /\ w = b + u /\ u = a + r /\ v = b + r
      BY <2>1, <3>2, <3>3, <3>4, <3>5
    <3> HIDE DEF a, b, r, u, v, w
    <3>7. w = a + v
      BY <3>6
    <3> QED BY <3>7 DEF a, v, w
  <2> QED BY <2>2, <2>3
<1> HIDE DEF Good
<1>2. \A T \in SUBSET S : T \in Good
  <2>1. ASSUME NEW T \in SUBSET S, \A U \in SUBSET T : U # T => U \in Good
        PROVE  T \in Good
    BY <1>1, <2>1 DEF Good
  <2> QED BY <2>1, SubsetInduction
<1>3. S \in Good
  BY <1>2
<1> QED BY <1>3 DEF Good, AnyOrder

-----------------------------------------------------------------------------
(* What the ledgers need.                                                       *)

THEOREM SumIsInt ==
    ASSUME NEW S, IsFiniteSet(S), NEW f, \A x \in S : f[x] \in Int
    PROVE  SumFunctionOnSet(f, S) \in Int
<1>1. PICK h \in [SUBSET S -> Int] : IsSum(h, f, S)
  BY SumExists
<1>2. SumFunctionOnSet(f, S) = h[S]
  BY <1>1, SumIs
<1> QED BY <1>2

THEOREM SumOfNone ==
    ASSUME NEW f
    PROVE  SumFunctionOnSet(f, {}) = 0
<1>1. IsFiniteSet({})
  BY FS_EmptySet
<1>2. PICK h \in [SUBSET {} -> Int] : IsSum(h, f, {})
  BY <1>1, SumExists
<1>3. SumFunctionOnSet(f, {}) = h[{}]
  BY <1>1, <1>2, SumIs
<1> QED BY <1>2, <1>3 DEF IsSum

(* Any member may be taken out of the sum.                                          *)
THEOREM SumSplit ==
    ASSUME NEW S, IsFiniteSet(S), NEW f, \A x \in S : f[x] \in Int, NEW y \in S
    PROVE  SumFunctionOnSet(f, S) = f[y] + SumFunctionOnSet(f, S \ {y})
<1>1. PICK h \in [SUBSET S -> Int] : IsSum(h, f, S)
  BY SumExists
<1>2. SumFunctionOnSet(f, S) = h[S]
  BY <1>1, SumIs
<1>3. IsFiniteSet(S \ {y}) /\ S \ {y} \subseteq S /\ \A x \in S \ {y} : f[x] \in Int
  BY FS_Subset
<1>4. SumFunctionOnSet(f, S \ {y}) = h[S \ {y}]
  BY <1>1, <1>3, SumIs
<1>5. \A T \in SUBSET S : h[T] \in Int
  BY <1>1
<1>6. AnyOrder(h, f, S)
  BY <1>1, <1>5, AnyFirst
<1> QED BY <1>2, <1>4, <1>6 DEF AnyOrder

(* Only the values at the members count.                                           *)
THEOREM SumSame ==
    ASSUME NEW S, IsFiniteSet(S), NEW f, NEW g,
           \A x \in S : f[x] \in Int /\ f[x] = g[x]
    PROVE  SumFunctionOnSet(f, S) = SumFunctionOnSet(g, S)
<1>1. PICK h \in [SUBSET S -> Int] : IsSum(h, f, S)
  BY SumExists
<1>2. PICK e \in [SUBSET S -> Int] : IsSum(e, g, S)
  BY SumExists
<1>3. SumFunctionOnSet(f, S) = h[S]
  BY <1>1, SumIs
<1>4. SumFunctionOnSet(g, S) = e[S]
  BY <1>2, SumIs
<1>5. h[S] = e[S]
  BY <1>1, <1>2, SumUnique
<1> QED BY <1>3, <1>4, <1>5

(* One entry of the ledger changes.                                                *)
THEOREM SumChange ==
    ASSUME NEW S, IsFiniteSet(S), NEW f, NEW g, NEW y \in S,
           \A x \in S : f[x] \in Int /\ g[x] \in Int,
           \A x \in S \ {y} : g[x] = f[x]
    PROVE  SumFunctionOnSet(g, S) = SumFunctionOnSet(f, S) + g[y] - f[y]
<1> DEFINE A == SumFunctionOnSet(f, S)
           B == SumFunctionOnSet(g, S)
           C == SumFunctionOnSet(f, S \ {y})
           D == SumFunctionOnSet(g, S \ {y})
<1>1. IsFiniteSet(S \ {y})
  BY FS_Subset
<1>2. A = f[y] + C /\ B = g[y] + D
  BY SumSplit
<1>3. C \in Int
  BY <1>1, SumIsInt
<1>4. C = D
  <2>1. \A x \in S \ {y} : f[x] \in Int /\ f[x] = g[x]
    OBVIOUS
  <2> QED BY <1>1, <2>1, SumSame
<1> HIDE DEF A, B, C, D
<1>5. B = A + g[y] - f[y]
  BY <1>2, <1>3, <1>4
<1> QED BY <1>5 DEF A, B

(* Entries of zero do not count.                                                   *)
THEOREM SumOfSupport ==
    ASSUME NEW S, IsFiniteSet(S), NEW T \in SUBSET S, NEW f, NEW g,
           \A x \in T : f[x] \in Int /\ g[x] = f[x],
           \A x \in S \ T : f[x] = 0
    PROVE  SumFunctionOnSet(f, S) = SumFunctionOnSet(g, T)
<1> DEFINE Good == {U \in SUBSET S : SumFunctionOnSet(f, U) = SumFunctionOnSet(g, U \cap T)}
<1>1. \A U \in SUBSET S : IsFiniteSet(U) /\ IsFiniteSet(U \cap T)
  BY FS_Subset
<1>2. ASSUME NEW U \in SUBSET S, \A V \in SUBSET U : V # U => V \in Good
      PROVE  U \in Good
  <2>1. CASE U = {}
    <3>1. U \cap T = {}
      BY <2>1
    <3>2. SumFunctionOnSet(f, U) = 0 /\ SumFunctionOnSet(g, U \cap T) = 0
      BY <2>1, <3>1, SumOfNone
    <3> QED BY <3>2
  <2>2. CASE U # {}
    <3>1. PICK y \in U : TRUE
      BY <2>2
    <3>2. U \ {y} \in Good
      BY <1>2
    <3> DEFINE A == SumFunctionOnSet(f, U)
               B == SumFunctionOnSet(g, U \cap T)
               C == SumFunctionOnSet(f, U \ {y})
               D == SumFunctionOnSet(g, (U \ {y}) \cap T)
    <3>3. C = D
      BY <3>2
    <3>4. \A x \in U : f[x] \in Int
      OBVIOUS
    <3>5. A = f[y] + C
      BY <1>1, <3>4, SumSplit
    <3>6. IsFiniteSet(U \ {y}) /\ C \in Int
      <4>1. IsFiniteSet(U \ {y})
        BY <1>1, FS_Subset
      <4> QED BY <3>4, <4>1, SumIsInt
    <3>7. CASE y \in T
      <4>1. y \in U \cap T /\ (U \cap T) \ {y} = (U \ {y}) \cap T
        BY <3>7
      <4>2. \A x \in U \cap T : g[x] \in Int
        OBVIOUS
      <4>3. IsFiniteSet(U \cap T)
        BY <1>1
      <4>4. B = g[y] + SumFunctionOnSet(g, (U \cap T) \ {y})
        BY <4>1, <4>2, <4>3, SumSplit
      <4>5. g[y] = f[y]
        BY <3>7
      <4> HIDE DEF A, B, C, D
      <4>6. B = g[y] + D
        BY <4>1, <4>4 DEF D
      <4>7. A = B
        BY <3>3, <3>5, <4>5, <4>6
      <4> QED BY <4>7 DEF A, B
    <3>8. CASE y \notin T
      <4>1. U \cap T = (U \ {y}) \cap T
        BY <3>8
      <4>2. f[y] = 0
        BY <3>8
      <4>3. A = C
        BY <3>5, <3>6, <4>2
      <4> QED BY <3>3, <4>1, <4>3
    <3> QED BY <3>7, <3>8
  <2> QED BY <2>1, <2>2
<1> HIDE DEF Good
<1>3. \A U \in SUBSET S : U \in Good
  BY <1>2, SubsetInduction
<1>4. S \in Good /\ S \cap T = T
  BY <1>3
<1> QED BY <1>4 DEF Good
=============================================================================
