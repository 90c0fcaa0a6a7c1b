-------------------------- MODULE MetaIndexProofs --------------------------
(***************************************************************************)
(* Facts about the entries of MetaIndex for every set of datasets, writes  *)
(* and changes of extent, and about the selections they are made from:     *)
(* the states are of their types, the offset an entry computes its         *)
(* references with is the one it will have in its section, references land *)
(* on an entry with a selection, coordinates and entries decode from what  *)
(* they were made from, the list index keeps the blocks that were written, *)
(* and joining and ordering blocks keeps their cells.                      *)
(*                                                                         *)
(* The sums, products and flattened sequences of the community modules are *)
(* recursive functions over sets and indices.  Their values are reached    *)
(* from the elements by induction on the size of the set, or on the index: *)
(* of the cases for which a fact is wrong there would be a smallest.       *)
(***************************************************************************)
EXTENDS MetaIndex, FiniteSetTheorems, SequenceTheorems, WellFoundedInduction, TLAPS

\* A non-empty set of natural numbers has a least element.
LEMMA LeastOf ==
    ASSUME NEW T \in SUBSET Nat, T # {}
    PROVE  \E m \in T : \A k \in T : m <= k
<1>1. PICK m \in T : \A k \in T : ~(<<k, m>> \in OpToRel(<, Nat))
  BY NatLessThanWellFounded, WFMin
<1>2. \A k \in T : ~(k < m)
  BY <1>1 DEF OpToRel
<1>3. QED
  BY <1>2
-----------------------------------------------------------------------------
(***************************************************************************)
(* Folds over finite sets.  A step takes the element and what the rest is  *)
(* folded to.                                                              *)
(***************************************************************************)
Some(s) == CHOOSE x \in s : TRUE

FoldsTo(D, base, step, g) ==
    g = [s \in SUBSET D |-> IF s = {} THEN base ELSE step[<<Some(s), g[s \ {Some(s)}]>>]]

\* Subsets of at most n elements.
UpTo(D, n) == {s \in SUBSET D : Cardinality(s) <= n}
LEMMA RestSmaller ==
    ASSUME NEW D, IsFiniteSet(D), NEW s \in SUBSET D, s # {}
    PROVE  /\ Some(s) \in s /\ IsFiniteSet(s) /\ s \ {Some(s)} \in SUBSET D
           /\ Cardinality(s) \in Nat /\ Cardinality(s \ {Some(s)}) = Cardinality(s) - 1
<1>1. Some(s) \in s
  BY DEF Some
<1>2. IsFiniteSet(s)
  BY FS_Subset
<1>3. Cardinality(s) \in Nat
  BY <1>2, FS_CardinalityType
<1>4. Cardinality(s \ {Some(s)}) = Cardinality(s) - 1
  BY <1>1, <1>2, FS_RemoveElement
<1> QED BY <1>1, <1>2, <1>3, <1>4

\* The same with the element that pick chooses of a set.
Picks(pick, D) == \A s \in SUBSET D : s # {} => pick[s] \in s
FoldsBy(D, base, step, pick, g) ==
    g = [s \in SUBSET D |-> IF s = {} THEN base ELSE step[<<pick[s], g[s \ {pick[s]}]>>]]
FoldsUpToBy(D, base, step, pick, n, g) ==
    g = [s \in UpTo(D, n) |-> IF s = {} THEN base ELSE step[<<pick[s], g[s \ {pick[s]}]>>]]

LEMMA PickSmaller ==
    ASSUME NEW D, IsFiniteSet(D), NEW pick, Picks(pick, D), NEW s \in SUBSET D, s # {}
    PROVE  /\ pick[s] \in s /\ IsFiniteSet(s) /\ s \ {pick[s]} \in SUBSET D
           /\ Cardinality(s) \in Nat /\ Cardinality(s \ {pick[s]}) = Cardinality(s) - 1
<1>1. pick[s] \in s
  BY DEF Picks
<1>2. IsFiniteSet(s)
  BY FS_Subset
<1>3. Cardinality(s) \in Nat
  BY <1>2, FS_CardinalityType
<1>4. Cardinality(s \ {pick[s]}) = Cardinality(s) - 1
  BY <1>1, <1>2, FS_RemoveElement
<1> QED BY <1>1, <1>2, <1>3, <1>4

LEMMA FoldStepBy ==
    ASSUME NEW D, IsFiniteSet(D), NEW pick, Picks(pick, D), NEW S, NEW base \in S, NEW step \in [D \X S -> S], NEW n \in Nat,
           \E g \in [UpTo(D, n) -> S] : FoldsUpToBy(D, base, step, pick, n, g)
    PROVE  \E g \in [UpTo(D, n + 1) -> S] : FoldsUpToBy(D, base, step, pick, n + 1, g)
<1>1. PICK g \in [UpTo(D, n) -> S] : FoldsUpToBy(D, base, step, pick, n, g)
  OBVIOUS
<1> DEFINE RHS(s) == IF s = {} THEN base ELSE step[<<pick[s], g[s \ {pick[s]}]>>]
           h == [s \in UpTo(D, n + 1) |-> RHS(s)]
<1>2. ASSUME NEW s \in UpTo(D, n + 1), s # {}
      PROVE  pick[s] \in D /\ s \ {pick[s]} \in UpTo(D, n) /\ s \ {pick[s]} \in UpTo(D, n + 1)
  <2>1. s \in SUBSET D /\ Cardinality(s) <= n + 1
    BY DEF UpTo
  <2>2. /\ pick[s] \in s /\ s \ {pick[s]} \in SUBSET D
        /\ Cardinality(s) \in Nat /\ Cardinality(s \ {pick[s]}) = Cardinality(s) - 1
    BY <1>2, <2>1, PickSmaller
  <2> HIDE DEF h, RHS
  <2>3. Cardinality(s \ {pick[s]}) <= n /\ Cardinality(s \ {pick[s]}) <= n + 1
    <3>1. \A a \in Nat : a <= n + 1 => a - 1 <= n /\ a - 1 <= n + 1
      OBVIOUS
    <3> QED BY <2>1, <2>2, <3>1
  <2> QED BY <2>1, <2>2, <2>3 DEF UpTo
<1>3. ASSUME NEW s \in UpTo(D, n + 1) PROVE RHS(s) \in S
  <2>1. CASE s = {}
    BY <2>1
  <2>2. CASE s # {}
    <3>1. pick[s] \in D /\ g[s \ {pick[s]}] \in S
      BY <1>2, <2>2
    <3> QED BY <2>2, <3>1
  <2> QED BY <2>1, <2>2
<1>4. h \in [UpTo(D, n + 1) -> S]
  BY <1>3
<1>5. ASSUME NEW s \in UpTo(D, n) PROVE s \in UpTo(D, n + 1) /\ h[s] = g[s]
  <2>1. s \in UpTo(D, n + 1)
    <3>1. s \in SUBSET D /\ Cardinality(s) <= n
      BY DEF UpTo
    <3>2. Cardinality(s) \in Nat
      BY <3>1, FS_Subset, FS_CardinalityType
    <3> QED BY <3>1, <3>2 DEF UpTo
  <2>2. g[s] = RHS(s)
    BY <1>1 DEF FoldsUpToBy
  <2> QED BY <2>1, <2>2
<1>6. ASSUME NEW s \in UpTo(D, n + 1)
      PROVE  h[s] = IF s = {} THEN base ELSE step[<<pick[s], h[s \ {pick[s]}]>>]
  <2>1. CASE s = {}
    BY <2>1
  <2>2. CASE s # {}
    <3>1. h[s \ {pick[s]}] = g[s \ {pick[s]}]
      BY <1>2, <1>5, <2>2
    <3>2. h[s] = step[<<pick[s], g[s \ {pick[s]}]>>]
      BY <2>2
    <3> QED BY <2>2, <3>1, <3>2
  <2> QED BY <2>1, <2>2
<1> HIDE DEF h
<1>7. FoldsUpToBy(D, base, step, pick, n + 1, h)
  BY <1>4, <1>6 DEF FoldsUpToBy
<1> QED BY <1>4, <1>7

LEMMA FoldExistsBy ==
    ASSUME NEW D, IsFiniteSet(D), NEW pick, Picks(pick, D), NEW S, NEW base \in S, NEW step \in [D \X S -> S]
    PROVE  \E g \in [SUBSET D -> S] : FoldsBy(D, base, step, pick, g)
<1> DEFINE P(n) == \E g \in [UpTo(D, n) -> S] : FoldsUpToBy(D, base, step, pick, n, g)
           Bad == {n \in Nat : ~P(n)}
<1>1. P(0)
  <2> DEFINE h == [s \in UpTo(D, 0) |-> base]
  <2>1. \A s \in UpTo(D, 0) : s = {}
    <3> SUFFICES ASSUME NEW s \in UpTo(D, 0) PROVE s = {}
      OBVIOUS
    <3>1. s \in SUBSET D /\ Cardinality(s) <= 0
      BY DEF UpTo
    <3>2. IsFiniteSet(s)
      BY <3>1, FS_Subset
    <3>3. Cardinality(s) = 0
      BY <3>1, <3>2, FS_CardinalityType
    <3> QED BY <3>2, <3>3, FS_EmptySet
  <2>2. h \in [UpTo(D, 0) -> S]
    OBVIOUS
  <2>3. FoldsUpToBy(D, base, step, pick, 0, h)
    BY <2>1 DEF FoldsUpToBy
  <2> QED BY <2>2, <2>3
<1>2. \A n \in Nat : P(n)
  <2> SUFFICES ASSUME Bad # {} PROVE FALSE
    OBVIOUS
  <2>1. PICK m \in Bad : \A k \in Bad : m <= k
    <3>1. Bad \in SUBSET Nat
      OBVIOUS
    <3> HIDE DEF Bad
    <3> QED BY <3>1, LeastOf
  <2>2. m \in Nat /\ ~P(m)
    OBVIOUS
  <2> HIDE DEF P
  <2>3. m # 0
    BY <1>1, <2>2
  <2>4. m - 1 \in Nat /\ ~(m <= m - 1)
    BY <2>2, <2>3
  <2>5. P(m - 1)
    BY <2>1, <2>4
  <2>6. P((m - 1) + 1)
    BY <2>4, <2>5, FoldStepBy DEF P
  <2>7. (m - 1) + 1 = m
    BY <2>2
  <2> QED BY <2>2, <2>6, <2>7
<1>3. UpTo(D, Cardinality(D)) = SUBSET D
  <2>1. \A s \in SUBSET D : Cardinality(s) <= Cardinality(D)
    BY FS_Subset
  <2> QED BY <2>1 DEF UpTo
<1>4. Cardinality(D) \in Nat
  BY FS_CardinalityType
<1>5. P(Cardinality(D))
  BY <1>2, <1>4
<1> QED BY <1>3, <1>5 DEF FoldsUpToBy, FoldsBy

LEMMA FoldExists ==
    ASSUME NEW D, IsFiniteSet(D), NEW S, NEW base \in S, NEW step \in [D \X S -> S]
    PROVE  \E g \in [SUBSET D -> S] : FoldsTo(D, base, step, g)
<1> DEFINE pick == [s \in SUBSET D |-> Some(s)]
<1>1. Picks(pick, D)
  BY RestSmaller DEF Picks
<1>2. PICK g \in [SUBSET D -> S] : FoldsBy(D, base, step, pick, g)
  <2> HIDE DEF pick
  <2> QED BY <1>1, FoldExistsBy
<1>3. FoldsTo(D, base, step, g)
  BY <1>2 DEF FoldsBy, FoldsTo
<1> QED BY <1>3

\* Induction on sets that shrink by the element chosen, and on numbers.
LEMMA SetInduction ==
    ASSUME NEW D, IsFiniteSet(D), NEW T \in SUBSET (SUBSET D), {} \in T,
           \A s \in SUBSET D : s # {} /\ s \ {Some(s)} \in T => s \in T
    PROVE  \A s \in SUBSET D : s \in T
<1> DEFINE Bad == {n \in Nat : \E s \in SUBSET D : s \notin T /\ Cardinality(s) = n}
<1> SUFFICES ASSUME NEW r \in SUBSET D, r \notin T PROVE FALSE
  OBVIOUS
<1>1. Cardinality(r) \in Nat
  BY FS_Subset, FS_CardinalityType
<1>2. PICK m \in Bad : \A k \in Bad : m <= k
  <2>1. Bad \in SUBSET Nat /\ Bad # {}
    BY <1>1
  <2> HIDE DEF Bad
  <2> QED BY <2>1, LeastOf
<1>3. PICK s \in SUBSET D : s \notin T /\ Cardinality(s) = m
  OBVIOUS
<1>4. s # {}
  BY <1>3
<1>5. /\ s \ {Some(s)} \in SUBSET D /\ m \in Nat
      /\ Cardinality(s \ {Some(s)}) = m - 1 /\ Cardinality(s \ {Some(s)}) \in Nat
  <2>1. s \ {Some(s)} \in SUBSET D /\ m \in Nat /\ Cardinality(s \ {Some(s)}) = m - 1
    BY <1>3, <1>4, RestSmaller
  <2>2. Cardinality(s \ {Some(s)}) \in Nat
    BY <2>1, FS_Subset, FS_CardinalityType
  <2> QED BY <2>1, <2>2
<1>6. s \ {Some(s)} \notin T
  BY <1>3, <1>4
<1>7. m - 1 \in Bad
  BY <1>5, <1>6
<1> HIDE DEF Bad
<1>8. m <= m - 1
  BY <1>2, <1>7
<1> QED BY <1>5, <1>8

LEMMA NumberInduction ==
    ASSUME NEW T \in SUBSET Nat, 0 \in T, \A n \in T : n + 1 \in T
    PROVE  \A n \in Nat : n \in T
<1> DEFINE Bad == {n \in Nat : n \notin T}
<1> SUFFICES ASSUME Bad # {} PROVE FALSE
  OBVIOUS
<1>1. PICK m \in Bad : \A k \in Bad : m <= k
  <2>1. Bad \in SUBSET Nat
    OBVIOUS
  <2> HIDE DEF Bad
  <2> QED BY <2>1, LeastOf
<1>2. m \in Nat /\ m # 0 /\ m \notin T
  OBVIOUS
<1>3. m - 1 \in Nat /\ ~(m <= m - 1) /\ (m - 1) + 1 = m
  BY <1>2
<1>4. m - 1 \in T
  BY <1>1, <1>3
<1>5. (m - 1) + 1 \in T
  BY <1>4
<1> QED BY <1>2, <1>3, <1>5
-----------------------------------------------------------------------------
(***************************************************************************)
(* Sums and products                                                       *)
(***************************************************************************)
SumsTo(fun, D, g) == g = [s \in SUBSET D |-> IF s = {} THEN 0 ELSE fun[Some(s)] + g[s \ {Some(s)}]]
MultipliesTo(fun, D, g) == g = [s \in SUBSET D |-> IF s = {} THEN 1 ELSE fun[Some(s)] * g[s \ {Some(s)}]]

\* The definitions of SumFunction and NumElems, as equations.
LEMMA SumIs ==
    ASSUME NEW fun, \E g : SumsTo(fun, DOMAIN fun, g)
    PROVE  \E g : SumsTo(fun, DOMAIN fun, g) /\ SumFunction(fun) = g[DOMAIN fun]
  BY DEF SumFunction, SumFunctionOnSet, FoldFunctionOnSet, MapThenFoldSet, SumsTo, Some

LEMMA ProductIs ==
    ASSUME NEW fun, \E g : MultipliesTo(fun, DOMAIN fun, g)
    PROVE  \E g : MultipliesTo(fun, DOMAIN fun, g) /\ NumElems(fun) = g[DOMAIN fun]
  BY DEF NumElems, FoldFunction, FoldFunctionOnSet, MapThenFoldSet, MultipliesTo, Some

LEMMA SumFolded ==
    ASSUME NEW D, IsFiniteSet(D), NEW S \in {Nat, Int}, NEW fun \in [D -> S]
    PROVE  \E g \in [SUBSET D -> S] : SumsTo(fun, D, g) /\ SumFunction(fun) = g[D]
<1> DEFINE step == [p \in D \X S |-> fun[p[1]] + p[2]]
<1>1. step \in [D \X S -> S] /\ 0 \in S
  <2>1. \A a, b \in S : a + b \in S
    OBVIOUS
  <2>2. ASSUME NEW p \in D \X S PROVE fun[p[1]] + p[2] \in S
    <3>1. fun[p[1]] \in S /\ p[2] \in S
      OBVIOUS
    <3> QED BY <2>1, <3>1
  <2> QED BY <2>2
<1>2. PICK g \in [SUBSET D -> S] : FoldsTo(D, 0, step, g)
  <2> HIDE DEF step
  <2> QED BY <1>1, FoldExists
<1>3. \A s \in SUBSET D : s # {} => Some(s) \in D /\ s \ {Some(s)} \in SUBSET D
  BY RestSmaller
<1>4. ASSUME NEW s \in SUBSET D
      PROVE  g[s] = IF s = {} THEN 0 ELSE fun[Some(s)] + g[s \ {Some(s)}]
  <2>1. g[s] = IF s = {} THEN 0 ELSE step[<<Some(s), g[s \ {Some(s)}]>>]
    BY <1>2 DEF FoldsTo
  <2>2. CASE s = {}
    BY <2>1, <2>2
  <2>3. CASE s # {}
    <3>1. <<Some(s), g[s \ {Some(s)}]>> \in D \X S
      BY <1>3, <2>3
    <3> QED BY <2>1, <2>3, <3>1
  <2> QED BY <2>2, <2>3
<1>5. SumsTo(fun, D, g)
  BY <1>4 DEF SumsTo
<1>6. DOMAIN fun = D
  OBVIOUS
<1>7. PICK f : SumsTo(fun, D, f) /\ SumFunction(fun) = f[D]
  BY <1>5, <1>6, SumIs
<1>8. \A s \in SUBSET D : f[s] = g[s]
  <2> DEFINE T == {s \in SUBSET D : f[s] = g[s]}
  <2>1. {} \in T
    BY <1>5, <1>7 DEF SumsTo
  <2>2. ASSUME NEW s \in SUBSET D, s # {}, s \ {Some(s)} \in T PROVE s \in T
    BY <1>5, <1>7, <2>2 DEF SumsTo
  <2>3. T \in SUBSET (SUBSET D)
    OBVIOUS
  <2> HIDE DEF T
  <2>4. \A s \in SUBSET D : s \in T
    BY <2>1, <2>2, <2>3, SetInduction
  <2> QED BY <2>4 DEF T
<1> QED BY <1>5, <1>7, <1>8

LEMMA ProductType ==
    ASSUME NEW D, IsFiniteSet(D), NEW fun \in [D -> Nat]
    PROVE  NumElems(fun) \in Nat
<1> DEFINE step == [p \in D \X Nat |-> fun[p[1]] * p[2]]
<1>1. step \in [D \X Nat -> Nat] /\ 1 \in Nat
  <2>1. \A a, b \in Nat : a * b \in Nat
    OBVIOUS
  <2>2. ASSUME NEW p \in D \X Nat PROVE fun[p[1]] * p[2] \in Nat
    <3>1. fun[p[1]] \in Nat /\ p[2] \in Nat
      OBVIOUS
    <3> QED BY <2>1, <3>1
  <2> QED BY <2>2
<1>2. PICK g \in [SUBSET D -> Nat] : FoldsTo(D, 1, step, g)
  <2> HIDE DEF step
  <2> QED BY <1>1, FoldExists
<1>3. \A s \in SUBSET D : s # {} => Some(s) \in D /\ s \ {Some(s)} \in SUBSET D
  BY RestSmaller
<1>4. ASSUME NEW s \in SUBSET D
      PROVE  g[s] = IF s = {} THEN 1 ELSE fun[Some(s)] * g[s \ {Some(s)}]
  <2>1. g[s] = IF s = {} THEN 1 ELSE step[<<Some(s), g[s \ {Some(s)}]>>]
    BY <1>2 DEF FoldsTo
  <2>2. CASE s = {}
    BY <2>1, <2>2
  <2>3. CASE s # {}
    <3>1. <<Some(s), g[s \ {Some(s)}]>> \in D \X Nat
      BY <1>3, <2>3
    <3> QED BY <2>1, <2>3, <3>1
  <2> QED BY <2>2, <2>3
<1>5. MultipliesTo(fun, D, g)
  BY <1>4 DEF MultipliesTo
<1>6. DOMAIN fun = D
  OBVIOUS
<1>7. PICK f : MultipliesTo(fun, D, f) /\ NumElems(fun) = f[D]
  BY <1>5, <1>6, ProductIs
<1>8. \A s \in SUBSET D : f[s] = g[s]
  <2> DEFINE T == {s \in SUBSET D : f[s] = g[s]}
  <2>1. {} \in T
    BY <1>5, <1>7 DEF MultipliesTo
  <2>2. ASSUME NEW s \in SUBSET D, s # {}, s \ {Some(s)} \in T PROVE s \in T
    BY <1>5, <1>7, <2>2 DEF MultipliesTo
  <2>3. T \in SUBSET (SUBSET D)
    OBVIOUS
  <2> HIDE DEF T
  <2>4. \A s \in SUBSET D : s \in T
    BY <2>1, <2>2, <2>3, SetInduction
  <2> QED BY <2>4 DEF T
<1>9. g[D] \in Nat
  OBVIOUS
<1> QED BY <1>7, <1>8, <1>9

LEMMA SumType ==
    ASSUME NEW D, IsFiniteSet(D), NEW S \in {Nat, Int}, NEW fun \in [D -> S]
    PROVE  SumFunction(fun) \in S
<1>1. PICK g \in [SUBSET D -> S] : SumsTo(fun, D, g) /\ SumFunction(fun) = g[D]
  BY SumFolded
<1> QED BY <1>1

\* It does not matter which element is taken first.
AnyFirst(fun, D, g) == \A s \in SUBSET D : \A y \in s : g[s] = fun[y] + g[s \ {y}]

LEMMA SumAnyFirst ==
    ASSUME NEW D, IsFiniteSet(D), NEW fun \in [D -> Int], NEW g \in [SUBSET D -> Int], SumsTo(fun, D, g)
    PROVE  AnyFirst(fun, D, g)
<1> DEFINE Good(s) == \A y \in s : g[s] = fun[y] + g[s \ {y}]
           T == {n \in Nat : \A s \in SUBSET D : Cardinality(s) = n => Good(s)}
<1>1. \A s \in SUBSET D : IsFiniteSet(s) /\ Cardinality(s) \in Nat
  BY FS_Subset, FS_CardinalityType
<1>2. 0 \in T
  <2>1. \A s \in SUBSET D : Cardinality(s) = 0 => s = {}
    BY <1>1, FS_EmptySet
  <2> QED BY <2>1
<1>3. ASSUME NEW n \in T PROVE n + 1 \in T
  <2> SUFFICES ASSUME NEW s \in SUBSET D, Cardinality(s) = n + 1, NEW y \in s
               PROVE  g[s] = fun[y] + g[s \ {y}]
    OBVIOUS
  <2> DEFINE x == Some(s)
  <2>1. x \in s /\ g[s] = fun[x] + g[s \ {x}]
    BY RestSmaller DEF SumsTo
  <2>2. CASE x = y
    BY <2>1, <2>2
  <2>3. CASE x # y
    <3>1. \A e \in s : s \ {e} \in SUBSET D /\ Cardinality(s \ {e}) = n
      <4>1. \A e \in s : Cardinality(s \ {e}) = Cardinality(s) - 1
        BY <1>1, FS_RemoveElement
      <4> QED BY <4>1
    <3>2. Good(s \ {x}) /\ Good(s \ {y})
      BY <2>1, <3>1
    <3>3. y \in s \ {x} /\ x \in s \ {y} /\ (s \ {x}) \ {y} = (s \ {y}) \ {x}
      BY <2>1, <2>3
    <3> DEFINE r == (s \ {y}) \ {x}
    <3>4. g[s \ {x}] = fun[y] + g[r] /\ g[s \ {y}] = fun[x] + g[r]
      BY <3>2, <3>3
    <3>5. g[r] \in Int /\ fun[x] \in Int /\ fun[y] \in Int
      BY <2>1
    <3> QED BY <2>1, <3>4, <3>5
  <2> QED BY <2>2, <2>3
<1> HIDE DEF T
<1>4. \A n \in Nat : n \in T
  <2>1. T \in SUBSET Nat
    BY DEF T
  <2> QED BY <1>2, <1>3, <2>1, NumberInduction
<1> QED BY <1>1, <1>4 DEF T, AnyFirst

\* A sum over numbers, without and with the last.
LEMMA SumLast ==
    ASSUME NEW n \in Nat, NEW fun \in [1 .. n + 1 -> Int]
    PROVE  SumFunction(fun) = SumFunction([j \in 1 .. n |-> fun[j]]) + fun[n + 1]
<1> DEFINE D == 1 .. n + 1
           C == 1 .. n
           low == [j \in C |-> fun[j]]
<1>1. IsFiniteSet(D) /\ IsFiniteSet(C) /\ C \subseteq D /\ D \ {n + 1} = C /\ n + 1 \in D
  <2>1. IsFiniteSet(D) /\ IsFiniteSet(C)
    <3>1. 1 \in Int /\ n \in Int /\ n + 1 \in Int
      OBVIOUS
    <3> QED BY <3>1, FS_Interval
  <2>2. C \subseteq D /\ D \ {n + 1} = C /\ n + 1 \in D
    OBVIOUS
  <2> QED BY <2>1, <2>2
<1>2. PICK g \in [SUBSET D -> Int] : SumsTo(fun, D, g) /\ SumFunction(fun) = g[D]
  BY <1>1, SumFolded
<1>3. PICK h \in [SUBSET C -> Int] : SumsTo(low, C, h) /\ SumFunction(low) = h[C]
  <2>1. low \in [C -> Int]
    BY <1>1
  <2> HIDE DEF C, D, low
  <2> QED BY <1>1, <2>1, SumFolded
<1> HIDE DEF C, D
<1>4. g[D] = fun[n + 1] + g[C]
  <2>1. AnyFirst(fun, D, g)
    <3>1. fun \in [D -> Int]
      BY DEF D
    <3>2. IsFiniteSet(D)
      BY <1>1
    <3>3. g \in [SUBSET D -> Int]
      BY <1>2
    <3>4. SumsTo(fun, D, g)
      BY <1>2
    <3> QED BY <3>1, <3>2, <3>3, <3>4, SumAnyFirst
  <2> QED BY <1>1, <2>1 DEF AnyFirst
<1>5. \A s \in SUBSET C : s \in {r \in SUBSET C : g[r] = h[r]}
  <2> DEFINE T == {r \in SUBSET C : g[r] = h[r]}
  <2>1. {} \in T
    BY <1>2, <1>3 DEF SumsTo
  <2>2. ASSUME NEW s \in SUBSET C, s # {}, s \ {Some(s)} \in T PROVE s \in T
    <3>1. Some(s) \in C
      BY <1>1, <2>2, RestSmaller
    <3>2. s \in SUBSET D /\ low[Some(s)] = fun[Some(s)]
      BY <1>1, <3>1
    <3>3. g[s] = fun[Some(s)] + g[s \ {Some(s)}]
      BY <1>2, <2>2, <3>2 DEF SumsTo
    <3>4. h[s] = low[Some(s)] + h[s \ {Some(s)}]
      BY <1>3, <2>2 DEF SumsTo
    <3> QED BY <2>2, <3>2, <3>3, <3>4
  <2>3. T \in SUBSET (SUBSET C)
    OBVIOUS
  <2> HIDE DEF T
  <2>4. \A s \in SUBSET C : s \in T
    <3>1. IsFiniteSet(C)
      BY <1>1
    <3>2. \A s \in SUBSET C : s # {} /\ s \ {Some(s)} \in T => s \in T
      BY <2>2
    <3> QED BY <2>1, <2>3, <3>1, <3>2, SetInduction
  <2> QED BY <2>4 DEF T
<1>6. g[C] = h[C] /\ h[C] \in Int
  BY <1>5
<1>7. fun[n + 1] \in Int
  BY <1>1 DEF D
<1> QED BY <1>2, <1>3, <1>4, <1>6, <1>7 DEF C
-----------------------------------------------------------------------------
(***************************************************************************)
(* Sequences one after the other                                           *)
(***************************************************************************)
FlattensTo(seqs, n, g) == g = [i \in 1 .. n |-> IF i = 1 THEN seqs[i] ELSE g[i - 1] \o seqs[i]]

\* The definition of FlattenSeq, as an equation.
LEMMA FlattenIs ==
    ASSUME NEW seqs, Len(seqs) # 0, \E g : FlattensTo(seqs, Len(seqs), g)
    PROVE  \E g : FlattensTo(seqs, Len(seqs), g) /\ FlattenSeq(seqs) = g[Len(seqs)]
  BY DEF FlattenSeq, FlattensTo

LEMMA FlattenExists ==
    ASSUME NEW T, NEW n \in Nat, NEW seqs \in [1 .. n -> Seq(T)]
    PROVE  \E g \in [1 .. n -> Seq(T)] : FlattensTo(seqs, n, g)
<1> DEFINE P(k) == k <= n => \E g \in [1 .. k -> Seq(T)] : FlattensTo(seqs, k, g)
           Good == {k \in Nat : P(k)}
<1>1. 0 \in Good
  <2> DEFINE g == [i \in 1 .. 0 |-> IF i = 1 THEN seqs[i] ELSE <<>>]
  <2>1. 1 .. 0 = {}
    OBVIOUS
  <2>2. g \in [1 .. 0 -> Seq(T)] /\ FlattensTo(seqs, 0, g)
    BY <2>1 DEF FlattensTo
  <2> QED BY <2>2
<1>2. ASSUME NEW k \in Good PROVE k + 1 \in Good
  <2>1. k \in Nat /\ P(k)
    OBVIOUS
  <2> SUFFICES ASSUME k + 1 <= n
               PROVE  \E g \in [1 .. k + 1 -> Seq(T)] : FlattensTo(seqs, k + 1, g)
    BY <2>1
  <2>2. PICK g \in [1 .. k -> Seq(T)] : FlattensTo(seqs, k, g)
    BY <2>1
  <2> DEFINE h == [i \in 1 .. k + 1 |-> IF i = 1 THEN seqs[i] ELSE g[i - 1] \o seqs[i]]
  <2>3. \A i \in 1 .. k + 1 : seqs[i] \in Seq(T) /\ (i # 1 => i - 1 \in 1 .. k /\ g[i - 1] \in Seq(T))
    BY <2>1
  <2>4. ASSUME NEW i \in 1 .. k + 1 PROVE h[i] \in Seq(T)
    <3>1. CASE i = 1
      BY <2>3, <3>1
    <3>2. CASE i # 1
      <4>1. g[i - 1] \in Seq(T) /\ seqs[i] \in Seq(T)
        BY <2>3, <3>2
      <4>2. g[i - 1] \o seqs[i] \in Seq(T)
        BY <4>1, ConcatProperties
      <4> QED BY <3>2, <4>2
    <3> QED BY <3>1, <3>2
  <2>5. h \in [1 .. k + 1 -> Seq(T)]
    BY <2>4
  <2>6. ASSUME NEW i \in 1 .. k PROVE h[i] = g[i]
    <3>1. i \in 1 .. k + 1
      BY <2>1
    <3> QED BY <2>2, <3>1 DEF FlattensTo
  <2>7. ASSUME NEW i \in 1 .. k + 1 PROVE h[i] = IF i = 1 THEN seqs[i] ELSE h[i - 1] \o seqs[i]
    <3>1. i # 1 => i - 1 \in 1 .. k
      BY <2>1
    <3> QED BY <2>6, <3>1
  <2> HIDE DEF h
  <2>8. FlattensTo(seqs, k + 1, h)
    BY <2>5, <2>7 DEF FlattensTo
  <2> QED BY <2>5, <2>8
<1>3. n \in Good
  <2>1. Good \in SUBSET Nat
    OBVIOUS
  <2> HIDE DEF Good
  <2> QED BY <1>1, <1>2, <2>1, NumberInduction
<1> QED BY <1>3

LEMMA FlattenType ==
    ASSUME NEW T, NEW seqs \in Seq(Seq(T))
    PROVE  FlattenSeq(seqs) \in Seq(T)
<1> DEFINE n == Len(seqs)
<1>1. n \in Nat /\ seqs \in [1 .. n -> Seq(T)]
  BY LenProperties
<1>2. CASE n = 0
  <2>1. seqs = <<>>
    BY <1>2, EmptySeq
  <2>2. FlattenSeq(seqs) = seqs
    BY <1>2 DEF FlattenSeq
  <2>3. <<>> \in Seq(T)
    BY EmptySeq
  <2> HIDE DEF n
  <2> QED BY <2>1, <2>2, <2>3
<1>3. CASE n # 0
  <2>1. PICK g \in [1 .. n -> Seq(T)] : FlattensTo(seqs, n, g)
    <3> HIDE DEF n
    <3> QED BY <1>1, FlattenExists
  <2>2. PICK f : FlattensTo(seqs, n, f) /\ FlattenSeq(seqs) = f[n]
    BY <1>3, <2>1, FlattenIs
  <2> DEFINE Good == {k \in Nat : k \in 1 .. n => f[k] = g[k]}
  <2>3. 0 \in Good
    OBVIOUS
  <2>4. ASSUME NEW k \in Good PROVE k + 1 \in Good
    <3> SUFFICES ASSUME k + 1 \in 1 .. n PROVE f[k + 1] = g[k + 1]
      OBVIOUS
    <3>1. k \in Nat /\ (k + 1) - 1 = k /\ (k + 1 # 1 => k \in 1 .. n)
      BY <1>1
    <3>2. k + 1 # 1 => f[k] = g[k]
      BY <3>1
    <3>3. /\ f[k + 1] = IF k + 1 = 1 THEN seqs[k + 1] ELSE f[(k + 1) - 1] \o seqs[k + 1]
          /\ g[k + 1] = IF k + 1 = 1 THEN seqs[k + 1] ELSE g[(k + 1) - 1] \o seqs[k + 1]
      <4> HIDE DEF n, Good
      <4> QED BY <2>1, <2>2 DEF FlattensTo
    <3> QED BY <3>1, <3>2, <3>3
  <2>5. n \in Good
    <3>1. Good \in SUBSET Nat
      OBVIOUS
    <3> HIDE DEF Good, n
    <3> QED BY <1>1, <2>3, <2>4, <3>1, NumberInduction
  <2>6. n \in 1 .. n
    BY <1>1, <1>3
  <2>7. f[n] = g[n] /\ g[n] \in Seq(T)
    BY <1>1, <2>5, <2>6
  <2> QED BY <2>2, <2>7
<1> QED BY <1>2, <1>3

\* Nothing but empty sequences.
LEMMA FlattenNothing ==
    ASSUME NEW n \in Nat, NEW seqs \in [1 .. n -> {<<>>}]
    PROVE  FlattenSeq(seqs) = <<>>
<1>1. seqs \in Seq(Seq({}))
  <2>1. <<>> \in Seq({})
    OBVIOUS
  <2>2. seqs \in [1 .. n -> Seq({})]
    BY <2>1
  <2> QED BY <2>2, SeqDef
<1>2. FlattenSeq(seqs) \in Seq({})
  BY <1>1, FlattenType
<1> HIDE DEF FlattenSeq
<1>3. ASSUME NEW s \in Seq({}) PROVE s = <<>>
  <2>1. Len(s) \in Nat /\ s \in [1 .. Len(s) -> {}]
    BY LenProperties
  <2>2. Len(s) = 0
    BY <2>1
  <2> QED BY <2>2, EmptySeq
<1> QED BY <1>2, <1>3
-----------------------------------------------------------------------------
(***************************************************************************)
(* Types of what an entry is made of                                       *)
(***************************************************************************)
CordsOf(d) == [DOMAIN Dims[d] -> Nat]
BlockOf(d) == [start : CordsOf(d), count : CordsOf(d)]

\* The entries that stand for some of the first n writes.
EntryOf(n) == [did : Dids, rec : BOOLEAN, recnum : Nat, mul : BOOLEAN, enc : BOOLEAN, ref : BOOLEAN,
               body : Seq(Int), meta_off : Nat, foff : Nat, writes : Seq(1 .. n)]

\* The bytes of the first n writes.
MemoryCells == UNION {Range(Packed[q]) : q \in Requests}
ByteOf(n) == {<<w, c, b>> : w \in 1 .. n, c \in MemoryCells, b \in Nat}

LEMMA DimsDomain ==
    ASSUME NEW d \in Dids
    PROVE  /\ Len(Dims[d]) \in Nat /\ DOMAIN Dims[d] = 1 .. Len(Dims[d])
           /\ CordsOf(d) = [1 .. Len(Dims[d]) -> Nat]
           /\ d \in Record => Len(Dims[d]) # 0
           /\ Dims[d] \in CordsOf(d)
<1>1. Dims[d] \in Seq(Nat \ {0})
  BY DatasetAssumption
<1>2. /\ Len(Dims[d]) \in Nat /\ DOMAIN Dims[d] = 1 .. Len(Dims[d])
      /\ Dims[d] \in [1 .. Len(Dims[d]) -> Nat \ {0}]
  BY <1>1, LenProperties
<1>3. d \in Record => Dims[d] # <<>>
  BY DatasetAssumption
<1>4. d \in Record => Len(Dims[d]) # 0
  BY <1>1, <1>3, EmptySeq
<1>5. Dims[d] \in [1 .. Len(Dims[d]) -> Nat]
  BY <1>2
<1> QED BY <1>2, <1>4, <1>5 DEF CordsOf

LEMMA ConvertedTypes ==
    ASSUME NEW q \in Requests
    PROVE  /\ q.did \in Dids /\ Sels(q) \in Seq(BlockOf(q.did))
           /\ Selected(q.mem, q.mdims) \in Seq([start : Seq(Nat), count : Seq(Nat)])
  BY InputAssumption, BlocksAssumption DEF Sels, Converted, BlockOf, CordsOf

LEMMA RecordTypes ==
    ASSUME NEW d \in Dids, NEW sels
    PROVE  IsRecord(d, sels) \in BOOLEAN /\ (IsRecord(d, sels) => d \in Record)
  BY DEF IsRecord

\* Coordinates of an entry: without the first in a record entry.
Width(d, rec) == IF rec THEN Len(Dims[d]) - 1 ELSE Len(Dims[d])

LEMMA InnerTypes ==
    ASSUME NEW d \in Dids, NEW cord \in CordsOf(d), NEW rec \in BOOLEAN, rec => d \in Record
    PROVE  /\ Width(d, rec) \in Nat /\ Inner(cord, rec) \in [1 .. Width(d, rec) -> Nat]
           /\ Inner(cord, rec) \in Seq(Nat) /\ Len(Inner(cord, rec)) = Width(d, rec)
<1>1. cord \in Seq(Nat) /\ Len(cord) = Len(Dims[d]) /\ Len(Dims[d]) \in Nat
  <2>1. Len(Dims[d]) \in Nat /\ cord \in [1 .. Len(Dims[d]) -> Nat]
    BY DimsDomain
  <2> QED BY <2>1
<1>2. Inner(cord, rec) \in Seq(Nat) /\ Len(Inner(cord, rec)) = Width(d, rec) /\ Width(d, rec) \in Nat
  <2>1. CASE rec
    <3>1. Len(Dims[d]) # 0
      BY <2>1, DimsDomain
    <3>2. cord # <<>>
      BY <1>1, <3>1
    <3>3. Tail(cord) \in Seq(Nat) /\ Len(Tail(cord)) = Len(cord) - 1
      BY <1>1, <3>2, HeadTailProperties
    <3> QED BY <1>1, <2>1, <3>1, <3>3 DEF Inner, Width
  <2>2. CASE ~rec
    BY <1>1, <2>2 DEF Inner, Width
  <2> QED BY <2>1, <2>2
<1> QED BY <1>2, LenProperties

LEMMA EncodeType ==
    ASSUME NEW w \in Nat, NEW steps \in [1 .. w -> Nat], NEW cord \in [1 .. w -> Nat]
    PROVE  SelEncode(steps, cord) \in Nat
<1> DEFINE fun == [i \in 1 .. w |-> cord[i] * steps[i]]
<1>1. \A a, b \in Nat : a * b \in Nat
  OBVIOUS
<1>2. fun \in [1 .. w -> Nat]
  BY <1>1
<1>3. IsFiniteSet(1 .. w)
  BY FS_Interval
<1>4. SelEncode(steps, cord) = SumFunction(fun)
  BY DEF SelEncode
<1> HIDE DEF fun
<1>5. SumFunction(fun) \in Nat
  BY <1>2, <1>3, SumType
<1> QED BY <1>4, <1>5

LEMMA FlattenMap ==
    ASSUME NEW S, NEW s \in Seq(S), NEW T, NEW seqs, DOMAIN seqs = DOMAIN s,
           seqs = [k \in DOMAIN s |-> seqs[k]],
           \A k \in DOMAIN s : seqs[k] \in Seq(T)
    PROVE  FlattenSeq(seqs) \in Seq(T)
<1>1. Len(s) \in Nat /\ DOMAIN s = 1 .. Len(s)
  BY LenProperties
<1>2. seqs \in [1 .. Len(s) -> Seq(T)]
  BY <1>1
<1>3. seqs \in Seq(Seq(T))
  BY <1>1, <1>2, SeqDef
<1> QED BY <1>3, FlattenType

\* The steps of every dataset have as many components as its dims.
Stepped == dsteps \in [Dids -> Seq(Nat)] /\ \A d \in Dids : dsteps[d] \in CordsOf(d)

LEMMA WordTypes ==
    ASSUME Stepped, NEW d \in Dids, NEW rec \in BOOLEAN, rec => d \in Record,
           NEW sels, NEW c \in CordsOf(d)
    PROVE  (IF IsEncoded(d, rec, sels) THEN <<SelEncode(Inner(dsteps[d], rec), Inner(c, rec))>>
            ELSE Inner(c, rec)) \in Seq(Int)
<1>1. dsteps[d] \in CordsOf(d)
  BY DEF Stepped
<1>2. /\ Width(d, rec) \in Nat /\ Inner(dsteps[d], rec) \in [1 .. Width(d, rec) -> Nat]
      /\ Inner(c, rec) \in [1 .. Width(d, rec) -> Nat] /\ Inner(c, rec) \in Seq(Nat)
  BY <1>1, InnerTypes
<1>3. SelEncode(Inner(dsteps[d], rec), Inner(c, rec)) \in Nat
  BY <1>2, EncodeType
<1>4. <<SelEncode(Inner(dsteps[d], rec), Inner(c, rec))>> \in Seq(Int)
  <2>1. SelEncode(Inner(dsteps[d], rec), Inner(c, rec)) \in Int
    BY <1>3
  <2> QED BY <2>1
<1>5. Inner(c, rec) \in Seq(Int)
  BY <1>2, SeqMonotonic
<1> QED BY <1>4, <1>5

LEMMA BodyType ==
    ASSUME Stepped, NEW d \in Dids, NEW rec \in BOOLEAN, rec => d \in Record,
           NEW sels \in Seq(BlockOf(d))
    PROVE  Body(d, rec, sels) \in Seq(Int)
<1> DEFINE steps == Inner(dsteps[d], rec)
           Word(c) == IF IsEncoded(d, rec, sels) THEN <<SelEncode(steps, Inner(c, rec))>>
                      ELSE Inner(c, rec)
           first == IF Len(sels) > 1 THEN <<Len(sels)>> ELSE <<>>
           second == IF IsEncoded(d, rec, sels) THEN Front(steps) ELSE <<>>
           starts == [k \in DOMAIN sels |-> Word(sels[k].start)]
           counts == [k \in DOMAIN sels |-> Word(sels[k].count)]
<1>1. Len(sels) \in Nat /\ \A k \in DOMAIN sels : sels[k].start \in CordsOf(d) /\ sels[k].count \in CordsOf(d)
  <2>1. Len(sels) \in Nat /\ \A k \in DOMAIN sels : sels[k] \in BlockOf(d)
    BY LenProperties
  <2> QED BY <2>1 DEF BlockOf
<1>2. first \in Seq(Int)
  BY <1>1
<1>3. second \in Seq(Int)
  <2>1. dsteps[d] \in CordsOf(d)
    BY DEF Stepped
  <2>2. /\ Width(d, rec) \in Nat /\ steps \in [1 .. Width(d, rec) -> Nat] /\ steps \in Seq(Nat)
        /\ Len(steps) = Width(d, rec)
    BY <2>1, InnerTypes
  <2> HIDE DEF steps
  <2>3. \A i \in 1 .. Len(steps) - 1 : steps[i] \in Int
    BY <2>2
  <2>4. Len(steps) - 1 \in Int /\ 1 \in Int
    BY <2>2
  <2>5. Front(steps) \in Seq(Int)
    BY <2>3, <2>4, SubSeqProperties DEF Front
  <2>6. <<>> \in Seq(Int)
    BY EmptySeq
  <2> QED BY <2>5, <2>6
<1>4. FlattenSeq(starts) \in Seq(Int)
  <2>1. ASSUME NEW k \in DOMAIN sels PROVE starts[k] \in Seq(Int)
    BY <1>1, WordTypes
  <2>2. DOMAIN starts = DOMAIN sels /\ starts = [k \in DOMAIN sels |-> starts[k]]
    OBVIOUS
  <2> HIDE DEF starts
  <2> QED BY <2>1, <2>2, FlattenMap
<1>5. FlattenSeq(counts) \in Seq(Int)
  <2>1. ASSUME NEW k \in DOMAIN sels PROVE counts[k] \in Seq(Int)
    BY <1>1, WordTypes
  <2>2. DOMAIN counts = DOMAIN sels /\ counts = [k \in DOMAIN sels |-> counts[k]]
    OBVIOUS
  <2> HIDE DEF counts
  <2> QED BY <2>1, <2>2, FlattenMap
<1>6. Body(d, rec, sels) = first \o second \o FlattenSeq(starts) \o FlattenSeq(counts)
  BY DEF Body
<1> HIDE DEF first, second, starts, counts
<1>7. first \o second \in Seq(Int)
  BY <1>2, <1>3, ConcatProperties
<1>8. first \o second \o FlattenSeq(starts) \in Seq(Int)
  BY <1>4, <1>7, ConcatProperties
<1>9. first \o second \o FlattenSeq(starts) \o FlattenSeq(counts) \in Seq(Int)
  BY <1>5, <1>8, ConcatProperties
<1> QED BY <1>6, <1>9

LEMMA SizeType ==
    ASSUME NEW n, NEW e \in EntryOf(n)
    PROVE  MetaSize(e) \in Nat
<1>1. Len(e.body) \in Nat
  BY DEF EntryOf
<1> DEFINE rn == IF e.rec THEN 8 ELSE 0
           nb == IF e.mul /\ ~e.ref THEN 4 ELSE 0
<1>2. rn \in Nat /\ nb \in 0 .. 4
  OBVIOUS
<1>3. MetaSize(e) = 28 + rn + (8 * Len(e.body) - nb)
  BY DEF MetaSize, SelSize, HeaderSize
<1>4. 8 * Len(e.body) \in Nat
  BY <1>1
<1> DEFINE words == 8 * Len(e.body)
<1> HIDE DEF rn, nb, words
<1>5. words \in Nat /\ MetaSize(e) = 28 + rn + (words - nb)
  BY <1>3, <1>4 DEF words
<1>6. 28 + rn + (words - nb) \in Nat
  BY <1>2, <1>5
<1> QED BY <1>5, <1>6
-----------------------------------------------------------------------------
(***************************************************************************)
(* Types of entries and of their data                                      *)
(***************************************************************************)
LEMMA MoreWrites ==
    ASSUME NEW n \in Nat
    PROVE  /\ EntryOf(n) \subseteq EntryOf(n + 1) /\ ByteOf(n) \subseteq ByteOf(n + 1)
           /\ EntryOf(n) \subseteq Entry
<1>1. 1 .. n \subseteq 1 .. n + 1 /\ 1 .. n \subseteq Nat
  OBVIOUS
<1>2. ASSUME NEW s \in Seq(1 .. n) PROVE s \in Seq(1 .. n + 1) /\ s \in Seq(Nat)
  BY <1>1, SeqMonotonic
<1>3. EntryOf(n) \subseteq EntryOf(n + 1)
  BY <1>2 DEF EntryOf
<1>4. EntryOf(n) \subseteq Entry
  BY <1>2 DEF EntryOf, Entry
<1>5. ByteOf(n) \subseteq ByteOf(n + 1)
  BY <1>1 DEF ByteOf
<1> QED BY <1>3, <1>4, <1>5

LEMMA NewEntryType ==
    ASSUME Stepped, mdsize \in Nat, Len(hist) \in Nat, NEW d \in Dids,
           NEW sels \in Seq(BlockOf(d)), sels # <<>>
    PROVE  /\ NewEntry(d, sels) \in EntryOf(Len(hist) + 1)
           /\ ~NewEntry(d, sels).ref /\ NewEntry(d, sels).meta_off = mdsize
           /\ NewEntry(d, sels).writes # <<>> /\ NewEntry(d, sels).did = d
<1> DEFINE rec == IsRecord(d, sels)
           num == IF rec THEN sels[1].start[1] ELSE 0
           w == <<Len(hist) + 1>>
           e == NewEntry(d, sels)
<1>1. rec \in BOOLEAN /\ (rec => d \in Record)
  BY RecordTypes
<1>2. Body(d, rec, sels) \in Seq(Int)
  <2> HIDE DEF rec
  <2> QED BY <1>1, BodyType
<1>3. num \in Nat
  <2>1. CASE rec
    <3>1. Len(sels) \in Nat \ {0} /\ sels[1] \in BlockOf(d)
      BY EmptySeq, LenProperties
    <3>2. sels[1].start \in CordsOf(d)
      BY <3>1 DEF BlockOf
    <3>3. CordsOf(d) = [1 .. Len(Dims[d]) -> Nat] /\ 1 \in 1 .. Len(Dims[d])
      BY <1>1, <2>1, DimsDomain
    <3>4. sels[1].start[1] \in Nat
      BY <3>2, <3>3
    <3> QED BY <2>1, <3>4
  <2>2. CASE ~rec
    BY <2>2
  <2> QED BY <1>1, <2>1, <2>2
<1>4. IsEncoded(d, rec, sels) \in BOOLEAN
  BY ChoiceAssumption DEF IsEncoded
<1>5. (Len(sels) > 1) \in BOOLEAN
  OBVIOUS
<1>6. w \in Seq(1 .. Len(hist) + 1) /\ w # <<>>
  OBVIOUS
<1>7. e = [did |-> d, rec |-> rec, recnum |-> num, mul |-> Len(sels) > 1,
           enc |-> IsEncoded(d, rec, sels), ref |-> FALSE, body |-> Body(d, rec, sels),
           meta_off |-> mdsize, foff |-> 0, writes |-> w]
  BY DEF NewEntry
<1> HIDE DEF rec, num, w, e
<1>8. e \in EntryOf(Len(hist) + 1) /\ ~e.ref /\ e.meta_off = mdsize /\ e.writes # <<>> /\ e.did = d
  BY <1>1, <1>2, <1>3, <1>4, <1>6, <1>7 DEF EntryOf
<1> QED BY <1>8 DEF e

LEMMA RefEntryType ==
    ASSUME NEW n, NEW m, NEW e \in EntryOf(n), NEW t \in EntryOf(m), mdsize \in Nat
    PROVE  /\ RefEntry(e, t) \in EntryOf(n) /\ RefEntry(e, t).ref
           /\ RefEntry(e, t).body = <<t.meta_off - mdsize>>
           /\ RefEntry(e, t).meta_off = e.meta_off /\ RefEntry(e, t).writes = e.writes
           /\ RefEntry(e, t).did = e.did
<1> DEFINE keeps == e.rec /\ ~(t.rec /\ t.recnum = e.recnum)
           num == IF keeps THEN e.recnum ELSE 0
           b == <<t.meta_off - mdsize>>
           r == RefEntry(e, t)
<1>1. keeps \in BOOLEAN /\ num \in Nat
  BY DEF EntryOf
<1>2. b \in Seq(Int)
  <2>1. t.meta_off - mdsize \in Int
    BY DEF EntryOf
  <2> QED BY <2>1
<1>3. r = [e EXCEPT !.ref = TRUE, !.rec = keeps, !.recnum = num, !.body = b]
  BY DEF RefEntry, EntryOf
<1> HIDE DEF keeps, num, b, r
<1>4. /\ r \in EntryOf(n) /\ r.ref /\ r.body = b /\ r.meta_off = e.meta_off /\ r.writes = e.writes
      /\ r.did = e.did
  BY <1>1, <1>2, <1>3 DEF EntryOf
<1> QED BY <1>4 DEF r, b

LEMMA SharedType ==
    ASSUME NEW n, NEW m, hash \in SUBSET EntryOf(m), NEW e \in EntryOf(n), mdsize \in Nat
    PROVE  SharedEntry(e) \in EntryOf(n)
<1>1. Equal(e) \subseteq hash
  BY DEF Equal
<1>2. CASE Sharable(e) /\ Equal(e) # {}
  <2>1. (CHOOSE t \in Equal(e) : TRUE) \in EntryOf(m)
    BY <1>1, <1>2
  <2>2. SharedEntry(e) = RefEntry(e, CHOOSE t \in Equal(e) : TRUE)
    BY <1>2 DEF SharedEntry
  <2>3. RefEntry(e, CHOOSE t \in Equal(e) : TRUE) \in EntryOf(n)
    BY <2>1, RefEntryType
  <2> QED BY <2>2, <2>3
<1>3. CASE ~(Sharable(e) /\ Equal(e) # {})
  BY <1>3 DEF SharedEntry
<1> QED BY <1>2, <1>3

\* A merged entry has a word at least, the number of its blocks, and is no
\* reference.
MergedOf(n) == {m \in EntryOf(n) : m.body # <<>> /\ ~m.ref}

LEMMA EmptyMergedType ==
    ASSUME NEW d \in Dids, NEW n \in Nat
    PROVE  EmptyMerged(d) \in MergedOf(n)
<1> DEFINE enc == Encode /\ Len(Dims[d]) > 1
<1>1. enc \in BOOLEAN
  BY ChoiceAssumption
<1>2. <<0>> \in Seq(Int) /\ <<0>> # <<>> /\ <<>> \in Seq(1 .. n)
  OBVIOUS
<1>3. EmptyMerged(d) = [did |-> d, rec |-> FALSE, recnum |-> 0, mul |-> TRUE, enc |-> enc,
                        ref |-> FALSE, body |-> <<0>>, meta_off |-> 0, foff |-> 0, writes |-> <<>>]
  BY DEF EmptyMerged
<1> HIDE DEF enc
<1> QED BY <1>1, <1>2, <1>3 DEF MergedOf, EntryOf

LEMMA AppendMergedType ==
    ASSUME Len(hist) \in Nat, NEW d \in Dids, NEW sels \in Seq(BlockOf(d)),
           NEW m \in MergedOf(Len(hist))
    PROVE  AppendMerged(m, sels) \in MergedOf(Len(hist) + 1)
<1> DEFINE starts == [k \in DOMAIN sels |-> sels[k].start]
           counts == [k \in DOMAIN sels |-> sels[k].count]
           first == <<m.body[1] + Len(sels)>>
           b == first \o Tail(m.body) \o FlattenSeq(starts) \o FlattenSeq(counts)
           ws == Append(m.writes, Len(hist) + 1)
<1>1. Len(sels) \in Nat /\ \A k \in DOMAIN sels : sels[k] \in BlockOf(d)
  BY LenProperties
<1>2. CordsOf(d) \subseteq Seq(Int)
  <2>1. Len(Dims[d]) \in Nat /\ CordsOf(d) = [1 .. Len(Dims[d]) -> Nat]
    BY DimsDomain
  <2>2. CordsOf(d) \subseteq [1 .. Len(Dims[d]) -> Int]
    BY <2>1
  <2> QED BY <2>1, <2>2, SeqDef
<1>3. \A k \in DOMAIN sels : sels[k].start \in Seq(Int) /\ sels[k].count \in Seq(Int)
  BY <1>1, <1>2 DEF BlockOf
<1>4. FlattenSeq(starts) \in Seq(Int)
  <2>1. DOMAIN starts = DOMAIN sels /\ starts = [k \in DOMAIN sels |-> starts[k]]
    OBVIOUS
  <2>2. \A k \in DOMAIN sels : starts[k] \in Seq(Int)
    BY <1>3
  <2> HIDE DEF starts
  <2> QED BY <2>1, <2>2, FlattenMap
<1>5. FlattenSeq(counts) \in Seq(Int)
  <2>1. DOMAIN counts = DOMAIN sels /\ counts = [k \in DOMAIN sels |-> counts[k]]
    OBVIOUS
  <2>2. \A k \in DOMAIN sels : counts[k] \in Seq(Int)
    BY <1>3
  <2> HIDE DEF counts
  <2> QED BY <2>1, <2>2, FlattenMap
<1>6. m.body \in Seq(Int) /\ m.body # <<>> /\ m.writes \in Seq(1 .. Len(hist)) /\ m \in EntryOf(Len(hist))
  BY DEF MergedOf, EntryOf
<1>7. first \in Seq(Int) /\ Len(first) = 1 /\ Tail(m.body) \in Seq(Int)
  <2>1. m.body[1] \in Int
    <3>1. Len(m.body) \in Nat \ {0}
      BY <1>6, EmptySeq
    <3> QED BY <1>6, <3>1
  <2>2. m.body[1] + Len(sels) \in Int
    BY <1>1, <2>1
  <2>3. Tail(m.body) \in Seq(Int)
    BY <1>6, HeadTailProperties
  <2> QED BY <2>2, <2>3
<1> HIDE DEF starts, counts, first
<1>8. first \o Tail(m.body) \in Seq(Int) /\ Len(first \o Tail(m.body)) # 0
  <2>1. Len(first \o Tail(m.body)) = Len(first) + Len(Tail(m.body)) /\ Len(Tail(m.body)) \in Nat
    BY <1>7, ConcatProperties, LenProperties
  <2> QED BY <1>7, <2>1, ConcatProperties
<1>9. /\ first \o Tail(m.body) \o FlattenSeq(starts) \in Seq(Int)
      /\ Len(first \o Tail(m.body) \o FlattenSeq(starts)) # 0
  <2>1. /\ Len(first \o Tail(m.body) \o FlattenSeq(starts))
             = Len(first \o Tail(m.body)) + Len(FlattenSeq(starts))
        /\ Len(FlattenSeq(starts)) \in Nat /\ Len(first \o Tail(m.body)) \in Nat
    BY <1>4, <1>8, ConcatProperties, LenProperties
  <2> QED BY <1>4, <1>8, <2>1, ConcatProperties
<1>10. b \in Seq(Int) /\ Len(b) # 0
  <2> DEFINE a == first \o Tail(m.body) \o FlattenSeq(starts)
             z == FlattenSeq(counts)
  <2>1. a \in Seq(Int) /\ z \in Seq(Int) /\ Len(a) # 0 /\ b = a \o z
    BY <1>5, <1>9
  <2> HIDE DEF a, z, b
  <2>2. b \in Seq(Int) /\ Len(b) = Len(a) + Len(z) /\ Len(a) \in Nat /\ Len(z) \in Nat
    BY <2>1, ConcatProperties, LenProperties
  <2> QED BY <2>1, <2>2
<1>11. ws \in Seq(1 .. Len(hist) + 1)
  <2>1. m.writes \in Seq(1 .. Len(hist) + 1)
    BY <1>6, SeqMonotonic
  <2>2. Len(hist) + 1 \in 1 .. Len(hist) + 1
    OBVIOUS
  <2> QED BY <2>1, <2>2, AppendProperties
<1>12. AppendMerged(m, sels) = [m EXCEPT !.body = b, !.writes = ws]
  BY <1>6 DEF AppendMerged, EntryOf, starts, counts, first
<1>13. m \in EntryOf(Len(hist) + 1)
  BY <1>6, MoreWrites
<1> HIDE DEF b, ws
<1>14. [m EXCEPT !.body = b, !.writes = ws] \in EntryOf(Len(hist) + 1)
  BY <1>10, <1>11, <1>13 DEF EntryOf
<1>15. [m EXCEPT !.body = b, !.writes = ws].body # <<>> /\ ~[m EXCEPT !.body = b, !.writes = ws].ref
  <2>1. /\ [m EXCEPT !.body = b, !.writes = ws].body = b
        /\ [m EXCEPT !.body = b, !.writes = ws].ref = m.ref
    BY <1>13 DEF EntryOf
  <2>2. ~m.ref
    BY DEF MergedOf
  <2> QED BY <1>10, <2>1, <2>2
<1> QED BY <1>12, <1>14, <1>15 DEF MergedOf

\* The bytes of a write, and of an entry.
LEMMA PackedType ==
    ASSUME NEW q \in Requests
    PROVE  Packed[q] \in Seq(MemoryCells)
<1> DEFINE blocks == Selected(q.mem, q.mdims)
           cells == [k \in DOMAIN blocks |-> Cells(blocks[k])]
           U == UNION {Range(cells[k]) : k \in DOMAIN blocks}
<1>1. blocks \in Seq([start : Seq(Nat), count : Seq(Nat)])
  BY ConvertedTypes
<1> HIDE DEF blocks
<1>2. ASSUME NEW k \in DOMAIN blocks PROVE cells[k] \in Seq(U)
  <2>1. blocks[k].count \in Seq(Nat)
    <3>1. blocks[k] \in [start : Seq(Nat), count : Seq(Nat)]
      <4>1. DOMAIN blocks = 1 .. Len(blocks) /\ blocks \in [1 .. Len(blocks) -> [start : Seq(Nat), count : Seq(Nat)]]
        BY <1>1, LenProperties
      <4> HIDE DEF cells, U
      <4> QED BY <4>1
    <3> QED BY <3>1
  <2> DEFINE c == blocks[k].count
  <2>2. NumElems(c) \in Nat
    <3>1. Len(c) \in Nat /\ c \in [1 .. Len(c) -> Nat]
      BY <2>1, LenProperties
    <3>2. IsFiniteSet(1 .. Len(c))
      BY <3>1, FS_Interval
    <3> HIDE DEF c
    <3> QED BY <3>1, <3>2, ProductType
  <2>3. cells[k] = [n \in 1 .. NumElems(c) |-> cells[k][n]]
    BY DEF Cells
  <2>4. \A n \in 1 .. NumElems(c) : cells[k][n] \in U
    <3> DEFINE s == cells[k]
    <3>1. DOMAIN s = 1 .. NumElems(c)
      BY <2>3
    <3>2. Range(s) \subseteq U
      OBVIOUS
    <3> HIDE DEF U, cells, s, c
    <3>3. \A n \in 1 .. NumElems(c) : s[n] \in U
      BY <3>1, <3>2 DEF Range
    <3> QED BY <3>3 DEF s
  <2> HIDE DEF U, cells, c
  <2>5. cells[k] \in [1 .. NumElems(c) -> U]
    BY <2>3, <2>4
  <2> QED BY <2>2, <2>5, SeqDef
<1>3. DOMAIN cells = DOMAIN blocks /\ cells = [k \in DOMAIN blocks |-> cells[k]]
  OBVIOUS
<1>4. Packed[q] = FlattenSeq(cells)
  BY DEF Packed, CellsOf, blocks
<1> HIDE DEF cells, U
<1>5. Packed[q] \in Seq(U)
  BY <1>1, <1>2, <1>3, <1>4, FlattenMap
<1>6. Len(Packed[q]) \in Nat /\ DOMAIN Packed[q] = 1 .. Len(Packed[q])
      /\ Packed[q] \in [1 .. Len(Packed[q]) -> U]
  BY <1>5, LenProperties
<1>7. \A n \in 1 .. Len(Packed[q]) : Packed[q][n] \in MemoryCells
  BY <1>6 DEF MemoryCells, Range
<1>8. Packed[q] \in [1 .. Len(Packed[q]) -> MemoryCells]
  BY <1>6, <1>7
<1> QED BY <1>6, <1>8, SeqDef

LEMMA BytesType ==
    ASSUME hist \in Seq(Requests), NEW w \in 1 .. Len(hist)
    PROVE  Bytes(w) \in Seq(ByteOf(Len(hist)))
<1> DEFINE p == Packed[hist[w]]
           size == ESize[hist[w].did]
           at(n) == [byte \in 1 .. size |-> <<w, p[n], byte - 1>>]
           all == [n \in DOMAIN p |-> at(n)]
<1>1. hist[w] \in Requests
  BY LenProperties
<1>2. p \in Seq(MemoryCells)
  BY <1>1, PackedType
<1>3. size \in Nat \ {0}
  <2>1. hist[w].did \in Dids
    BY <1>1, ConvertedTypes
  <2> QED BY <2>1, DatasetAssumption
<1>4. Bytes(w) = FlattenSeq(all)
  BY DEF Bytes
<1> HIDE DEF p, size
<1>5. ASSUME NEW n \in DOMAIN p PROVE all[n] \in Seq(ByteOf(Len(hist)))
  <2>1. p[n] \in MemoryCells
    BY <1>2, LenProperties
  <2>2. ASSUME NEW byte \in 1 .. size PROVE <<w, p[n], byte - 1>> \in ByteOf(Len(hist))
    <3>1. byte - 1 \in Nat
      BY <1>3
    <3> QED BY <2>1, <3>1 DEF ByteOf
  <2>3. at(n) \in [1 .. size -> ByteOf(Len(hist))]
    BY <2>2
  <2> QED BY <1>3, <2>3, SeqDef
<1>6. DOMAIN all = DOMAIN p /\ all = [n \in DOMAIN p |-> all[n]]
  OBVIOUS
<1> HIDE DEF all
<1> QED BY <1>2, <1>4, <1>5, <1>6, FlattenMap

LEMMA EntryBytesType ==
    ASSUME hist \in Seq(Requests), NEW e \in EntryOf(Len(hist))
    PROVE  EntryBytes(e) \in Seq(ByteOf(Len(hist)))
<1> DEFINE all == [k \in DOMAIN e.writes |-> Bytes(e.writes[k])]
<1>1. e.writes \in Seq(1 .. Len(hist))
  BY DEF EntryOf
<1>2. ASSUME NEW k \in DOMAIN e.writes PROVE all[k] \in Seq(ByteOf(Len(hist)))
  <2>1. e.writes[k] \in 1 .. Len(hist)
    BY <1>1, LenProperties
  <2> QED BY <2>1, BytesType
<1>3. DOMAIN all = DOMAIN e.writes /\ all = [k \in DOMAIN e.writes |-> all[k]]
  OBVIOUS
<1>4. EntryBytes(e) = FlattenSeq(all)
  BY DEF EntryBytes
<1> HIDE DEF all
<1> QED BY <1>1, <1>2, <1>3, <1>4, FlattenMap
-----------------------------------------------------------------------------
(***************************************************************************)
(* The variables hold values of their types in every state                 *)
(***************************************************************************)
TypeInv ==
    /\ hist \in Seq(Requests)
    /\ wreqs \in Seq(EntryOf(Len(hist))) /\ hash \in SUBSET EntryOf(Len(hist))
    /\ mdsize \in Nat /\ nflushed \in 0 .. Len(wreqs)
    /\ extent \in [Dids -> Seq(Nat)] /\ \A d \in Dids : extent[d] \in CordsOf(d)
    /\ Stepped
    /\ mreqs \in [Dids -> Seq(MergedOf(Len(hist)))] /\ \A d \in Dids : Len(mreqs[d]) <= 1
    /\ sections \in Seq(Seq(EntryOf(Len(hist))))
    /\ data \in Seq(ByteOf(Len(hist)))

LEMMA CoordsAreSeqs ==
    ASSUME NEW d \in Dids
    PROVE  CordsOf(d) \subseteq Seq(Nat)
<1>1. Len(Dims[d]) \in Nat /\ CordsOf(d) = [1 .. Len(Dims[d]) -> Nat]
  BY DimsDomain
<1> QED BY <1>1, SeqDef

LEMMA StepsType ==
    ASSUME NEW d \in Dids, NEW dims \in CordsOf(d)
    PROVE  DSteps(dims) \in CordsOf(d)
<1> DEFINE w == Len(Dims[d])
<1>1. w \in Nat /\ CordsOf(d) = [1 .. w -> Nat]
  BY DimsDomain
<1>2. dims \in [1 .. w -> Nat] /\ dims \in Seq(Nat) /\ Len(dims) = w /\ DOMAIN dims = 1 .. w
  BY <1>1
<1>3. ASSUME NEW i \in 1 .. w PROVE NumElems(SubSeq(dims, i + 1, Len(dims))) \in Nat
  <2> DEFINE rest == SubSeq(dims, i + 1, Len(dims))
  <2>1. \A j \in i + 1 .. Len(dims) : dims[j] \in Nat
    BY <1>1, <1>2
  <2>2. i + 1 \in Int /\ Len(dims) \in Int
    BY <1>1, <1>2
  <2>3. rest \in Seq(Nat)
    BY <2>1, <2>2, SubSeqProperties
  <2> HIDE DEF rest
  <2>4. Len(rest) \in Nat /\ rest \in [1 .. Len(rest) -> Nat]
    BY <2>3, LenProperties
  <2>5. IsFiniteSet(1 .. Len(rest))
    BY <2>4, FS_Interval
  <2>6. NumElems(rest) \in Nat
    BY <2>4, <2>5, ProductType
  <2> QED BY <2>6 DEF rest
<1>4. DSteps(dims) = [i \in 1 .. w |-> NumElems(SubSeq(dims, i + 1, Len(dims)))]
  BY <1>2 DEF DSteps
<1> HIDE DEF w
<1>5. DSteps(dims) \in [1 .. w -> Nat]
  BY <1>3, <1>4
<1> QED BY <1>1, <1>5

LEMMA TypesImply == TypeInv => TypeOK
<1> SUFFICES ASSUME TypeInv PROVE TypeOK
  OBVIOUS
<1> DEFINE n == Len(hist)
<1>1. n \in Nat /\ DOMAIN hist = 1 .. n
  BY LenProperties DEF TypeInv
<1>2. EntryOf(n) \subseteq Entry /\ MergedOf(n) \subseteq Entry
  BY <1>1, MoreWrites DEF MergedOf
<1>3. wreqs \in Seq(Entry) /\ hash \in SUBSET Entry
  BY <1>2, SeqMonotonic DEF TypeInv
<1>4. mreqs \in [Dids -> Seq(Entry)]
  <2>1. \A s \in Seq(MergedOf(n)) : s \in Seq(Entry)
    BY <1>2, SeqMonotonic
  <2>2. mreqs \in [Dids -> Seq(MergedOf(n))]
    BY DEF TypeInv
  <2> QED BY <2>1, <2>2
<1>5. sections \in Seq(Seq(Entry))
  <2>1. Seq(EntryOf(n)) \subseteq Seq(Entry)
    BY <1>2, SeqMonotonic
  <2>2. sections \in Seq(Seq(EntryOf(n)))
    BY DEF TypeInv
  <2> QED BY <2>1, <2>2, SeqMonotonic
<1>6. \A i \in DOMAIN data : data[i][1] \in DOMAIN hist
  <2> SUFFICES ASSUME NEW i \in DOMAIN data PROVE data[i][1] \in DOMAIN hist
    OBVIOUS
  <2>1. data[i] \in ByteOf(n)
    BY LenProperties DEF TypeInv
  <2> QED BY <1>1, <2>1 DEF ByteOf
<1> QED BY <1>3, <1>4, <1>5, <1>6 DEF TypeInv, TypeOK, Stepped

LEMMA InitTypes == Init => TypeInv
<1> SUFFICES ASSUME Init PROVE TypeInv
  OBVIOUS
<1>1. /\ hist = <<>> /\ wreqs = <<>> /\ hash = {} /\ mdsize = 0 /\ nflushed = 0
      /\ mreqs = [d \in Dids |-> <<>>]
      /\ extent = Dims /\ dsteps = [d \in Dids |-> DSteps(Dims[d])]
      /\ data = <<>> /\ sections = <<>>
  BY DEF Init
<1>2. /\ hist \in Seq(Requests) /\ wreqs \in Seq(EntryOf(Len(hist)))
      /\ sections \in Seq(Seq(EntryOf(Len(hist)))) /\ data \in Seq(ByteOf(Len(hist)))
      /\ nflushed \in 0 .. Len(wreqs)
  BY <1>1
<1>3. \A d \in Dids : Dims[d] \in CordsOf(d) /\ CordsOf(d) \subseteq Seq(Nat)
  BY DimsDomain, CoordsAreSeqs
<1>4. extent \in [Dids -> Seq(Nat)] /\ \A d \in Dids : extent[d] \in CordsOf(d)
  <2>1. DOMAIN Dims = Dids /\ Dims = [d \in Dids |-> Dims[d]]
    BY DatasetAssumption
  <2> QED BY <1>1, <1>3, <2>1
<1>5. \A d \in Dids : DSteps(Dims[d]) \in CordsOf(d)
  BY <1>3, StepsType
<1>6. Stepped
  BY <1>1, <1>3, <1>5 DEF Stepped
<1>7. mreqs \in [Dids -> Seq(MergedOf(Len(hist)))] /\ \A d \in Dids : Len(mreqs[d]) <= 1
  <2>1. <<>> \in Seq(MergedOf(Len(hist))) /\ Len(<<>>) = 0
    BY EmptySeq
  <2> QED BY <1>1, <2>1
<1> QED BY <1>1, <1>2, <1>4, <1>6, <1>7 DEF TypeInv

\* More writes do no harm to what is there.
LEMMA KeptTypes ==
    ASSUME NEW n \in Nat
    PROVE  /\ \A s : s \in Seq(EntryOf(n)) => s \in Seq(EntryOf(n + 1))
           /\ \A s : s \in Seq(MergedOf(n)) => s \in Seq(MergedOf(n + 1))
           /\ \A s : s \in Seq(Seq(EntryOf(n))) => s \in Seq(Seq(EntryOf(n + 1)))
           /\ \A s : s \in Seq(ByteOf(n)) => s \in Seq(ByteOf(n + 1))
           /\ \A s : s \in SUBSET EntryOf(n) => s \in SUBSET EntryOf(n + 1)
<1>1. /\ EntryOf(n) \subseteq EntryOf(n + 1) /\ ByteOf(n) \subseteq ByteOf(n + 1)
      /\ MergedOf(n) \subseteq MergedOf(n + 1)
  BY MoreWrites DEF MergedOf
<1>2. Seq(EntryOf(n)) \subseteq Seq(EntryOf(n + 1))
  BY <1>1, SeqMonotonic
<1>3. Seq(MergedOf(n)) \subseteq Seq(MergedOf(n + 1))
  BY <1>1, SeqMonotonic
<1>4. Seq(ByteOf(n)) \subseteq Seq(ByteOf(n + 1))
  BY <1>1, SeqMonotonic
<1>5. Seq(Seq(EntryOf(n))) \subseteq Seq(Seq(EntryOf(n + 1)))
  BY <1>2, SeqMonotonic
<1> QED BY <1>1, <1>2, <1>3, <1>4, <1>5

LEMMA WriteTypes ==
    ASSUME TypeInv, NEW q \in Requests, Write(q)
    PROVE  TypeInv'
<1> DEFINE n == Len(hist)
           d == q.did
           sels == Sels(q)
           e == NewEntry(d, sels)
<1>1. n \in Nat /\ hist' = Append(hist, q) /\ sels # <<>>
  BY LenProperties DEF TypeInv, Write, MayWrite
<1>2. hist' \in Seq(Requests) /\ Len(hist') = n + 1
  BY <1>1, AppendProperties DEF TypeInv
<1>3. d \in Dids /\ sels \in Seq(BlockOf(d))
  BY ConvertedTypes
<1>4. e \in EntryOf(n + 1)
  <2>1. Stepped /\ mdsize \in Nat
    BY DEF TypeInv
  <2> HIDE DEF sels, d
  <2> QED BY <1>1, <1>3, <2>1, NewEntryType
<1>5. /\ hash' = hash \cup Hashed(e)
      /\ IF Merge
         THEN /\ LET m == IF mreqs[d] = <<>> THEN EmptyMerged(d) ELSE mreqs[d][1]
                 IN  mreqs' = [mreqs EXCEPT ![d] = <<AppendMerged(m, sels)>>]
              /\ UNCHANGED <<wreqs, mdsize>>
         ELSE /\ wreqs' = Append(wreqs, SharedEntry(e))
              /\ mdsize' = mdsize + MetaSize(SharedEntry(e))
              /\ UNCHANGED mreqs
      /\ UNCHANGED <<nflushed, extent, dsteps, data, sections>>
  BY DEF Write
<1> HIDE DEF sels, d, e
<1>6. hash' \in SUBSET EntryOf(n + 1)
  <2>1. hash \in SUBSET EntryOf(n)
    BY DEF TypeInv
  <2>2. hash \in SUBSET EntryOf(n + 1)
    BY <1>1, <2>1, KeptTypes
  <2>3. Hashed(e) \subseteq {e}
    BY DEF Hashed
  <2> QED BY <1>4, <1>5, <2>2, <2>3
<1>7. /\ data' \in Seq(ByteOf(n + 1)) /\ sections' \in Seq(Seq(EntryOf(n + 1)))
      /\ extent' \in [Dids -> Seq(Nat)] /\ (\A o \in Dids : extent'[o] \in CordsOf(o))
      /\ Stepped'
  <2>1. data \in Seq(ByteOf(n)) /\ sections \in Seq(Seq(EntryOf(n)))
    BY DEF TypeInv
  <2>2. data \in Seq(ByteOf(n + 1)) /\ sections \in Seq(Seq(EntryOf(n + 1)))
    BY <1>1, <2>1, KeptTypes
  <2> QED BY <1>5, <2>2 DEF TypeInv, Stepped
<1>8. wreqs \in Seq(EntryOf(n + 1)) /\ mreqs \in [Dids -> Seq(MergedOf(n + 1))]
  <2>1. wreqs \in Seq(EntryOf(n)) /\ mreqs \in [Dids -> Seq(MergedOf(n))]
    BY DEF TypeInv
  <2>2. \A o \in Dids : mreqs[o] \in Seq(MergedOf(n + 1))
    BY <1>1, <2>1, KeptTypes
  <2> QED BY <1>1, <2>1, <2>2, KeptTypes
<1>9. /\ wreqs' \in Seq(EntryOf(n + 1)) /\ mdsize' \in Nat /\ nflushed' \in 0 .. Len(wreqs')
      /\ mreqs' \in [Dids -> Seq(MergedOf(n + 1))] /\ \A o \in Dids : Len(mreqs'[o]) <= 1
  <2>1. CASE Merge
    <3> DEFINE m == IF mreqs[d] = <<>> THEN EmptyMerged(d) ELSE mreqs[d][1]
    <3>1. mreqs' = [mreqs EXCEPT ![d] = <<AppendMerged(m, sels)>>] /\ wreqs' = wreqs /\ mdsize' = mdsize
      BY <1>5, <2>1
    <3>2. m \in MergedOf(n)
      <4>1. mreqs[d] \in Seq(MergedOf(n))
        BY <1>3 DEF TypeInv
      <4>2. CASE mreqs[d] = <<>>
        BY <1>1, <1>3, <4>2, EmptyMergedType
      <4>3. CASE mreqs[d] # <<>>
        <5>1. Len(mreqs[d]) \in Nat \ {0}
          BY <4>1, <4>3, EmptySeq
        <5>2. mreqs[d][1] \in MergedOf(n)
          BY <4>1, <5>1
        <5> QED BY <4>3, <5>2
      <4> QED BY <4>2, <4>3
    <3> HIDE DEF m
    <3>3. AppendMerged(m, sels) \in MergedOf(n + 1)
      BY <1>1, <1>3, <3>2, AppendMergedType
    <3> DEFINE a == AppendMerged(m, sels)
    <3> HIDE DEF a
    <3>4. <<a>> \in Seq(MergedOf(n + 1)) /\ Len(<<a>>) = 1
      BY <3>3 DEF a
    <3>5. mreqs' \in [Dids -> Seq(MergedOf(n + 1))]
      BY <1>3, <1>8, <3>1, <3>4 DEF a
    <3>6. \A o \in Dids : Len(mreqs'[o]) <= 1
      <4>1. \A o \in Dids : mreqs'[o] = IF o = d THEN <<a>> ELSE mreqs[o]
        BY <1>8, <3>1 DEF a
      <4>2. \A o \in Dids : Len(mreqs[o]) <= 1
        BY DEF TypeInv
      <4>3. Len(<<a>>) <= 1
        BY <3>4
      <4>4. ASSUME NEW o \in Dids PROVE Len(mreqs'[o]) <= 1
        <5>1. CASE o = d
          BY <4>1, <4>3, <5>1
        <5>2. CASE o # d
          BY <4>1, <4>2, <5>2
        <5> QED BY <5>1, <5>2
      <4> QED BY <4>4
    <3>7. nflushed' \in 0 .. Len(wreqs')
      BY <1>5, <3>1 DEF TypeInv
    <3>8. mdsize' \in Nat /\ wreqs' \in Seq(EntryOf(n + 1))
      BY <1>8, <3>1 DEF TypeInv
    <3> QED BY <3>5, <3>6, <3>7, <3>8
  <2>2. CASE ~Merge
    <3> DEFINE r == SharedEntry(e)
    <3>1. wreqs' = Append(wreqs, r) /\ mdsize' = mdsize + MetaSize(r) /\ mreqs' = mreqs
      BY <1>5, <2>2
    <3>2. r \in EntryOf(n + 1)
      <4>1. hash \in SUBSET EntryOf(n) /\ mdsize \in Nat
        BY DEF TypeInv
      <4> HIDE DEF n
      <4> QED BY <1>4, <4>1, SharedType
    <3> HIDE DEF r
    <3>3. MetaSize(r) \in Nat
      <4> HIDE DEF n
      <4> QED BY <3>2, SizeType
    <3>4. wreqs' \in Seq(EntryOf(n + 1)) /\ Len(wreqs') = Len(wreqs) + 1 /\ Len(wreqs) \in Nat
      BY <1>8, <3>1, <3>2, AppendProperties, LenProperties
    <3>5. nflushed' \in 0 .. Len(wreqs')
      <4>1. nflushed' = nflushed /\ nflushed \in 0 .. Len(wreqs)
        BY <1>5 DEF TypeInv
      <4> QED BY <3>4, <4>1
    <3>6. mdsize' \in Nat
      <4>1. mdsize \in Nat
        BY DEF TypeInv
      <4> QED BY <3>1, <3>3, <4>1
    <3>7. \A o \in Dids : Len(mreqs'[o]) <= 1
      BY <3>1 DEF TypeInv
    <3> QED BY <1>8, <3>1, <3>4, <3>5, <3>6, <3>7
  <2> QED BY <2>1, <2>2
<1> HIDE DEF n
<1> QED BY <1>2, <1>6, <1>7, <1>9 DEF TypeInv

LEMMA WriteRefusedTypes ==
    ASSUME TypeInv, NEW q \in Requests, WriteRefused(q)
    PROVE  TypeInv'
<1> DEFINE n == Len(hist)
           d == q.did
           sels == Sels(q)
           e == NewEntry(d, sels)
           f == [e EXCEPT !.writes = <<>>]
<1>1. n \in Nat /\ sels # <<>> /\ hist' = hist /\ hash' = hash \cup Hashed(f)
  BY LenProperties DEF TypeInv, WriteRefused, MayWrite
<1>2. d \in Dids /\ sels \in Seq(BlockOf(d))
  BY ConvertedTypes
<1>3. e \in EntryOf(n + 1)
  <2>1. Stepped /\ mdsize \in Nat
    BY DEF TypeInv
  <2> HIDE DEF sels, d
  <2> QED BY <1>1, <1>2, <2>1, NewEntryType
<1> HIDE DEF sels, d, e
<1>4. f \in EntryOf(n)
  <2>1. <<>> \in Seq(1 .. n)
    BY EmptySeq
  <2> QED BY <1>3, <2>1 DEF EntryOf
<1>5. hash' \in SUBSET EntryOf(n)
  <2>1. Hashed(f) \subseteq {f}
    BY DEF Hashed
  <2> QED BY <1>1, <1>4, <2>1 DEF TypeInv
<1>6. UNCHANGED <<hist, wreqs, mreqs, mdsize, nflushed, extent, dsteps, data, sections>>
  BY DEF WriteRefused
<1> HIDE DEF f
<1> QED BY <1>5, <1>6 DEF TypeInv, Stepped

LEMMA SetExtentTypes ==
    ASSUME TypeInv, NEW x \in Extents, SetExtent(x)
    PROVE  TypeInv'
<1> DEFINE n == Len(hist)
           d == x.did
           merged == IF Encode THEN mreqs[d] ELSE <<>>
           sizes == [k \in DOMAIN merged |-> MetaSize(merged[k])]
<1>1. n \in Nat
  BY LenProperties DEF TypeInv
<1>2. d \in Dids /\ x.size \in CordsOf(d) /\ x.size \in Seq(Nat)
  <2>1. d \in Dids /\ x.size \in Seq(Nat) /\ Len(x.size) = Len(Dims[d])
    BY DatasetAssumption
  <2>2. x.size \in [1 .. Len(x.size) -> Nat]
    BY <2>1, LenProperties
  <2> QED BY <2>1, <2>2, DimsDomain
<1>3. /\ extent' = [extent EXCEPT ![d] = x.size]
      /\ dsteps' = IF Encode THEN [dsteps EXCEPT ![d] = DSteps(x.size)] ELSE dsteps
      /\ wreqs' = wreqs \o merged
      /\ mreqs' = IF Encode THEN [mreqs EXCEPT ![d] = <<>>] ELSE mreqs
      /\ mdsize' = mdsize + SumFunction(sizes)
      /\ UNCHANGED <<hist, hash, nflushed, data, sections>>
  BY DEF SetExtent
<1>4. merged \in Seq(EntryOf(n))
  <2>1. mreqs[d] \in Seq(MergedOf(n))
    BY <1>2 DEF TypeInv
  <2>2. mreqs[d] \in Seq(EntryOf(n))
    BY <2>1, SeqMonotonic DEF MergedOf
  <2> QED BY <2>2
<1> HIDE DEF merged, d
<1>5. SumFunction(sizes) \in Nat
  <2>1. Len(merged) \in Nat /\ DOMAIN merged = 1 .. Len(merged)
    BY <1>4, LenProperties
  <2>2. \A k \in DOMAIN merged : merged[k] \in EntryOf(n)
    BY <1>4, LenProperties
  <2>3. \A k \in DOMAIN merged : MetaSize(merged[k]) \in Nat
    <3> HIDE DEF n
    <3> QED BY <2>2, SizeType
  <2>4. sizes \in [DOMAIN merged -> Nat]
    BY <2>3
  <2>5. IsFiniteSet(DOMAIN merged)
    BY <2>1, FS_Interval
  <2> HIDE DEF sizes
  <2> QED BY <2>4, <2>5, SumType
<1> HIDE DEF sizes
<1>6. /\ wreqs' \in Seq(EntryOf(n)) /\ mdsize' \in Nat /\ nflushed' \in 0 .. Len(wreqs')
  <2>1. wreqs \in Seq(EntryOf(n)) /\ mdsize \in Nat /\ nflushed \in 0 .. Len(wreqs)
    BY DEF TypeInv
  <2>2. wreqs \o merged \in Seq(EntryOf(n)) /\ Len(wreqs \o merged) = Len(wreqs) + Len(merged)
    BY <1>4, <2>1, ConcatProperties
  <2>3. Len(wreqs) \in Nat /\ Len(merged) \in Nat
    BY <1>4, <2>1, LenProperties
  <2>4. mdsize + SumFunction(sizes) \in Nat
    BY <1>5, <2>1
  <2>5. nflushed \in 0 .. Len(wreqs) + Len(merged)
    BY <2>1, <2>3
  <2> QED BY <1>3, <2>2, <2>4, <2>5
<1>7. extent' \in [Dids -> Seq(Nat)] /\ \A o \in Dids : extent'[o] \in CordsOf(o)
  <2>1. extent \in [Dids -> Seq(Nat)] /\ \A o \in Dids : extent[o] \in CordsOf(o)
    BY DEF TypeInv
  <2>2. \A o \in Dids : extent'[o] = IF o = d THEN x.size ELSE extent[o]
    BY <1>3, <2>1
  <2> QED BY <1>2, <1>3, <2>1, <2>2
<1>8. Stepped'
  <2>1. CASE Encode
    <3>1. DSteps(x.size) \in CordsOf(d) /\ DSteps(x.size) \in Seq(Nat)
      BY <1>2, StepsType, CoordsAreSeqs
    <3>2. dsteps \in [Dids -> Seq(Nat)] /\ \A o \in Dids : dsteps[o] \in CordsOf(o)
      BY DEF TypeInv, Stepped
    <3>3. dsteps' = [dsteps EXCEPT ![d] = DSteps(x.size)]
      BY <1>3, <2>1
    <3>4. \A o \in Dids : dsteps'[o] = IF o = d THEN DSteps(x.size) ELSE dsteps[o]
      BY <3>2, <3>3
    <3>5. dsteps' \in [Dids -> Seq(Nat)]
      BY <1>2, <3>1, <3>2, <3>3
    <3>6. \A o \in Dids : dsteps'[o] \in CordsOf(o)
      BY <3>1, <3>2, <3>4
    <3> QED BY <3>5, <3>6 DEF Stepped
  <2>2. CASE ~Encode
    BY <1>3, <2>2 DEF TypeInv, Stepped
  <2> QED BY <2>1, <2>2
<1>9. mreqs' \in [Dids -> Seq(MergedOf(n))] /\ \A o \in Dids : Len(mreqs'[o]) <= 1
  <2>1. mreqs \in [Dids -> Seq(MergedOf(n))] /\ \A o \in Dids : Len(mreqs[o]) <= 1
    BY DEF TypeInv
  <2>2. CASE Encode
    <3>1. mreqs' = [mreqs EXCEPT ![d] = <<>>]
      BY <1>3, <2>2
    <3>2. \A o \in Dids : mreqs'[o] = IF o = d THEN <<>> ELSE mreqs[o]
      BY <2>1, <3>1
    <3>3. <<>> \in Seq(MergedOf(n)) /\ Len(<<>>) <= 1
      BY EmptySeq
    <3> HIDE DEF n
    <3> QED BY <1>2, <2>1, <3>1, <3>2, <3>3
  <2>3. CASE ~Encode
    BY <1>3, <2>1, <2>3
  <2> QED BY <2>2, <2>3
<1>10. hist' = hist /\ hash' = hash /\ data' = data /\ sections' = sections
  BY <1>3
<1> QED BY <1>6, <1>7, <1>8, <1>9, <1>10 DEF TypeInv

LEMMA SetExtentRefusedTypes ==
    ASSUME TypeInv, NEW x \in Extents, SetExtentRefused(x)
    PROVE  TypeInv'
<1> DEFINE d == x.did
           first == CHOOSE i \in DOMAIN x.size :
                       /\ x.size[i] > MaxDims[x.did][i]
                       /\ \A j \in 1 .. i - 1 : x.size[j] <= MaxDims[x.did][j]
           new == [i \in DOMAIN extent[d] |-> IF i < first THEN x.size[i] ELSE extent[d][i]]
<1>1. d \in Dids /\ x.size \in CordsOf(d)
  <2>1. d \in Dids /\ x.size \in Seq(Nat) /\ Len(x.size) = Len(Dims[d])
    BY DatasetAssumption
  <2>2. x.size \in [1 .. Len(x.size) -> Nat]
    BY <2>1, LenProperties
  <2> QED BY <2>1, <2>2, DimsDomain
<1>2. extent \in [Dids -> Seq(Nat)] /\ \A o \in Dids : extent[o] \in CordsOf(o)
  BY DEF TypeInv
<1>3. /\ extent' = [extent EXCEPT ![d] = new]
      /\ UNCHANGED <<hist, wreqs, mreqs, hash, mdsize, nflushed, dsteps, data, sections>>
  BY DEF SetExtentRefused
<1> HIDE DEF first
<1>4. new \in CordsOf(d)
  <2>1. extent[d] \in [1 .. Len(Dims[d]) -> Nat] /\ x.size \in [1 .. Len(Dims[d]) -> Nat]
    BY <1>1, <1>2, DimsDomain
  <2>2. new \in [1 .. Len(Dims[d]) -> Nat]
    BY <2>1
  <2> QED BY <1>1, <2>2, DimsDomain
<1> HIDE DEF new, d
<1>5. new \in Seq(Nat)
  BY <1>1, <1>4, CoordsAreSeqs
<1>6. extent' \in [Dids -> Seq(Nat)] /\ \A o \in Dids : extent'[o] \in CordsOf(o)
  <2>1. \A o \in Dids : extent'[o] = IF o = d THEN new ELSE extent[o]
    BY <1>2, <1>3
  <2> QED BY <1>1, <1>2, <1>3, <1>4, <1>5, <2>1
<1> QED BY <1>3, <1>6 DEF TypeInv, Stepped

LEMMA FlushMetaTypes ==
    ASSUME TypeInv, FlushMeta
    PROVE  TypeInv'
<1>1. /\ sections' = Append(sections, wreqs)
      /\ wreqs' = <<>> /\ nflushed' = 0 /\ mdsize' = 0 /\ hash' = {}
      /\ UNCHANGED <<hist, mreqs, extent, dsteps, data>>
  BY DEF FlushMeta
<1>2. wreqs \in Seq(EntryOf(Len(hist))) /\ sections \in Seq(Seq(EntryOf(Len(hist))))
  BY DEF TypeInv
<1>3. sections' \in Seq(Seq(EntryOf(Len(hist))))
  BY <1>1, <1>2, AppendProperties
<1>4. <<>> \in Seq(EntryOf(Len(hist))) /\ 0 \in 0 .. Len(<<>>)
  BY EmptySeq
<1> QED BY <1>1, <1>3, <1>4 DEF TypeInv, Stepped
-----------------------------------------------------------------------------
\* The entries FlushData queues and what it lays out.
AllMerged == FlattenSeq([d \in 1 .. NDset |-> mreqs[d - 1]])

LEMMA MergedTypes ==
    ASSUME TypeInv
    PROVE  /\ AllMerged \in Seq(EntryOf(Len(hist)))
           /\ SumFunction([k \in DOMAIN AllMerged |-> MetaSize(AllMerged[k])]) \in Nat
<1> DEFINE n == Len(hist)
           seqs == [d \in 1 .. NDset |-> mreqs[d - 1]]
           merged == AllMerged
           sizes == [k \in DOMAIN merged |-> MetaSize(merged[k])]
<1>1. NDset \in Nat
  BY DatasetAssumption
<1>2. ASSUME NEW d \in 1 .. NDset PROVE seqs[d] \in Seq(EntryOf(n))
  <2>1. d - 1 \in Dids
    BY <1>1 DEF Dids
  <2>2. mreqs[d - 1] \in Seq(MergedOf(n))
    BY <2>1 DEF TypeInv
  <2>3. mreqs[d - 1] \in Seq(EntryOf(n))
    BY <2>2, SeqMonotonic DEF MergedOf
  <2> QED BY <2>3
<1>3. merged \in Seq(EntryOf(n))
  <2>1. seqs \in [1 .. NDset -> Seq(EntryOf(n))]
    BY <1>2
  <2> HIDE DEF seqs, n
  <2>2. seqs \in Seq(Seq(EntryOf(n)))
    BY <1>1, <2>1, SeqDef
  <2> QED BY <2>2, FlattenType DEF AllMerged, seqs
<1> HIDE DEF merged, n
<1>4. ASSUME NEW k \in DOMAIN merged PROVE MetaSize(merged[k]) \in Nat
  <2>1. merged[k] \in EntryOf(n)
    BY <1>3, LenProperties
  <2> QED BY <2>1, SizeType
<1>5. IsFiniteSet(DOMAIN merged)
  <2>1. Len(merged) \in Nat /\ DOMAIN merged = 1 .. Len(merged)
    BY <1>3, LenProperties
  <2> QED BY <2>1, FS_Interval
<1>6. sizes \in [DOMAIN merged -> Nat]
  BY <1>4
<1>7. SumFunction(sizes) \in Nat
  <2> HIDE DEF sizes
  <2> QED BY <1>5, <1>6, SumType
<1> QED BY <1>3, <1>7 DEF merged, n

LEMMA FlushDataTypes ==
    ASSUME TypeInv, FlushData
    PROVE  TypeInv'
<1> DEFINE n == Len(hist)
           reqs == wreqs \o AllMerged
           new == SubSeq(reqs, nflushed + 1, Len(reqs))
           Size(k) == Len(EntryBytes(reqs[k]))
           Foff(k) == Len(data) + SumFunction([j \in nflushed + 1 .. k - 1 |-> Size(j)])
           laid == [k \in DOMAIN reqs |->
                      IF k > nflushed THEN [reqs[k] EXCEPT !.foff = Foff(k)] ELSE reqs[k]]
           bytes == [k \in DOMAIN new |-> EntryBytes(new[k])]
<1>1. /\ wreqs' = laid /\ mreqs' = [d \in Dids |-> <<>>] /\ nflushed' = Len(reqs)
      /\ mdsize' = mdsize + SumFunction([k \in DOMAIN AllMerged |-> MetaSize(AllMerged[k])])
      /\ data' = data \o FlattenSeq(bytes)
      /\ UNCHANGED <<hist, hash, extent, dsteps, sections>>
  BY DEF FlushData, AllMerged
<1>2. /\ hist \in Seq(Requests) /\ wreqs \in Seq(EntryOf(n)) /\ nflushed \in 0 .. Len(wreqs)
      /\ data \in Seq(ByteOf(n)) /\ mdsize \in Nat
  BY DEF TypeInv
<1>3. /\ reqs \in Seq(EntryOf(n)) /\ Len(reqs) \in Nat /\ DOMAIN reqs = 1 .. Len(reqs)
      /\ nflushed \in Nat /\ nflushed <= Len(reqs)
  <2>1. reqs \in Seq(EntryOf(n)) /\ Len(reqs) = Len(wreqs) + Len(AllMerged)
    BY <1>2, MergedTypes, ConcatProperties
  <2>2. Len(wreqs) \in Nat /\ Len(AllMerged) \in Nat
    BY <1>2, MergedTypes, LenProperties
  <2>3. Len(reqs) \in Nat /\ DOMAIN reqs = 1 .. Len(reqs)
    BY <2>1, LenProperties
  <2> HIDE DEF reqs
  <2>4. nflushed \in Nat /\ nflushed <= Len(reqs)
    BY <1>2, <2>1, <2>2
  <2> QED BY <2>1, <2>3, <2>4
<1> HIDE DEF reqs
<1>4. \A k \in 1 .. Len(reqs) : reqs[k] \in EntryOf(n)
  BY <1>3, LenProperties
<1>5. ASSUME NEW k \in 1 .. Len(reqs) PROVE EntryBytes(reqs[k]) \in Seq(ByteOf(n)) /\ Size(k) \in Nat
  <2>1. EntryBytes(reqs[k]) \in Seq(ByteOf(n))
    BY <1>2, <1>4, EntryBytesType
  <2> QED BY <2>1, LenProperties
<1>6. ASSUME NEW k \in 1 .. Len(reqs) PROVE Foff(k) \in Nat
  <2> DEFINE sizes == [j \in nflushed + 1 .. k - 1 |-> Size(j)]
  <2>1. nflushed + 1 .. k - 1 \subseteq 1 .. Len(reqs)
    BY <1>3
  <2> HIDE DEF Size
  <2>2. sizes \in [nflushed + 1 .. k - 1 -> Nat]
    BY <1>5, <2>1 DEF Size
  <2>3. IsFiniteSet(nflushed + 1 .. k - 1)
    <3>1. nflushed + 1 \in Int /\ k - 1 \in Int
      BY <1>3
    <3> QED BY <3>1, FS_Interval
  <2>4. Len(data) \in Nat
    BY <1>2, LenProperties
  <2> HIDE DEF sizes
  <2>5. SumFunction(sizes) \in Nat
    BY <2>2, <2>3, SumType
  <2> QED BY <2>4, <2>5 DEF sizes
<1> HIDE DEF Foff
<1>7. laid \in Seq(EntryOf(n)) /\ Len(laid) = Len(reqs)
  <2>1. ASSUME NEW k \in 1 .. Len(reqs) PROVE laid[k] \in EntryOf(n)
    <3>1. [reqs[k] EXCEPT !.foff = Foff(k)] \in EntryOf(n)
      BY <1>4, <1>6 DEF EntryOf
    <3> QED BY <1>3, <1>4, <3>1
  <2>2. laid \in [1 .. Len(reqs) -> EntryOf(n)]
    BY <1>3, <2>1
  <2> HIDE DEF laid
  <2> QED BY <1>3, <2>2, SeqDef, LenProperties
<1>8. data' \in Seq(ByteOf(n))
  <2>1. new \in Seq(EntryOf(n))
    <3>1. \A i \in nflushed + 1 .. Len(reqs) : reqs[i] \in EntryOf(n)
      BY <1>3, <1>4
    <3>2. nflushed + 1 \in Int /\ Len(reqs) \in Int
      BY <1>3
    <3> QED BY <3>1, <3>2, SubSeqProperties
  <2> HIDE DEF new
  <2>2. ASSUME NEW k \in DOMAIN new PROVE bytes[k] \in Seq(ByteOf(n))
    <3>1. new[k] \in EntryOf(n)
      BY <2>1, LenProperties
    <3> QED BY <1>2, <3>1, EntryBytesType
  <2>3. DOMAIN bytes = DOMAIN new /\ bytes = [k \in DOMAIN new |-> bytes[k]]
    OBVIOUS
  <2> HIDE DEF bytes, n
  <2>4. FlattenSeq(bytes) \in Seq(ByteOf(n))
    BY <2>1, <2>2, <2>3, FlattenMap
  <2> QED BY <1>1, <1>2, <2>4, ConcatProperties
<1>9. mdsize' \in Nat
  <2> DEFINE s == SumFunction([k \in DOMAIN AllMerged |-> MetaSize(AllMerged[k])])
  <2>1. s \in Nat /\ mdsize' = mdsize + s
    BY <1>1, MergedTypes
  <2> HIDE DEF s
  <2> QED BY <1>2, <2>1
<1>10. mreqs' \in [Dids -> Seq(MergedOf(n))] /\ \A d \in Dids : Len(mreqs'[d]) <= 1
  <2>1. <<>> \in Seq(MergedOf(n)) /\ Len(<<>>) <= 1
    BY EmptySeq
  <2> QED BY <1>1, <2>1
<1> HIDE DEF laid, bytes, new
<1>11. nflushed' \in 0 .. Len(wreqs')
  BY <1>1, <1>3, <1>7
<1> QED BY <1>1, <1>7, <1>8, <1>9, <1>10, <1>11 DEF TypeInv, Stepped

LEMMA StepTypes == TypeInv /\ [Next]_vars => TypeInv'
<1> SUFFICES ASSUME TypeInv, [Next]_vars PROVE TypeInv'
  OBVIOUS
<1>1. ASSUME NEW q \in Requests, Write(q) PROVE TypeInv'
  BY <1>1, WriteTypes
<1>2. ASSUME NEW q \in Requests, WriteRefused(q) PROVE TypeInv'
  BY <1>2, WriteRefusedTypes
<1>3. ASSUME NEW x \in Extents, SetExtent(x) PROVE TypeInv'
  BY <1>3, SetExtentTypes
<1>4. ASSUME NEW x \in Extents, SetExtentRefused(x) PROVE TypeInv'
  BY <1>4, SetExtentRefusedTypes
<1>5. CASE FlushData
  BY <1>5, FlushDataTypes
<1>6. CASE FlushMeta
  BY <1>6, FlushMetaTypes
<1>7. CASE UNCHANGED vars
  BY <1>7 DEF vars, TypeInv, Stepped
<1> QED BY <1>1, <1>2, <1>3, <1>4, <1>5, <1>6, <1>7 DEF Next

LEMMA TypesHold == Spec => []TypeInv
  BY InitTypes, StepTypes, PTL DEF Spec

\* Every reachable state of MetaIndex is of its types: what is queued, hashed
\* and written are entries whose words are numbers, that stand for writes
\* made, and no more of them are flushed than queued (H5VL_log_dataseti_write,
\* H5VL_log_nb_flush_write_reqs).
THEOREM EntriesTyped == Spec => []TypeOK
  BY TypesHold, TypesImply, PTL
-----------------------------------------------------------------------------
(***************************************************************************)
(* The offsets entries state                                               *)
(***************************************************************************)
LEMMA PositionFirst == ASSUME NEW sec PROVE Position(sec, 1) = 0
<1> DEFINE none == [j \in 1 .. 1 - 1 |-> MetaSize(sec[j])]
<1>1. 1 .. 1 - 1 = {}
  OBVIOUS
<1>2. none \in [{} -> Nat]
  BY <1>1
<1>3. IsFiniteSet({})
  BY FS_EmptySet
<1>4. Position(sec, 1) = SumFunction(none)
  BY DEF Position
<1> HIDE DEF none
<1>5. PICK g \in [SUBSET {} -> Nat] : SumsTo(none, {}, g) /\ SumFunction(none) = g[{}]
  BY <1>2, <1>3, SumFolded
<1>6. g[{}] = 0
  BY <1>5 DEF SumsTo
<1> QED BY <1>4, <1>5, <1>6

LEMMA PositionType ==
    ASSUME NEW n, NEW sec \in Seq(EntryOf(n)), NEW k \in 1 .. Len(sec) + 1
    PROVE  Position(sec, k) \in Nat
<1> DEFINE sizes == [j \in 1 .. k - 1 |-> MetaSize(sec[j])]
<1>1. Len(sec) \in Nat /\ \A j \in 1 .. Len(sec) : sec[j] \in EntryOf(n)
  BY LenProperties
<1>2. 1 .. k - 1 \subseteq 1 .. Len(sec)
  BY <1>1
<1>3. \A j \in 1 .. k - 1 : MetaSize(sec[j]) \in Nat
  BY <1>1, <1>2, SizeType
<1>4. sizes \in [1 .. k - 1 -> Nat]
  BY <1>3
<1>5. IsFiniteSet(1 .. k - 1)
  <2>1. k - 1 \in Int
    BY <1>1
  <2> QED BY <2>1, FS_Interval
<1> HIDE DEF sizes
<1>6. SumFunction(sizes) \in Nat
  BY <1>4, <1>5, SumType
<1> QED BY <1>6 DEF Position, sizes

LEMMA PositionNext ==
    ASSUME NEW n, NEW sec \in Seq(EntryOf(n)), NEW k \in 1 .. Len(sec)
    PROVE  Position(sec, k + 1) = Position(sec, k) + MetaSize(sec[k])
<1> DEFINE m == k - 1
           sizes == [j \in 1 .. m + 1 |-> MetaSize(sec[j])]
           fewer == [j \in 1 .. m |-> sizes[j]]
<1>1. Len(sec) \in Nat /\ \A j \in 1 .. Len(sec) : sec[j] \in EntryOf(n)
  BY LenProperties
<1>2. m \in Nat /\ m + 1 = k /\ (k + 1) - 1 = m + 1 /\ 1 .. m + 1 \subseteq 1 .. Len(sec)
  BY <1>1
<1>3. \A j \in 1 .. m + 1 : MetaSize(sec[j]) \in Int
  BY <1>1, <1>2, SizeType
<1>4. sizes \in [1 .. m + 1 -> Int]
  BY <1>3
<1>5. sizes[m + 1] = MetaSize(sec[k])
  BY <1>2
<1>6. fewer = [j \in 1 .. k - 1 |-> MetaSize(sec[j])]
  <2>1. 1 .. m \subseteq 1 .. m + 1
    BY <1>2
  <2> QED BY <2>1
<1>7. Position(sec, k + 1) = SumFunction(sizes) /\ Position(sec, k) = SumFunction(fewer)
  BY <1>2, <1>6 DEF Position
<1> HIDE DEF sizes, m
<1>8. SumFunction(sizes) = SumFunction(fewer) + sizes[m + 1]
  BY <1>2, <1>4, SumLast
<1> QED BY <1>5, <1>7, <1>8

LEMMA PositionSame ==
    ASSUME NEW a, NEW b, NEW k \in Nat, \A j \in 1 .. k - 1 : MetaSize(a[j]) = MetaSize(b[j])
    PROVE  Position(a, k) = Position(b, k)
<1>1. [j \in 1 .. k - 1 |-> MetaSize(a[j])] = [j \in 1 .. k - 1 |-> MetaSize(b[j])]
  OBVIOUS
<1> QED BY <1>1 DEF Position

\* An entry without reference in the queue, at the offset of one in the hash.
Queued(t) ==
    \E k \in DOMAIN wreqs : /\ wreqs[k].meta_off = t.meta_off /\ wreqs[k].body = t.body
                            /\ ~wreqs[k].ref

\* Without merging nothing but writes is queued, so the sizes add up.
OffsetInv ==
    /\ \A d \in Dids : mreqs[d] = <<>>
    /\ mdsize = Position(wreqs, Len(wreqs) + 1)
    /\ \A k \in DOMAIN wreqs : wreqs[k].meta_off = Position(wreqs, k)
    /\ \A t \in hash : t.writes = <<>> \/ Queued(t)

LEMMA OffsetsImply == OffsetInv => OffsetsPredicted
  BY DEF OffsetInv, OffsetsPredicted, Queued

LEMMA SharedOffset ==
    ASSUME NEW n, NEW m, hash \in SUBSET EntryOf(m), NEW e \in EntryOf(n), mdsize \in Nat
    PROVE  SharedEntry(e).meta_off = e.meta_off
<1>1. Equal(e) \subseteq hash
  BY DEF Equal
<1>2. CASE Sharable(e) /\ Equal(e) # {}
  <2>1. (CHOOSE t \in Equal(e) : TRUE) \in EntryOf(m)
    BY <1>1, <1>2
  <2>2. SharedEntry(e) = RefEntry(e, CHOOSE t \in Equal(e) : TRUE)
    BY <1>2 DEF SharedEntry
  <2>3. RefEntry(e, CHOOSE t \in Equal(e) : TRUE).meta_off = e.meta_off
    BY <2>1, RefEntryType
  <2> QED BY <2>2, <2>3
<1>3. CASE ~(Sharable(e) /\ Equal(e) # {})
  BY <1>3 DEF SharedEntry
<1> QED BY <1>2, <1>3

LEMMA WriteOffsets ==
    ASSUME TypeInv, OffsetInv, ~Merge, NEW q \in Requests, Write(q)
    PROVE  OffsetInv'
<1> DEFINE n == Len(hist)
           d == q.did
           sels == Sels(q)
           e == NewEntry(d, sels)
           r == SharedEntry(e)
           L == Len(wreqs)
<1>1. n \in Nat /\ sels # <<>>
  BY LenProperties DEF TypeInv, Write, MayWrite
<1>2. d \in Dids /\ sels \in Seq(BlockOf(d))
  BY ConvertedTypes
<1>3. /\ hash' = hash \cup Hashed(e) /\ wreqs' = Append(wreqs, r)
      /\ mdsize' = mdsize + MetaSize(r) /\ mreqs' = mreqs
  BY DEF Write
<1> HIDE DEF d, sels
<1>4. e \in EntryOf(n + 1) /\ ~e.ref /\ e.meta_off = mdsize
  <2>1. Stepped /\ mdsize \in Nat
    BY DEF TypeInv
  <2> QED BY <1>1, <1>2, <2>1, NewEntryType
<1> HIDE DEF e
<1>5. r \in EntryOf(n + 1) /\ r.meta_off = mdsize
  <2>1. hash \in SUBSET EntryOf(n) /\ mdsize \in Nat
    BY DEF TypeInv
  <2> HIDE DEF n
  <2> QED BY <1>4, <2>1, SharedType, SharedOffset
<1> HIDE DEF r
<1>6. /\ wreqs \in Seq(EntryOf(n + 1)) /\ L \in Nat /\ DOMAIN wreqs = 1 .. L
  <2>1. wreqs \in Seq(EntryOf(n))
    BY DEF TypeInv
  <2>2. wreqs \in Seq(EntryOf(n + 1))
    BY <1>1, <2>1, KeptTypes
  <2> QED BY <2>2, LenProperties
<1>7. /\ wreqs' \in Seq(EntryOf(n + 1)) /\ Len(wreqs') = L + 1 /\ DOMAIN wreqs' = 1 .. L + 1
      /\ wreqs'[L + 1] = r /\ \A k \in 1 .. L : wreqs'[k] = wreqs[k]
  <2>1. /\ wreqs' \in Seq(EntryOf(n + 1)) /\ Len(wreqs') = L + 1
        /\ wreqs'[L + 1] = r /\ \A k \in 1 .. L : wreqs'[k] = wreqs[k]
    BY <1>3, <1>5, <1>6, AppendProperties
  <2> QED BY <2>1, LenProperties
<1> HIDE DEF n, L
<1>8. ASSUME NEW k \in 1 .. L + 1 PROVE Position(wreqs', k) = Position(wreqs, k)
  <2>1. k \in Nat /\ \A j \in 1 .. k - 1 : j \in 1 .. L
    BY <1>6
  <2>2. \A j \in 1 .. k - 1 : MetaSize(wreqs'[j]) = MetaSize(wreqs[j])
    BY <1>7, <2>1
  <2> QED BY <2>1, <2>2, PositionSame
<1>9. L + 1 \in 1 .. L + 1 /\ \A k \in 1 .. L : k \in 1 .. L + 1
  BY <1>6
<1>10. mdsize = Position(wreqs, L + 1)
  BY DEF OffsetInv, L
<1>11. mdsize' = Position(wreqs', Len(wreqs') + 1)
  <2>1. Position(wreqs', (L + 1) + 1) = Position(wreqs', L + 1) + MetaSize(r)
    <3>1. L + 1 \in 1 .. Len(wreqs')
      BY <1>7, <1>9
    <3>2. Position(wreqs', (L + 1) + 1) = Position(wreqs', L + 1) + MetaSize(wreqs'[L + 1])
      BY <1>7, <3>1, PositionNext
    <3> QED BY <1>7, <3>2
  <2>2. Position(wreqs', L + 1) = mdsize
    BY <1>8, <1>9, <1>10
  <2> QED BY <1>3, <1>7, <2>1, <2>2
<1>12. ASSUME NEW k \in 1 .. L + 1 PROVE wreqs'[k].meta_off = Position(wreqs', k)
  <2>1. CASE k = L + 1
    BY <1>5, <1>7, <1>8, <1>10, <2>1
  <2>2. CASE k # L + 1
    <3>1. k \in 1 .. L
      BY <1>6, <2>2
    <3>2. wreqs[k].meta_off = Position(wreqs, k)
      BY <1>6, <3>1 DEF OffsetInv
    <3> QED BY <1>7, <1>8, <3>1, <3>2
  <2> QED BY <2>1, <2>2
<1>13. ASSUME NEW t \in hash', t.writes # <<>>
       PROVE  \E k \in 1 .. L + 1 : /\ wreqs'[k].meta_off = t.meta_off /\ wreqs'[k].body = t.body
                                    /\ ~wreqs'[k].ref
  <2>1. CASE t \in hash
    <3>1. PICK k \in 1 .. L : /\ wreqs[k].meta_off = t.meta_off /\ wreqs[k].body = t.body
                              /\ ~wreqs[k].ref
      BY <1>6, <1>13, <2>1 DEF OffsetInv, Queued
    <3> QED BY <1>7, <1>9, <3>1
  <2>2. CASE t \notin hash
    <3>1. t = e /\ ~(Sharable(e) /\ Equal(e) # {})
      BY <1>3, <2>2 DEF Hashed
    <3>2. r = e
      BY <3>1 DEF r, SharedEntry
    <3> QED BY <1>4, <1>7, <1>9, <3>1, <3>2
  <2> QED BY <2>1, <2>2
<1>14. \A o \in Dids : mreqs'[o] = <<>>
  BY <1>3 DEF OffsetInv
<1> QED BY <1>7, <1>11, <1>12, <1>13, <1>14 DEF OffsetInv, Queued

LEMMA WriteRefusedOffsets ==
    ASSUME TypeInv, OffsetInv, NEW q \in Requests, WriteRefused(q)
    PROVE  OffsetInv'
<1> DEFINE n == Len(hist)
           d == q.did
           sels == Sels(q)
           e == NewEntry(d, sels)
           f == [e EXCEPT !.writes = <<>>]
<1>1. n \in Nat /\ sels # <<>> /\ hash' = hash \cup Hashed(f)
  BY LenProperties DEF TypeInv, WriteRefused, MayWrite
<1>2. d \in Dids /\ sels \in Seq(BlockOf(d))
  BY ConvertedTypes
<1>3. UNCHANGED <<hist, wreqs, mreqs, mdsize, nflushed, extent, dsteps, data, sections>>
  BY DEF WriteRefused
<1> HIDE DEF d, sels
<1>4. e \in EntryOf(n + 1)
  <2>1. Stepped /\ mdsize \in Nat
    BY DEF TypeInv
  <2> QED BY <1>1, <1>2, <2>1, NewEntryType
<1> HIDE DEF e
<1>5. f.writes = <<>>
  BY <1>4 DEF EntryOf
<1>6. \A t \in hash' : t \in hash \/ t.writes = <<>>
  BY <1>1, <1>5 DEF Hashed
<1> QED BY <1>3, <1>6 DEF OffsetInv, Queued

LEMMA SetExtentOffsets ==
    ASSUME TypeInv, OffsetInv, NEW x \in Extents, SetExtent(x)
    PROVE  OffsetInv' /\ wreqs' = wreqs /\ mdsize' = mdsize /\ mreqs' = mreqs
<1> DEFINE merged == IF Encode THEN mreqs[x.did] ELSE <<>>
           sizes == [k \in DOMAIN merged |-> MetaSize(merged[k])]
<1>1. /\ wreqs' = wreqs \o merged
      /\ mreqs' = IF Encode THEN [mreqs EXCEPT ![x.did] = <<>>] ELSE mreqs
      /\ mdsize' = mdsize + SumFunction(sizes)
      /\ UNCHANGED <<hist, hash, nflushed, data, sections>>
  BY DEF SetExtent
<1>2. x.did \in Dids
  BY DatasetAssumption
<1>3. merged = <<>>
  BY <1>2 DEF OffsetInv
<1>4. wreqs' = wreqs
  <2>1. wreqs \in Seq(EntryOf(Len(hist)))
    BY DEF TypeInv
  <2> HIDE DEF merged
  <2> QED BY <1>1, <1>3, <2>1, ConcatEmptySeq
<1>5. SumFunction(sizes) = 0
  <2>1. sizes = [j \in 1 .. 1 - 1 |-> MetaSize(merged[j])]
    BY <1>3
  <2>2. SumFunction(sizes) = Position(merged, 1)
    BY <2>1 DEF Position
  <2> QED BY <2>2, PositionFirst
<1>6. mdsize' = mdsize
  <2> HIDE DEF sizes
  <2>1. mdsize \in Nat
    BY DEF TypeInv
  <2> QED BY <1>1, <1>5, <2>1
<1>7. mreqs' = mreqs
  <2>1. mreqs = [d \in Dids |-> mreqs[d]] /\ \A d \in Dids : mreqs[d] = <<>>
    BY DEF TypeInv, OffsetInv
  <2> QED BY <1>1, <1>2, <2>1
<1> HIDE DEF merged, sizes
<1>8. hash' = hash
  BY <1>1
<1> QED BY <1>4, <1>6, <1>7, <1>8 DEF OffsetInv, Queued

\* Entries that differ at most in where their data is.
SameEntry(a, b) ==
    /\ a.did = b.did /\ a.rec = b.rec /\ a.recnum = b.recnum /\ a.mul = b.mul /\ a.enc = b.enc
    /\ a.ref = b.ref /\ a.body = b.body /\ a.meta_off = b.meta_off /\ a.writes = b.writes

\* What FlushData does without merging: only the offsets of the data change.
LEMMA FlushedInPlace ==
    ASSUME TypeInv, OffsetInv, FlushData
    PROVE  /\ mdsize' = mdsize /\ hash' = hash /\ mreqs' = mreqs /\ sections' = sections
           /\ Len(wreqs') = Len(wreqs) /\ DOMAIN wreqs' = DOMAIN wreqs
           /\ \A k \in DOMAIN wreqs :
                 /\ MetaSize(wreqs'[k]) = MetaSize(wreqs[k])
                 /\ wreqs'[k].meta_off = wreqs[k].meta_off /\ wreqs'[k].body = wreqs[k].body
                 /\ wreqs'[k].ref = wreqs[k].ref /\ SameEntry(wreqs'[k], wreqs[k])
<1> DEFINE reqs == wreqs \o AllMerged
           Foff(k) == Len(data) + SumFunction([j \in nflushed + 1 .. k - 1 |-> Len(EntryBytes(reqs[j]))])
           n == Len(hist)
<1>1. /\ wreqs' = [k \in DOMAIN reqs |->
                     IF k > nflushed THEN [reqs[k] EXCEPT !.foff = Foff(k)] ELSE reqs[k]]
      /\ mreqs' = [d \in Dids |-> <<>>]
      /\ mdsize' = mdsize + SumFunction([k \in DOMAIN AllMerged |-> MetaSize(AllMerged[k])])
      /\ UNCHANGED <<hist, hash, extent, dsteps, sections>>
  BY DEF FlushData, AllMerged
<1>2. AllMerged = <<>>
  <2> DEFINE seqs == [d \in 1 .. NDset |-> mreqs[d - 1]]
  <2>1. NDset \in Nat
    BY DatasetAssumption
  <2>2. ASSUME NEW d \in 1 .. NDset PROVE seqs[d] = <<>>
    <3>1. d - 1 \in Dids
      BY <2>1 DEF Dids
    <3> QED BY <3>1 DEF OffsetInv
  <2>3. seqs \in [1 .. NDset -> {<<>>}]
    BY <2>2
  <2>4. AllMerged = FlattenSeq(seqs)
    BY DEF AllMerged
  <2> HIDE DEF seqs
  <2> QED BY <2>1, <2>3, <2>4, FlattenNothing
<1>3. wreqs \in Seq(EntryOf(n)) /\ mdsize \in Nat
  BY DEF TypeInv
<1>4. reqs = wreqs
  BY <1>2, <1>3, ConcatEmptySeq
<1>5. mdsize' = mdsize
  <2> DEFINE sizes == [k \in DOMAIN AllMerged |-> MetaSize(AllMerged[k])]
  <2>1. sizes = [j \in 1 .. 1 - 1 |-> MetaSize(AllMerged[j])]
    BY <1>2
  <2>2. SumFunction(sizes) = 0
    BY <2>1, PositionFirst DEF Position
  <2>3. mdsize' = mdsize + SumFunction(sizes)
    BY <1>1
  <2> HIDE DEF sizes
  <2> QED BY <1>3, <2>2, <2>3
<1>6. mreqs' = mreqs
  <2>1. mreqs = [d \in Dids |-> mreqs[d]] /\ \A d \in Dids : mreqs[d] = <<>>
    BY DEF TypeInv, OffsetInv
  <2> QED BY <1>1, <2>1
<1> HIDE DEF Foff, reqs
<1>7. DOMAIN wreqs' = DOMAIN wreqs /\ wreqs' = [k \in DOMAIN wreqs |-> wreqs'[k]]
  BY <1>1, <1>4
<1>8. Len(wreqs') = Len(wreqs)
  <2>1. Len(wreqs) \in Nat /\ DOMAIN wreqs = 1 .. Len(wreqs)
    BY <1>3, LenProperties
  <2>2. wreqs' = [k \in 1 .. Len(wreqs) |-> wreqs'[k]]
    BY <1>7, <2>1
  <2> DEFINE f == wreqs'
             l == Len(wreqs)
  <2>3. l \in Nat /\ f = [k \in 1 .. l |-> f[k]]
    BY <2>1, <2>2
  <2> HIDE DEF f, l
  <2>4. Len(f) = l
    BY <2>3
  <2> QED BY <2>4 DEF f, l
<1>9. ASSUME NEW k \in DOMAIN wreqs
      PROVE  /\ MetaSize(wreqs'[k]) = MetaSize(wreqs[k])
             /\ wreqs'[k].meta_off = wreqs[k].meta_off /\ wreqs'[k].body = wreqs[k].body
             /\ wreqs'[k].ref = wreqs[k].ref /\ SameEntry(wreqs'[k], wreqs[k])
  <2> DEFINE a == wreqs[k]
             b == wreqs'[k]
  <2>1. a \in EntryOf(n)
    BY <1>3, LenProperties
  <2>2. b = [a EXCEPT !.foff = Foff(k)] \/ b = a
    BY <1>1, <1>4
  <2> HIDE DEF a, b
  <2>3. /\ b.rec = a.rec /\ b.mul = a.mul /\ b.meta_off = a.meta_off /\ b.body = a.body
        /\ b.ref = a.ref /\ SameEntry(b, a)
    BY <2>1, <2>2 DEF EntryOf, SameEntry
  <2>4. MetaSize(b) = MetaSize(a)
    BY <2>3 DEF MetaSize, SelSize
  <2> QED BY <2>3, <2>4 DEF a, b
<1>10. hash' = hash /\ sections' = sections
  BY <1>1
<1> QED BY <1>5, <1>6, <1>7, <1>8, <1>9, <1>10

LEMMA FlushDataOffsets ==
    ASSUME TypeInv, OffsetInv, FlushData
    PROVE  OffsetInv'
<1> DEFINE L == Len(wreqs)
<1>1. L \in Nat /\ DOMAIN wreqs = 1 .. L
  BY LenProperties DEF TypeInv
<1>2. /\ mdsize' = mdsize /\ hash' = hash /\ mreqs' = mreqs
      /\ Len(wreqs') = L /\ DOMAIN wreqs' = 1 .. L
      /\ \A k \in 1 .. L :
            /\ MetaSize(wreqs'[k]) = MetaSize(wreqs[k])
            /\ wreqs'[k].meta_off = wreqs[k].meta_off /\ wreqs'[k].body = wreqs[k].body
            /\ wreqs'[k].ref = wreqs[k].ref
  BY <1>1, FlushedInPlace
<1> HIDE DEF L
<1>3. ASSUME NEW k \in 1 .. L + 1 PROVE Position(wreqs', k) = Position(wreqs, k)
  <2>1. k \in Nat /\ \A j \in 1 .. k - 1 : j \in 1 .. L
    BY <1>1
  <2>2. \A j \in 1 .. k - 1 : MetaSize(wreqs'[j]) = MetaSize(wreqs[j])
    BY <1>2, <2>1
  <2> QED BY <2>1, <2>2, PositionSame
<1>4. mdsize = Position(wreqs, L + 1) /\ L + 1 \in 1 .. L + 1 /\ \A k \in 1 .. L : k \in 1 .. L + 1
  BY <1>1 DEF OffsetInv, L
<1>5. mdsize' = Position(wreqs', Len(wreqs') + 1)
  BY <1>2, <1>3, <1>4
<1>6. ASSUME NEW k \in 1 .. L PROVE wreqs'[k].meta_off = Position(wreqs', k)
  <2>1. wreqs[k].meta_off = Position(wreqs, k)
    BY <1>1 DEF OffsetInv
  <2> QED BY <1>2, <1>3, <1>4, <2>1
<1>7. ASSUME NEW t \in hash, t.writes # <<>>
      PROVE  \E k \in 1 .. L : /\ wreqs'[k].meta_off = t.meta_off /\ wreqs'[k].body = t.body
                               /\ ~wreqs'[k].ref
  <2>1. PICK k \in 1 .. L : /\ wreqs[k].meta_off = t.meta_off /\ wreqs[k].body = t.body
                            /\ ~wreqs[k].ref
    BY <1>1, <1>7 DEF OffsetInv, Queued
  <2> QED BY <1>2, <2>1
<1>8. \A d \in Dids : mreqs'[d] = <<>>
  BY <1>2 DEF OffsetInv
<1> QED BY <1>2, <1>5, <1>6, <1>7, <1>8 DEF OffsetInv, Queued

LEMMA FlushMetaOffsets ==
    ASSUME TypeInv, OffsetInv, FlushMeta
    PROVE  OffsetInv'
<1>1. wreqs' = <<>> /\ mdsize' = 0 /\ hash' = {} /\ mreqs' = mreqs
  BY DEF FlushMeta
<1>2. Position(<<>>, 1) = 0 /\ Len(<<>>) + 1 = 1 /\ DOMAIN (<<>>) = {}
  BY PositionFirst
<1>3. mdsize' = Position(wreqs', Len(wreqs') + 1)
  BY <1>1, <1>2
<1> QED BY <1>1, <1>2, <1>3 DEF OffsetInv, Queued

LEMMA StepOffsets ==
    ASSUME ~Merge, TypeInv, OffsetInv, [Next]_vars
    PROVE  OffsetInv'
<1>1. ASSUME NEW q \in Requests, Write(q) PROVE OffsetInv'
  BY <1>1, WriteOffsets
<1>2. ASSUME NEW q \in Requests, WriteRefused(q) PROVE OffsetInv'
  BY <1>2, WriteRefusedOffsets
<1>3. ASSUME NEW x \in Extents, SetExtent(x) PROVE OffsetInv'
  BY <1>3, SetExtentOffsets
<1>4. ASSUME NEW x \in Extents, SetExtentRefused(x) PROVE OffsetInv'
  <2>1. UNCHANGED <<hist, wreqs, mreqs, hash, mdsize, nflushed, dsteps, data, sections>>
    BY <1>4 DEF SetExtentRefused
  <2> QED BY <2>1 DEF OffsetInv, Queued
<1>5. CASE FlushData
  BY <1>5, FlushDataOffsets
<1>6. CASE FlushMeta
  BY <1>6, FlushMetaOffsets
<1>7. CASE UNCHANGED vars
  BY <1>7 DEF vars, OffsetInv, Queued
<1> QED BY <1>1, <1>2, <1>3, <1>4, <1>5, <1>6, <1>7 DEF Next

LEMMA InitOffsets == Init => OffsetInv
<1> SUFFICES ASSUME Init PROVE OffsetInv
  OBVIOUS
<1>1. wreqs = <<>> /\ hash = {} /\ mdsize = 0 /\ mreqs = [d \in Dids |-> <<>>]
  BY DEF Init
<1>2. Position(<<>>, 1) = 0 /\ Len(<<>>) + 1 = 1 /\ DOMAIN (<<>>) = {}
  BY PositionFirst
<1> QED BY <1>1, <1>2 DEF OffsetInv

\* The offset an entry computed its references with when it was queued is the
\* offset it has in the section, whatever else is queued, grown or refused
\* between, when entries are not merged (H5VL_log_wreq_t::H5VL_log_wreq_t,
\* fp->mdsize).
THEOREM OffsetsFixed ==
    ASSUME ~Merge
    PROVE  Spec => []OffsetsPredicted
<1>1. Init => OffsetInv
  BY InitOffsets
<1>2. TypeInv /\ OffsetInv /\ [Next]_vars => OffsetInv'
  BY StepOffsets
<1>3. OffsetInv => OffsetsPredicted
  BY OffsetsImply
<1> QED BY <1>1, <1>2, <1>3, TypesHold, PTL DEF Spec
-----------------------------------------------------------------------------
(***************************************************************************)
(* References land on the entry they were shared with                      *)
(***************************************************************************)
RefsQueued ==
    \A k \in DOMAIN wreqs : wreqs[k].ref =>
        \E j \in 1 .. k - 1 : /\ ~wreqs[j].ref
                              /\ wreqs[j].meta_off = wreqs[k].meta_off + wreqs[k].body[1]

\* Every entry in the hash stands for a write if no write is refused.
HashQueued == Refused = {} => \A t \in hash : t.writes # <<>>

LandInv == RefsQueued /\ HashQueued /\ RefsLand

LEMMA RefEntryBody ==
    ASSUME NEW n, NEW e \in EntryOf(n), NEW t
    PROVE  RefEntry(e, t).body = <<t.meta_off - mdsize>>
  BY DEF RefEntry, EntryOf

LEMMA WriteLands ==
    ASSUME TypeInv, OffsetInv, LandInv, ~Merge, ~Reuses \/ Refused = {},
           NEW q \in Requests, Write(q)
    PROVE  LandInv'
<1> DEFINE n == Len(hist)
           d == q.did
           sels == Sels(q)
           e == NewEntry(d, sels)
           r == SharedEntry(e)
           L == Len(wreqs)
<1>1. n \in Nat /\ sels # <<>> /\ MayWrite(sels, e)
  BY LenProperties DEF TypeInv, Write, MayWrite
<1>2. d \in Dids /\ sels \in Seq(BlockOf(d))
  BY ConvertedTypes
<1>3. hash' = hash \cup Hashed(e) /\ wreqs' = Append(wreqs, r) /\ sections' = sections
  BY DEF Write
<1> HIDE DEF d, sels
<1>4. e \in EntryOf(n + 1) /\ ~e.ref /\ e.meta_off = mdsize /\ e.writes # <<>>
  <2>1. Stepped /\ mdsize \in Nat
    BY DEF TypeInv
  <2> QED BY <1>1, <1>2, <2>1, NewEntryType
<1> HIDE DEF e
<1>5. hash \in SUBSET EntryOf(n) /\ mdsize \in Nat /\ wreqs \in Seq(EntryOf(n))
  BY DEF TypeInv
<1>6. r \in EntryOf(n + 1) /\ r.meta_off = mdsize
  <2> HIDE DEF n
  <2> QED BY <1>4, <1>5, SharedType, SharedOffset
<1>7. L \in Nat /\ DOMAIN wreqs = 1 .. L /\ wreqs \in Seq(EntryOf(n + 1))
  BY <1>1, <1>5, KeptTypes, LenProperties
<1>8. \A t \in Equal(e) : t \in hash /\ t.writes # <<>>
  <2>1. \A t \in Equal(e) : t \in hash
    BY DEF Equal
  <2>2. CASE ~Reuses
    BY <1>1, <2>1, <2>2 DEF MayWrite
  <2>3. CASE Refused = {}
    BY <2>1, <2>3 DEF LandInv, HashQueued
  <2> QED BY <2>2, <2>3
<1>9. r.ref => \E j \in 1 .. L : ~wreqs[j].ref /\ wreqs[j].meta_off = r.meta_off + r.body[1]
  <2> SUFFICES ASSUME r.ref
               PROVE  \E j \in 1 .. L : ~wreqs[j].ref /\ wreqs[j].meta_off = r.meta_off + r.body[1]
    OBVIOUS
  <2>1. Sharable(e) /\ Equal(e) # {}
    BY <1>4 DEF r, SharedEntry
  <2> DEFINE t == CHOOSE t \in Equal(e) : TRUE
  <2>2. t \in Equal(e)
    BY <2>1
  <2>3. r = RefEntry(e, t)
    BY <2>1 DEF r, SharedEntry
  <2> HIDE DEF t, r, n
  <2>4. t \in EntryOf(n) /\ t.writes # <<>> /\ t \in hash
    BY <1>5, <1>8, <2>2
  <2>5. r.body = <<t.meta_off - mdsize>>
    <3>1. mdsize \in Nat
      BY <1>5
    <3>2. e \in EntryOf(n + 1)
      BY <1>4
    <3>3. t \in EntryOf(n)
      BY <2>4
    <3>4. RefEntry(e, t).body = <<t.meta_off - mdsize>>
      BY <3>2, RefEntryBody
    <3> QED BY <2>3, <3>4
  <2>6. t.meta_off \in Nat /\ r.body[1] = t.meta_off - mdsize
    BY <2>4, <2>5 DEF EntryOf
  <2>7. PICK j \in 1 .. L : wreqs[j].meta_off = t.meta_off /\ ~wreqs[j].ref
    BY <1>7, <2>4 DEF OffsetInv, Queued
  <2>8. mdsize + (t.meta_off - mdsize) = t.meta_off
    BY <1>5, <2>6
  <2> QED BY <1>6, <2>6, <2>7, <2>8
<1> HIDE DEF r, L, n
<1>10. /\ DOMAIN wreqs' = 1 .. L + 1 /\ wreqs'[L + 1] = r /\ \A k \in 1 .. L : wreqs'[k] = wreqs[k]
  <2>1. /\ wreqs' \in Seq(EntryOf(n + 1)) /\ Len(wreqs') = L + 1
        /\ wreqs'[L + 1] = r /\ \A k \in 1 .. L : wreqs'[k] = wreqs[k]
    BY <1>3, <1>6, <1>7, AppendProperties DEF L
  <2> QED BY <2>1, LenProperties
<1>11. ASSUME NEW k \in 1 .. L + 1, wreqs'[k].ref
       PROVE  \E j \in 1 .. k - 1 : /\ ~wreqs'[j].ref
                                    /\ wreqs'[j].meta_off = wreqs'[k].meta_off + wreqs'[k].body[1]
  <2>1. CASE k = L + 1
    <3>1. PICK j \in 1 .. L : ~wreqs[j].ref /\ wreqs[j].meta_off = r.meta_off + r.body[1]
      BY <1>9, <1>10, <1>11, <2>1
    <3>2. j \in 1 .. k - 1
      BY <1>7, <2>1
    <3> QED BY <1>10, <2>1, <3>1, <3>2
  <2>2. CASE k # L + 1
    <3>1. k \in 1 .. L /\ \A j \in 1 .. k - 1 : j \in 1 .. L
      BY <1>7, <2>2
    <3>2. PICK j \in 1 .. k - 1 : /\ ~wreqs[j].ref
                                  /\ wreqs[j].meta_off = wreqs[k].meta_off + wreqs[k].body[1]
      BY <1>7, <1>10, <1>11, <3>1 DEF LandInv, RefsQueued
    <3> QED BY <1>10, <3>1, <3>2
  <2> QED BY <2>1, <2>2
<1>12. RefsQueued'
  BY <1>10, <1>11 DEF RefsQueued
<1>13. HashQueued'
  <2>1. \A t \in hash' : t \in hash \/ t = e
    BY <1>3 DEF Hashed
  <2> QED BY <1>4, <2>1 DEF LandInv, HashQueued
<1>14. RefsLand'
  BY <1>3 DEF LandInv, RefsLand
<1> QED BY <1>12, <1>13, <1>14 DEF LandInv

LEMMA FlushDataLands ==
    ASSUME TypeInv, OffsetInv, LandInv, FlushData
    PROVE  LandInv'
<1> DEFINE L == Len(wreqs)
<1>1. L \in Nat /\ DOMAIN wreqs = 1 .. L
  BY LenProperties DEF TypeInv
<1>2. /\ hash' = hash /\ sections' = sections /\ DOMAIN wreqs' = 1 .. L
      /\ \A k \in 1 .. L :
            /\ wreqs'[k].meta_off = wreqs[k].meta_off /\ wreqs'[k].body = wreqs[k].body
            /\ wreqs'[k].ref = wreqs[k].ref
  BY <1>1, FlushedInPlace
<1> HIDE DEF L
<1>3. ASSUME NEW k \in 1 .. L, wreqs'[k].ref
      PROVE  \E j \in 1 .. k - 1 : /\ ~wreqs'[j].ref
                                   /\ wreqs'[j].meta_off = wreqs'[k].meta_off + wreqs'[k].body[1]
  <2>1. \A j \in 1 .. k - 1 : j \in 1 .. L
    BY <1>1
  <2>2. PICK j \in 1 .. k - 1 : /\ ~wreqs[j].ref
                                /\ wreqs[j].meta_off = wreqs[k].meta_off + wreqs[k].body[1]
    BY <1>1, <1>2, <1>3 DEF LandInv, RefsQueued
  <2> QED BY <1>2, <2>1, <2>2
<1>4. RefsQueued'
  BY <1>2, <1>3 DEF RefsQueued
<1> QED BY <1>2, <1>4 DEF LandInv, HashQueued, RefsLand

\* A reference in a queue written as a section has its target there.
LEMMA FlushMetaLands ==
    ASSUME TypeInv, OffsetInv, LandInv, Unlinked = {}, FlushMeta
    PROVE  LandInv'
<1> DEFINE S == Seq(EntryOf(Len(hist)))
           m == Len(sections)
<1>1. sections' = Append(sections, wreqs) /\ wreqs' = <<>> /\ hash' = {}
  BY DEF FlushMeta
<1>2. wreqs \in S /\ sections \in Seq(S)
  BY DEF TypeInv
<1> HIDE DEF S
<1>3. /\ m \in Nat /\ DOMAIN sections = 1 .. m /\ DOMAIN sections' = 1 .. m + 1
      /\ sections'[m + 1] = wreqs /\ \A s \in 1 .. m : sections'[s] = sections[s]
  <2>1. /\ sections' \in Seq(S) /\ Len(sections') = m + 1
        /\ sections'[m + 1] = wreqs /\ \A s \in 1 .. m : sections'[s] = sections[s]
    BY <1>1, <1>2, AppendProperties
  <2> QED BY <1>2, <2>1, LenProperties
<1> HIDE DEF m
<1>4. ASSUME NEW k \in DOMAIN wreqs, wreqs[k].ref PROVE Target(wreqs, k) # {}
  <2>1. PICK j \in 1 .. k - 1 : /\ ~wreqs[j].ref
                                /\ wreqs[j].meta_off = wreqs[k].meta_off + wreqs[k].body[1]
    BY <1>4 DEF LandInv, RefsQueued
  <2>2. j \in DOMAIN wreqs
    <3>1. Len(wreqs) \in Nat /\ DOMAIN wreqs = 1 .. Len(wreqs)
      BY <1>2, LenProperties DEF S
    <3> QED BY <3>1
  <2>3. wreqs[j].meta_off = Position(wreqs, j) /\ wreqs[k].meta_off = Position(wreqs, k)
    BY <2>2 DEF OffsetInv
  <2>4. Kept(wreqs[j])
    BY DEF Kept
  <2>5. j \in Target(wreqs, k)
    BY <2>1, <2>3, <2>4 DEF Target
  <2> QED BY <2>5
<1>5. ASSUME NEW s \in 1 .. m + 1, NEW k \in DOMAIN sections'[s], sections'[s][k].ref
      PROVE  Target(sections'[s], k) # {}
  <2>1. CASE s = m + 1
    BY <1>3, <1>4, <1>5, <2>1
  <2>2. CASE s # m + 1
    <3>1. s \in 1 .. m
      BY <1>3, <2>2
    <3>2. sections'[s] = sections[s]
      BY <1>3, <3>1
    <3>3. Target(sections[s], k) # {}
      BY <1>3, <1>5, <3>1, <3>2 DEF LandInv, RefsLand
    <3> QED BY <3>2, <3>3
  <2> QED BY <2>1, <2>2
<1>6. RefsLand'
  BY <1>3, <1>5 DEF RefsLand
<1>7. RefsQueued' /\ HashQueued'
  BY <1>1 DEF RefsQueued, HashQueued
<1> QED BY <1>6, <1>7 DEF LandInv

LEMMA StepLands ==
    ASSUME ~Merge, Unlinked = {}, ~Reuses \/ Refused = {}, TypeInv, OffsetInv, LandInv, [Next]_vars
    PROVE  LandInv'
<1>1. ASSUME NEW q \in Requests, Write(q) PROVE LandInv'
  BY <1>1, WriteLands
<1>2. ASSUME NEW q \in Requests, WriteRefused(q) PROVE LandInv'
  <2>1. Refused # {} /\ wreqs' = wreqs /\ sections' = sections
    BY <1>2 DEF WriteRefused
  <2> QED BY <2>1 DEF LandInv, RefsQueued, HashQueued, RefsLand
<1>3. ASSUME NEW x \in Extents, SetExtent(x) PROVE LandInv'
  <2>1. wreqs' = wreqs
    BY <1>3, SetExtentOffsets
  <2>2. hash' = hash /\ sections' = sections
    BY <1>3 DEF SetExtent
  <2> QED BY <2>1, <2>2 DEF LandInv, RefsQueued, HashQueued, RefsLand
<1>4. ASSUME NEW x \in Extents, SetExtentRefused(x) PROVE LandInv'
  <2>1. wreqs' = wreqs /\ hash' = hash /\ sections' = sections
    BY <1>4 DEF SetExtentRefused
  <2> QED BY <2>1 DEF LandInv, RefsQueued, HashQueued, RefsLand
<1>5. CASE FlushData
  BY <1>5, FlushDataLands
<1>6. CASE FlushMeta
  BY <1>6, FlushMetaLands
<1>7. CASE UNCHANGED vars
  BY <1>7 DEF vars, LandInv, RefsQueued, HashQueued, RefsLand
<1> QED BY <1>1, <1>2, <1>3, <1>4, <1>5, <1>6, <1>7 DEF Next

\* With merging there are no references at all.
NoRefs ==
    /\ \A k \in DOMAIN wreqs : ~wreqs[k].ref
    /\ \A s \in DOMAIN sections : \A k \in DOMAIN sections[s] : ~sections[s][k].ref

LEMMA JoinedNoRefs ==
    ASSUME NEW n, NEW a \in Seq(EntryOf(n)), NEW b \in Seq(EntryOf(n)),
           \A k \in DOMAIN a : ~a[k].ref, \A k \in DOMAIN b : ~b[k].ref
    PROVE  \A k \in DOMAIN (a \o b) : ~(a \o b)[k].ref
<1>1. /\ Len(a) \in Nat /\ Len(b) \in Nat /\ DOMAIN a = 1 .. Len(a) /\ DOMAIN b = 1 .. Len(b)
      /\ DOMAIN (a \o b) = 1 .. Len(a) + Len(b)
  <2>1. a \o b \in Seq(EntryOf(n)) /\ Len(a \o b) = Len(a) + Len(b)
    BY ConcatProperties
  <2> QED BY <2>1, LenProperties
<1> SUFFICES ASSUME NEW k \in 1 .. Len(a) + Len(b) PROVE ~(a \o b)[k].ref
  BY <1>1
<1>2. (a \o b)[k] = IF k <= Len(a) THEN a[k] ELSE b[k - Len(a)]
  BY ConcatProperties
<1>3. CASE k <= Len(a)
  <2>1. k \in DOMAIN a
    BY <1>1, <1>3
  <2> QED BY <1>2, <1>3, <2>1
<1>4. CASE ~(k <= Len(a))
  <2>1. k - Len(a) \in DOMAIN b
    BY <1>1, <1>4
  <2> QED BY <1>2, <1>4, <2>1
<1> QED BY <1>3, <1>4

LEMMA MergedNoRefs ==
    ASSUME TypeInv
    PROVE  \A k \in DOMAIN AllMerged : ~AllMerged[k].ref
<1> DEFINE n == Len(hist)
           seqs == [d \in 1 .. NDset |-> mreqs[d - 1]]
<1>1. NDset \in Nat
  BY DatasetAssumption
<1>2. ASSUME NEW d \in 1 .. NDset PROVE seqs[d] \in Seq(MergedOf(n))
  <2>1. d - 1 \in Dids
    BY <1>1 DEF Dids
  <2> QED BY <2>1 DEF TypeInv
<1>3. seqs \in [1 .. NDset -> Seq(MergedOf(n))]
  BY <1>2
<1> HIDE DEF seqs, n
<1>4. seqs \in Seq(Seq(MergedOf(n)))
  BY <1>1, <1>3, SeqDef
<1>5. AllMerged \in Seq(MergedOf(n))
  BY <1>4, FlattenType DEF AllMerged, seqs
<1>6. \A k \in DOMAIN AllMerged : AllMerged[k] \in MergedOf(n)
  BY <1>5, LenProperties
<1> QED BY <1>6 DEF MergedOf

LEMMA StepNoRefs ==
    ASSUME Merge, TypeInv, NoRefs, [Next]_vars
    PROVE  NoRefs'
<1>1. ASSUME NEW q \in Requests, Write(q) PROVE NoRefs'
  <2>1. wreqs' = wreqs /\ sections' = sections
    BY <1>1 DEF Write
  <2> QED BY <2>1 DEF NoRefs
<1>2. ASSUME NEW q \in Requests, WriteRefused(q) PROVE NoRefs'
  <2>1. wreqs' = wreqs /\ sections' = sections
    BY <1>2 DEF WriteRefused
  <2> QED BY <2>1 DEF NoRefs
<1>3. ASSUME NEW x \in Extents, SetExtent(x) PROVE NoRefs'
  <2> DEFINE merged == IF Encode THEN mreqs[x.did] ELSE <<>>
             n == Len(hist)
  <2>1. wreqs' = wreqs \o merged /\ sections' = sections
    BY <1>3 DEF SetExtent
  <2>2. merged \in Seq(MergedOf(n))
    <3>1. x.did \in Dids
      BY DatasetAssumption
    <3>2. mreqs[x.did] \in Seq(MergedOf(n))
      BY <3>1 DEF TypeInv
    <3> QED BY <3>2
  <2> HIDE DEF merged
  <2>3. merged \in Seq(EntryOf(n)) /\ wreqs \in Seq(EntryOf(n))
    BY <2>2, SeqMonotonic DEF MergedOf, TypeInv
  <2>4. \A k \in DOMAIN merged : ~merged[k].ref
    <3>1. \A k \in DOMAIN merged : merged[k] \in MergedOf(n)
      BY <2>2, LenProperties
    <3> QED BY <3>1 DEF MergedOf
  <2>5. \A k \in DOMAIN wreqs : ~wreqs[k].ref
    BY DEF NoRefs
  <2>6. \A k \in DOMAIN (wreqs \o merged) : ~(wreqs \o merged)[k].ref
    BY <2>3, <2>4, <2>5, JoinedNoRefs
  <2> QED BY <2>1, <2>6 DEF NoRefs
<1>4. ASSUME NEW x \in Extents, SetExtentRefused(x) PROVE NoRefs'
  <2>1. wreqs' = wreqs /\ sections' = sections
    BY <1>4 DEF SetExtentRefused
  <2> QED BY <2>1 DEF NoRefs
<1>5. CASE FlushData
  <2> DEFINE reqs == wreqs \o AllMerged
             Foff(k) == Len(data) + SumFunction([j \in nflushed + 1 .. k - 1 |-> Len(EntryBytes(reqs[j]))])
             n == Len(hist)
  <2>1. /\ wreqs' = [k \in DOMAIN reqs |->
                      IF k > nflushed THEN [reqs[k] EXCEPT !.foff = Foff(k)] ELSE reqs[k]]
        /\ sections' = sections
    BY <1>5 DEF FlushData, AllMerged
  <2>2. wreqs \in Seq(EntryOf(n)) /\ AllMerged \in Seq(EntryOf(n))
    BY MergedTypes DEF TypeInv
  <2>3. \A k \in DOMAIN wreqs : ~wreqs[k].ref
    BY DEF NoRefs
  <2>4. \A k \in DOMAIN reqs : ~reqs[k].ref
    BY <2>2, <2>3, MergedNoRefs, JoinedNoRefs
  <2>5. reqs \in Seq(EntryOf(n))
    BY <2>2, ConcatProperties
  <2> HIDE DEF reqs, Foff
  <2>6. ASSUME NEW k \in DOMAIN reqs PROVE ~wreqs'[k].ref
    <3> DEFINE a == reqs[k]
    <3>1. a \in EntryOf(n) /\ ~a.ref
      BY <2>4, <2>5, LenProperties
    <3>2. wreqs'[k] = [a EXCEPT !.foff = Foff(k)] \/ wreqs'[k] = a
      BY <2>1
    <3> HIDE DEF a
    <3> QED BY <3>1, <3>2 DEF EntryOf
  <2>7. DOMAIN wreqs' = DOMAIN reqs
    BY <2>1
  <2> QED BY <2>1, <2>6, <2>7 DEF NoRefs
<1>6. CASE FlushMeta
  <2> DEFINE S == Seq(EntryOf(Len(hist)))
             m == Len(sections)
  <2>1. sections' = Append(sections, wreqs) /\ wreqs' = <<>>
    BY <1>6 DEF FlushMeta
  <2>2. wreqs \in S /\ sections \in Seq(S)
    BY DEF TypeInv
  <2> HIDE DEF S
  <2>3. /\ m \in Nat /\ DOMAIN sections = 1 .. m /\ DOMAIN sections' = 1 .. m + 1
        /\ sections'[m + 1] = wreqs /\ \A s \in 1 .. m : sections'[s] = sections[s]
    <3>1. /\ sections' \in Seq(S) /\ Len(sections') = m + 1
          /\ sections'[m + 1] = wreqs /\ \A s \in 1 .. m : sections'[s] = sections[s]
      BY <2>1, <2>2, AppendProperties
    <3> QED BY <2>2, <3>1, LenProperties
  <2> HIDE DEF m
  <2>4. ASSUME NEW s \in 1 .. m + 1, NEW k \in DOMAIN sections'[s] PROVE ~sections'[s][k].ref
    <3>1. CASE s = m + 1
      BY <2>3, <3>1 DEF NoRefs
    <3>2. CASE s # m + 1
      <4>1. s \in 1 .. m
        BY <2>3, <3>2
      <4> QED BY <2>3, <4>1 DEF NoRefs
    <3> QED BY <3>1, <3>2
  <2> QED BY <2>1, <2>3, <2>4 DEF NoRefs
<1>7. CASE UNCHANGED vars
  BY <1>7 DEF vars, NoRefs
<1> QED BY <1>1, <1>2, <1>3, <1>4, <1>5, <1>6, <1>7 DEF Next

\* A reference stands at the distance it states behind an entry of the same
\* section that has a selection of its own, whatever was queued, refused or
\* grown between, unless the dataset of that entry is not found when the file
\* is opened, or the entry is that of a refused write (doc/metadata_format.md,
\* ref_selection; H5VL_log_dataseti_write, wreq_hash).
THEOREM ReferencesLand ==
    ASSUME Unlinked = {}, ~Reuses \/ Refused = {}
    PROVE  Spec => []RefsLand
<1>1. CASE Merge
  <2>1. Init => NoRefs
    BY DEF Init, NoRefs
  <2>2. TypeInv /\ NoRefs /\ [Next]_vars => NoRefs'
    BY <1>1, StepNoRefs
  <2>3. NoRefs => RefsLand
    BY DEF NoRefs, RefsLand
  <2> QED BY <2>1, <2>2, <2>3, TypesHold, PTL DEF Spec
<1>2. CASE ~Merge
  <2>1. Init => OffsetInv
    BY InitOffsets
  <2>2. Init => LandInv
    BY DEF Init, LandInv, RefsQueued, HashQueued, RefsLand
  <2>3. TypeInv /\ OffsetInv /\ [Next]_vars => OffsetInv'
    BY <1>2, StepOffsets
  <2>4. TypeInv /\ OffsetInv /\ LandInv /\ [Next]_vars => LandInv'
    BY <1>2, StepLands
  <2>5. LandInv => RefsLand
    BY DEF LandInv
  <2> QED BY <2>1, <2>2, <2>3, <2>4, <2>5, TypesHold, PTL DEF Spec
<1> QED BY <1>1, <1>2
-----------------------------------------------------------------------------
(***************************************************************************)
(* Products, like the sums above: which factor is taken first does not     *)
(* matter, so the first or the last can be split off.                      *)
(***************************************************************************)
LEMMA ProductFolded ==
    ASSUME NEW D, IsFiniteSet(D), NEW fun \in [D -> Nat]
    PROVE  \E g \in [SUBSET D -> Nat] : MultipliesTo(fun, D, g) /\ NumElems(fun) = g[D]
<1> DEFINE step == [p \in D \X Nat |-> fun[p[1]] * p[2]]
<1>1. step \in [D \X Nat -> Nat] /\ 1 \in Nat
  <2>1. \A a, b \in Nat : a * b \in Nat
    OBVIOUS
  <2>2. ASSUME NEW p \in D \X Nat PROVE fun[p[1]] * p[2] \in Nat
    <3>1. fun[p[1]] \in Nat /\ p[2] \in Nat
      OBVIOUS
    <3> QED BY <2>1, <3>1
  <2> QED BY <2>2
<1>2. PICK g \in [SUBSET D -> Nat] : FoldsTo(D, 1, step, g)
  <2> HIDE DEF step
  <2> QED BY <1>1, FoldExists
<1>3. \A s \in SUBSET D : s # {} => Some(s) \in D /\ s \ {Some(s)} \in SUBSET D
  BY RestSmaller
<1>4. ASSUME NEW s \in SUBSET D
      PROVE  g[s] = IF s = {} THEN 1 ELSE fun[Some(s)] * g[s \ {Some(s)}]
  <2>1. g[s] = IF s = {} THEN 1 ELSE step[<<Some(s), g[s \ {Some(s)}]>>]
    BY <1>2 DEF FoldsTo
  <2>2. CASE s = {}
    BY <2>1, <2>2
  <2>3. CASE s # {}
    <3>1. <<Some(s), g[s \ {Some(s)}]>> \in D \X Nat
      BY <1>3, <2>3
    <3> QED BY <2>1, <2>3, <3>1
  <2> QED BY <2>2, <2>3
<1>5. MultipliesTo(fun, D, g)
  BY <1>4 DEF MultipliesTo
<1>6. DOMAIN fun = D
  OBVIOUS
<1>7. PICK f : MultipliesTo(fun, D, f) /\ NumElems(fun) = f[D]
  BY <1>5, <1>6, ProductIs
<1>8. \A s \in SUBSET D : f[s] = g[s]
  <2> DEFINE T == {s \in SUBSET D : f[s] = g[s]}
  <2>1. {} \in T
    BY <1>5, <1>7 DEF MultipliesTo
  <2>2. ASSUME NEW s \in SUBSET D, s # {}, s \ {Some(s)} \in T PROVE s \in T
    BY <1>5, <1>7, <2>2 DEF MultipliesTo
  <2>3. T \in SUBSET (SUBSET D)
    OBVIOUS
  <2> HIDE DEF T
  <2>4. \A s \in SUBSET D : s \in T
    BY <2>1, <2>2, <2>3, SetInduction
  <2> QED BY <2>4 DEF T
<1> QED BY <1>5, <1>7, <1>8

AnyFactor(fun, D, g) == \A s \in SUBSET D : \A y \in s : g[s] = fun[y] * g[s \ {y}]

LEMMA ProductAnyFirst ==
    ASSUME NEW D, IsFiniteSet(D), NEW fun \in [D -> Nat], NEW g \in [SUBSET D -> Nat],
           MultipliesTo(fun, D, g)
    PROVE  AnyFactor(fun, D, g)
<1> DEFINE Good(s) == \A y \in s : g[s] = fun[y] * g[s \ {y}]
           T == {n \in Nat : \A s \in SUBSET D : Cardinality(s) = n => Good(s)}
<1>1. \A s \in SUBSET D : IsFiniteSet(s) /\ Cardinality(s) \in Nat
  BY FS_Subset, FS_CardinalityType
<1>2. 0 \in T
  <2>1. \A s \in SUBSET D : Cardinality(s) = 0 => s = {}
    BY <1>1, FS_EmptySet
  <2> QED BY <2>1
<1>3. ASSUME NEW n \in T PROVE n + 1 \in T
  <2> SUFFICES ASSUME NEW s \in SUBSET D, Cardinality(s) = n + 1, NEW y \in s
               PROVE  g[s] = fun[y] * g[s \ {y}]
    OBVIOUS
  <2> DEFINE x == Some(s)
  <2>1. x \in s /\ g[s] = fun[x] * g[s \ {x}]
    BY RestSmaller DEF MultipliesTo
  <2>2. CASE x = y
    BY <2>1, <2>2
  <2>3. CASE x # y
    <3>1. \A e \in s : s \ {e} \in SUBSET D /\ Cardinality(s \ {e}) = n
      <4>1. \A e \in s : Cardinality(s \ {e}) = Cardinality(s) - 1
        BY <1>1, FS_RemoveElement
      <4> QED BY <4>1
    <3>2. Good(s \ {x}) /\ Good(s \ {y})
      BY <2>1, <3>1
    <3>3. y \in s \ {x} /\ x \in s \ {y} /\ (s \ {x}) \ {y} = (s \ {y}) \ {x}
      BY <2>1, <2>3
    <3> DEFINE r == (s \ {y}) \ {x}
    <3>4. g[s \ {x}] = fun[y] * g[r] /\ g[s \ {y}] = fun[x] * g[r]
      BY <3>2, <3>3
    <3>5. g[r] \in Nat /\ fun[x] \in Nat /\ fun[y] \in Nat
      BY <2>1
    <3>6. \A a, b, c \in Nat : a * (b * c) = b * (a * c)
      OBVIOUS
    <3> QED BY <2>1, <3>4, <3>5, <3>6
  <2> QED BY <2>2, <2>3
<1> HIDE DEF T
<1>4. \A n \in Nat : n \in T
  <2>1. T \in SUBSET Nat
    BY DEF T
  <2> QED BY <1>2, <1>3, <2>1, NumberInduction
<1> QED BY <1>1, <1>4 DEF T, AnyFactor

LEMMA ProductLast ==
    ASSUME NEW n \in Nat, NEW fun \in [1 .. n + 1 -> Nat]
    PROVE  NumElems(fun) = NumElems([j \in 1 .. n |-> fun[j]]) * fun[n + 1]
<1> DEFINE D == 1 .. n + 1
           C == 1 .. n
           low == [j \in C |-> fun[j]]
<1>1. IsFiniteSet(D) /\ IsFiniteSet(C) /\ C \subseteq D /\ D \ {n + 1} = C /\ n + 1 \in D
  <2>1. IsFiniteSet(D) /\ IsFiniteSet(C)
    <3>1. 1 \in Int /\ n \in Int /\ n + 1 \in Int
      OBVIOUS
    <3> QED BY <3>1, FS_Interval
  <2>2. C \subseteq D /\ D \ {n + 1} = C /\ n + 1 \in D
    OBVIOUS
  <2> QED BY <2>1, <2>2
<1>2. PICK g \in [SUBSET D -> Nat] : MultipliesTo(fun, D, g) /\ NumElems(fun) = g[D]
  BY <1>1, ProductFolded
<1>3. PICK h \in [SUBSET C -> Nat] : MultipliesTo(low, C, h) /\ NumElems(low) = h[C]
  <2>1. low \in [C -> Nat]
    BY <1>1
  <2> HIDE DEF C, D, low
  <2> QED BY <1>1, <2>1, ProductFolded
<1> HIDE DEF C, D
<1>4. g[D] = fun[n + 1] * g[C]
  <2>1. AnyFactor(fun, D, g)
    <3>1. fun \in [D -> Nat]
      BY DEF D
    <3>2. IsFiniteSet(D)
      BY <1>1
    <3>3. g \in [SUBSET D -> Nat]
      BY <1>2
    <3>4. MultipliesTo(fun, D, g)
      BY <1>2
    <3> QED BY <3>1, <3>2, <3>3, <3>4, ProductAnyFirst
  <2> QED BY <1>1, <2>1 DEF AnyFactor
<1>5. \A s \in SUBSET C : s \in {r \in SUBSET C : g[r] = h[r]}
  <2> DEFINE T == {r \in SUBSET C : g[r] = h[r]}
  <2>1. {} \in T
    BY <1>2, <1>3 DEF MultipliesTo
  <2>2. ASSUME NEW s \in SUBSET C, s # {}, s \ {Some(s)} \in T PROVE s \in T
    <3>1. Some(s) \in C
      BY <1>1, <2>2, RestSmaller
    <3>2. s \in SUBSET D /\ low[Some(s)] = fun[Some(s)]
      BY <1>1, <3>1
    <3>3. g[s] = fun[Some(s)] * g[s \ {Some(s)}]
      BY <1>2, <2>2, <3>2 DEF MultipliesTo
    <3>4. h[s] = low[Some(s)] * h[s \ {Some(s)}]
      BY <1>3, <2>2 DEF MultipliesTo
    <3> QED BY <2>2, <3>2, <3>3, <3>4
  <2>3. T \in SUBSET (SUBSET C)
    OBVIOUS
  <2> HIDE DEF T
  <2>4. \A s \in SUBSET C : s \in T
    <3>1. IsFiniteSet(C)
      BY <1>1
    <3>2. \A s \in SUBSET C : s # {} /\ s \ {Some(s)} \in T => s \in T
      BY <2>2
    <3> QED BY <2>1, <2>3, <3>1, <3>2, SetInduction
  <2> QED BY <2>4 DEF T
<1>6. g[C] = h[C] /\ h[C] \in Nat
  BY <1>5
<1>7. fun[n + 1] \in Nat
  BY <1>1 DEF D
<1>8. \A a, b \in Nat : a * b = b * a
  OBVIOUS
<1> QED BY <1>2, <1>3, <1>4, <1>6, <1>7, <1>8 DEF C

LEMMA ProductOfNone ==
    ASSUME NEW fun \in [1 .. 0 -> Nat]
    PROVE  NumElems(fun) = 1
<1>1. IsFiniteSet(1 .. 0) /\ 1 .. 0 = {}
  <2>1. 1 .. 0 = {}
    OBVIOUS
  <2> QED BY <2>1, FS_EmptySet
<1>2. PICK g \in [SUBSET (1 .. 0) -> Nat] : MultipliesTo(fun, 1 .. 0, g) /\ NumElems(fun) = g[1 .. 0]
  BY <1>1, ProductFolded
<1> QED BY <1>1, <1>2 DEF MultipliesTo

\* A product of numbers, without and with the first.
LEMMA ProductFirst ==
    ASSUME NEW n \in Nat, NEW fun \in [1 .. n + 1 -> Nat]
    PROVE  NumElems(fun) = fun[1] * NumElems([j \in 1 .. n |-> fun[j + 1]])
<1> DEFINE Good(m, f) == NumElems(f) = f[1] * NumElems([j \in 1 .. m |-> f[j + 1]])
           T == {m \in Nat : \A f \in [1 .. m + 1 -> Nat] : Good(m, f)}
<1>1. 0 \in T
  <2> SUFFICES ASSUME NEW f \in [1 .. 0 + 1 -> Nat] PROVE Good(0, f)
    OBVIOUS
  <2>1. NumElems(f) = NumElems([j \in 1 .. 0 |-> f[j]]) * f[0 + 1]
    <3>1. 0 \in Nat
      OBVIOUS
    <3> HIDE DEF T, Good
    <3> QED BY <3>1, ProductLast
  <2>2. NumElems([j \in 1 .. 0 |-> f[j]]) = 1 /\ NumElems([j \in 1 .. 0 |-> f[j + 1]]) = 1
    <3>1. [j \in 1 .. 0 |-> f[j]] \in [1 .. 0 -> Nat] /\ [j \in 1 .. 0 |-> f[j + 1]] \in [1 .. 0 -> Nat]
      OBVIOUS
    <3> QED BY <3>1, ProductOfNone
  <2>3. 0 + 1 = 1 /\ f[0 + 1] \in Nat
    OBVIOUS
  <2>4. \A a \in Nat : 1 * a = a * 1
    OBVIOUS
  <2> HIDE DEF T
  <2>5. NumElems(f) = f[1] * NumElems([j \in 1 .. 0 |-> f[j + 1]])
    BY <2>1, <2>2, <2>3, <2>4
  <2> QED BY <2>5
<1>2. ASSUME NEW m \in T PROVE m + 1 \in T
  <2> SUFFICES ASSUME NEW f \in [1 .. (m + 1) + 1 -> Nat] PROVE Good(m + 1, f)
    <3>1. m + 1 \in Nat
      OBVIOUS
    <3> HIDE DEF Good
    <3> QED BY <3>1
  <2> DEFINE low == [j \in 1 .. m + 1 |-> f[j]]
             up  == [j \in 1 .. m + 1 |-> f[j + 1]]
             mid == [j \in 1 .. m |-> f[j + 1]]
  <2>1. m \in Nat /\ low \in [1 .. m + 1 -> Nat] /\ up \in [1 .. m + 1 -> Nat] /\ mid \in [1 .. m -> Nat]
    OBVIOUS
  <2>2. NumElems(f) = NumElems(low) * f[(m + 1) + 1]
    <3> HIDE DEF T
    <3> QED BY <2>1, ProductLast
  <2>3. NumElems(low) = low[1] * NumElems([j \in 1 .. m |-> low[j + 1]])
    BY <2>1
  <2>4. [j \in 1 .. m |-> low[j + 1]] = mid /\ low[1] = f[1]
    BY <2>1
  <2>5. NumElems(up) = NumElems([j \in 1 .. m |-> up[j]]) * up[m + 1]
    <3> HIDE DEF T, up
    <3> QED BY <2>1, ProductLast
  <2>6. [j \in 1 .. m |-> up[j]] = mid /\ up[m + 1] = f[(m + 1) + 1]
    BY <2>1
  <2>7. NumElems(mid) \in Nat /\ f[1] \in Nat /\ f[(m + 1) + 1] \in Nat
    <3>1. IsFiniteSet(1 .. m)
      BY <2>1, FS_Interval
    <3>2. NumElems(mid) \in Nat
      <4> HIDE DEF mid
      <4> QED BY <2>1, <3>1, ProductType
    <3> QED BY <2>1, <3>2
  <2>8. \A a, b, c \in Nat : (a * b) * c = a * (b * c)
    OBVIOUS
  <2> HIDE DEF low, mid, T
  <2>9. NumElems(f) = f[1] * NumElems(up)
    <3>1. NumElems(f) = (f[1] * NumElems(mid)) * f[(m + 1) + 1]
      BY <2>2, <2>3, <2>4
    <3>2. NumElems(up) = NumElems(mid) * f[(m + 1) + 1]
      BY <2>5, <2>6
    <3> HIDE DEF up
    <3> QED BY <2>7, <2>8, <3>1, <3>2
  <2> QED BY <2>9
<1>3. T \in SUBSET Nat
  OBVIOUS
<1> HIDE DEF T
<1>4. n \in T
  BY <1>1, <1>2, <1>3, NumberInduction
<1> QED BY <1>4 DEF T

-----------------------------------------------------------------------------
(***************************************************************************)
(* Remainders: SelDecode divides by one step after the other.  The fold is *)
(* a recursive function over index sets that takes the largest first.      *)
(***************************************************************************)
Remains(steps, off, g) ==
    g = [s \in SUBSET (DOMAIN steps) |-> IF s = {} THEN off ELSE g[s \ {Max(s)}] % steps[Max(s)]]

Remainder(steps, off) == FoldLeft(LAMBDA rest, s : rest % s, off, steps)

LEMMA RemainderIs ==
    ASSUME NEW steps, NEW off, \E g : Remains(steps, off, g)
    PROVE  \E g : Remains(steps, off, g) /\ Remainder(steps, off) = g[DOMAIN steps]
  BY DEF Remainder, FoldLeft, MapThenFoldSet, Remains

\* The largest of the first k + 1 numbers.
LEMMA LargestOf ==
    ASSUME NEW k \in Nat
    PROVE  k + 1 \in 1 .. k + 1 /\ Max(1 .. k + 1) = k + 1 /\ (1 .. k + 1) \ {k + 1} = 1 .. k
<1>1. k + 1 \in 1 .. k + 1 /\ (1 .. k + 1) \ {k + 1} = 1 .. k
  OBVIOUS
<1>2. \A y \in 1 .. k + 1 : k + 1 >= y
  OBVIOUS
<1>3. \A x \in 1 .. k + 1 : (\A y \in 1 .. k + 1 : x >= y) => x = k + 1
  BY <1>1
<1>4. Max(1 .. k + 1) = k + 1
  BY <1>1, <1>2, <1>3 DEF Max
<1> QED BY <1>1, <1>4

LEMMA RemainsExists ==
    ASSUME NEW n \in Nat, NEW steps \in [1 .. n -> Nat \ {0}], NEW off \in Nat
    PROVE  \E g : Remains(steps, off, g)
<1> DEFINE D == 1 .. n
           step == [p \in D \X Nat |-> p[2] % steps[p[1]]]
           pick == [s \in SUBSET D |-> Max(s)]
<1>1. IsFiniteSet(D)
  BY FS_Interval
<1>2. Picks(pick, D)
  <2> SUFFICES ASSUME NEW s \in SUBSET D, s # {} PROVE Max(s) \in s
    BY DEF Picks
  <2> DEFINE Neg == {n - x : x \in s}
  <2>0. PICK e \in s : TRUE
    OBVIOUS
  <2>1. \E m \in s : \A y \in s : m >= y
    <3>1. Neg \in SUBSET Nat /\ Neg # {}
      <4>1. \A x \in s : x \in 1 .. n
        OBVIOUS
      <4>2. \A x \in s : n - x \in Nat
        BY <4>1
      <4> QED BY <2>0, <4>2
    <3>2. PICK m \in Neg : \A k \in Neg : m <= k
      <4> HIDE DEF Neg
      <4> QED BY <3>1, LeastOf
    <3>3. PICK x \in s : m = n - x
      BY <3>2
    <3>4. \A y \in s : n - x <= n - y
      BY <3>2, <3>3
    <3>5. \A y \in s : x >= y
      BY <3>4
    <3> QED BY <3>5
  <2> QED BY <2>1 DEF Max
<1>3. step \in [D \X Nat -> Nat]
  <2> SUFFICES ASSUME NEW p \in D \X Nat PROVE p[2] % steps[p[1]] \in Nat
    OBVIOUS
  <2>1. p[2] \in Nat /\ steps[p[1]] \in Nat \ {0}
    OBVIOUS
  <2>2. \A a \in Nat, b \in Nat \ {0} : a % b \in Nat
    OBVIOUS
  <2> QED BY <2>1, <2>2
<1>4. PICK g \in [SUBSET D -> Nat] : FoldsBy(D, off, step, pick, g)
  <2> HIDE DEF D, step, pick
  <2> QED BY <1>1, <1>2, <1>3, FoldExistsBy
<1>5. ASSUME NEW s \in SUBSET D PROVE g[s] = IF s = {} THEN off ELSE g[s \ {Max(s)}] % steps[Max(s)]
  <2>1. g[s] = IF s = {} THEN off ELSE step[<<pick[s], g[s \ {pick[s]}]>>]
    BY <1>4 DEF FoldsBy
  <2>2. s # {} => Max(s) \in D
    BY <1>2 DEF Picks
  <2>3. CASE s = {}
    BY <2>1, <2>3
  <2>4. CASE s # {}
    <3>1. <<Max(s), g[s \ {Max(s)}]>> \in D \X Nat
      BY <2>2, <2>4
    <3> QED BY <2>1, <2>4, <3>1
  <2> QED BY <2>3, <2>4
<1>6. DOMAIN steps = D
  OBVIOUS
<1> HIDE DEF D
<1>7. Remains(steps, off, g)
  BY <1>5, <1>6 DEF Remains
<1> QED BY <1>7

LEMMA NoStepLeft ==
    ASSUME NEW steps \in [1 .. 0 -> Nat \ {0}], NEW off \in Nat
    PROVE  Remainder(steps, off) = off
<1>1. PICK g : Remains(steps, off, g) /\ Remainder(steps, off) = g[DOMAIN steps]
  BY RemainsExists, RemainderIs
<1>2. DOMAIN steps = {}
  OBVIOUS
<1> QED BY <1>1, <1>2 DEF Remains

LEMMA OneStepMore ==
    ASSUME NEW n \in Nat, NEW steps \in [1 .. n + 1 -> Nat \ {0}], NEW off \in Nat
    PROVE  Remainder(steps, off) = Remainder([i \in 1 .. n |-> steps[i]], off) % steps[n + 1]
<1> DEFINE low == [i \in 1 .. n |-> steps[i]]
<1>1. low \in [1 .. n -> Nat \ {0}] /\ n + 1 \in Nat /\ DOMAIN low = 1 .. n /\ DOMAIN steps = 1 .. n + 1
  OBVIOUS
<1>2. PICK g : Remains(steps, off, g) /\ Remainder(steps, off) = g[1 .. n + 1]
  <2>1. \E g : Remains(steps, off, g)
    BY <1>1, RemainsExists
  <2> QED BY <1>1, <2>1, RemainderIs
<1>3. PICK h : Remains(low, off, h) /\ Remainder(low, off) = h[1 .. n]
  <2> HIDE DEF low
  <2>1. \E h : Remains(low, off, h)
    BY <1>1, RemainsExists
  <2> QED BY <1>1, <2>1, RemainderIs
<1> DEFINE T == {k \in Nat : k <= n => g[1 .. k] = h[1 .. k]}
<1>4. 0 \in T
  <2>1. 1 .. 0 = {}
    OBVIOUS
  <2>2. g[{}] = off /\ h[{}] = off
    BY <1>2, <1>3 DEF Remains
  <2> QED BY <2>1, <2>2
<1>5. ASSUME NEW k \in T PROVE k + 1 \in T
  <2> SUFFICES ASSUME k + 1 <= n PROVE g[1 .. k + 1] = h[1 .. k + 1]
    OBVIOUS
  <2>1. k \in Nat /\ g[1 .. k] = h[1 .. k]
    OBVIOUS
  <2>2. /\ 1 .. k + 1 \in SUBSET (1 .. n) /\ 1 .. k + 1 \in SUBSET (1 .. n + 1)
        /\ 1 .. k + 1 # {} /\ k + 1 \in 1 .. n
    <3>1. \A x \in 1 .. k + 1 : x \in 1 .. n /\ x \in 1 .. n + 1
      BY <2>1
    <3>2. k + 1 \in 1 .. k + 1
      BY <2>1
    <3> QED BY <3>1, <3>2
  <2>3. Max(1 .. k + 1) = k + 1 /\ (1 .. k + 1) \ {k + 1} = 1 .. k
    BY <2>1, LargestOf
  <2>4. g[1 .. k + 1] = g[1 .. k] % steps[k + 1]
    BY <1>1, <1>2, <2>2, <2>3 DEF Remains
  <2>5. h[1 .. k + 1] = h[1 .. k] % low[k + 1]
    <3> HIDE DEF low
    <3> QED BY <1>1, <1>3, <2>2, <2>3 DEF Remains
  <2>6. low[k + 1] = steps[k + 1]
    BY <2>2
  <2> QED BY <2>1, <2>4, <2>5, <2>6
<1>6. T \in SUBSET Nat
  OBVIOUS
<1>7. g[1 .. n] = h[1 .. n]
  <2> HIDE DEF T
  <2>1. n \in T
    BY <1>4, <1>5, <1>6, NumberInduction
  <2> QED BY <2>1 DEF T
<1>8. g[1 .. n + 1] = g[1 .. n] % steps[n + 1]
  <2>1. 1 .. n + 1 \in SUBSET (DOMAIN steps) /\ 1 .. n + 1 # {}
    BY <1>1
  <2>2. Max(1 .. n + 1) = n + 1 /\ (1 .. n + 1) \ {n + 1} = 1 .. n
    BY LargestOf
  <2> QED BY <1>2, <2>1, <2>2 DEF Remains
<1> QED BY <1>2, <1>3, <1>7, <1>8

-----------------------------------------------------------------------------
(***************************************************************************)
(* What SelEncode adds up, SelDecode divides out again.                    *)
(***************************************************************************)
LEMMA DivideOnce ==
    ASSUME NEW c \in Nat, NEW p \in Nat \ {0}, NEW r \in Nat, r < p
    PROVE  (c * p + r) \div p = c /\ (c * p + r) % p = r
<1> DEFINE a == c * p + r
           q == a \div p
           m == a % p
<1>1. a \in Nat /\ c * p \in Nat
  OBVIOUS
<1>2. q \in Int /\ m \in Nat /\ m < p /\ a = p * q + m
  <2> HIDE DEF a
  <2>1. \A x \in Nat, y \in Nat \ {0} : x \div y \in Int /\ x % y \in Nat /\ x % y < y /\ x = y * (x \div y) + (x % y)
    OBVIOUS
  <2> QED BY <1>1, <2>1
<1> HIDE DEF q, m
<1>3. p * c + r = p * q + m
  BY <1>1, <1>2
<1>4. ~(q > c)
  <2> SUFFICES ASSUME q >= c + 1 PROVE FALSE
    BY <1>2
  <2>1. p * q >= p * (c + 1)
    BY <1>2
  <2>2. p * (c + 1) = p * c + p
    OBVIOUS
  <2> QED BY <1>2, <1>3, <2>1, <2>2
<1>5. ~(q < c)
  <2> SUFFICES ASSUME c >= q + 1 PROVE FALSE
    BY <1>2
  <2>1. p * c >= p * (q + 1)
    BY <1>2
  <2>2. p * (q + 1) = p * q + p
    BY <1>2
  <2> QED BY <1>2, <1>3, <2>1, <2>2
<1>6. q = c
  BY <1>2, <1>4, <1>5
<1>7. m = r
  BY <1>2, <1>3, <1>6
<1> QED BY <1>6, <1>7 DEF q, m, a

\* Each step is the next one times the dimension between them.
LEMMA StepsDivide ==
    ASSUME NEW n \in Nat, NEW dims \in [1 .. n -> Nat], dims \in Seq(Nat)
    PROVE  /\ DSteps(dims) \in [1 .. n -> Nat]
           /\ n # 0 => DSteps(dims)[n] = 1
           /\ \A i \in 1 .. n - 1 : DSteps(dims)[i] = dims[i + 1] * DSteps(dims)[i + 1]
<1>1. Len(dims) = n /\ DOMAIN dims = 1 .. n
  BY LenProperties
<1> DEFINE rest(i) == [j \in 1 .. n - i |-> dims[i + j]]
<1>2. ASSUME NEW i \in 1 .. n PROVE SubSeq(dims, i + 1, n) = rest(i)
  <2>1. /\ i + 1 \in Int /\ n \in Int
        /\ \A j \in i + 1 .. n : dims[j] \in Nat
    OBVIOUS
  <2>2. i + 1 \in 1 .. n + 1
    OBVIOUS
  <2>3. SubSeq(dims, i + 1, n) = [j \in 1 .. (n - (i + 1)) + 1 |-> dims[(j + (i + 1)) - 1]]
    BY <1>1
  <2>4. (n - (i + 1)) + 1 = n - i /\ \A j \in 1 .. n - i : (j + (i + 1)) - 1 = i + j
    OBVIOUS
  <2> QED BY <2>3, <2>4
<1>3. ASSUME NEW i \in 1 .. n
      PROVE  rest(i) \in [1 .. n - i -> Nat] /\ n - i \in Nat /\ DSteps(dims)[i] = NumElems(rest(i))
  <2>1. n - i \in Nat /\ \A j \in 1 .. n - i : i + j \in 1 .. n
    OBVIOUS
  <2>2. rest(i) \in [1 .. n - i -> Nat]
    BY <2>1
  <2>3. DSteps(dims)[i] = NumElems(SubSeq(dims, i + 1, n))
    BY <1>1 DEF DSteps
  <2> QED BY <1>2, <2>1, <2>2, <2>3
<1>4. DSteps(dims) \in [1 .. n -> Nat]
  <2>1. ASSUME NEW i \in 1 .. n PROVE DSteps(dims)[i] \in Nat
    <3>1. IsFiniteSet(1 .. n - i)
      BY <1>3, FS_Interval
    <3> HIDE DEF rest
    <3> QED BY <1>3, <3>1, ProductType
  <2>2. DSteps(dims) = [i \in 1 .. n |-> DSteps(dims)[i]]
    BY <1>1 DEF DSteps
  <2> QED BY <2>1, <2>2
<1>5. ASSUME n # 0 PROVE DSteps(dims)[n] = 1
  <2>1. n \in 1 .. n /\ n - n = 0
    BY <1>5
  <2>2. rest(n) \in [1 .. 0 -> Nat] /\ DSteps(dims)[n] = NumElems(rest(n))
    BY <1>3, <2>1
  <2> HIDE DEF rest
  <2> QED BY <2>2, ProductOfNone
<1>6. ASSUME NEW i \in 1 .. n - 1 PROVE DSteps(dims)[i] = dims[i + 1] * DSteps(dims)[i + 1]
  <2> DEFINE m == n - (i + 1)
  <2>1. m \in Nat /\ n - i = m + 1 /\ i \in 1 .. n /\ i + 1 \in 1 .. n
    OBVIOUS
  <2>2. rest(i) \in [1 .. m + 1 -> Nat]
    BY <1>3, <2>1
  <2>3. NumElems(rest(i)) = rest(i)[1] * NumElems([j \in 1 .. m |-> rest(i)[j + 1]])
    <3> HIDE DEF rest, m
    <3> QED BY <2>1, <2>2, ProductFirst
  <2>4. rest(i)[1] = dims[i + 1]
    BY <2>1
  <2>5. [j \in 1 .. m |-> rest(i)[j + 1]] = rest(i + 1)
    <3>1. \A j \in 1 .. m : j + 1 \in 1 .. n - i /\ i + (j + 1) = (i + 1) + j
      BY <2>1
    <3> QED BY <3>1
  <2>6. DSteps(dims)[i] = NumElems(rest(i)) /\ DSteps(dims)[i + 1] = NumElems(rest(i + 1))
    BY <1>3, <2>1
  <2> QED BY <2>3, <2>4, <2>5, <2>6
<1> QED BY <1>4, <1>5, <1>6

\* The coordinates of a start or a count decode from the offset they are encoded
\* to, for any number of dimensions, if all but the first lie below their
\* dimension.  The hypothesis fails for a count that fills a dimension other
\* than the first (H5VL_logi_sel_encode, H5VL_logi_sel_decode; dsteps).
THEOREM EncodingInverts ==
    ASSUME NEW dims \in Seq(Nat), NEW cord \in [DOMAIN dims -> Nat],
           \A i \in DOMAIN dims \ {1} : cord[i] < dims[i]
    PROVE  /\ SelEncode(DSteps(dims), cord) \in Nat
           /\ SelDecode(DSteps(dims), SelEncode(DSteps(dims), cord)) = cord
<1> DEFINE n == Len(dims)
           P == DSteps(dims)
           part == [i \in 1 .. n |-> cord[i] * P[i]]
           Upto(k) == SumFunction([j \in 1 .. k |-> part[j]])
           Above(i) == Upto(n) - Upto(i)
           off == SelEncode(P, cord)
<1>1. /\ n \in Nat /\ DOMAIN dims = 1 .. n /\ dims \in [1 .. n -> Nat] /\ cord \in [1 .. n -> Nat]
      /\ \A i \in 2 .. n : cord[i] < dims[i]
  <2>1. n \in Nat /\ DOMAIN dims = 1 .. n /\ dims \in [1 .. n -> Nat]
    BY LenProperties
  <2>2. \A i \in 2 .. n : i \in 1 .. n /\ i # 1
    OBVIOUS
  <2> QED BY <2>1, <2>2
<1>2. /\ P \in [1 .. n -> Nat] /\ (n # 0 => P[n] = 1)
      /\ \A i \in 1 .. n - 1 : P[i] = dims[i + 1] * P[i + 1]
  <2> HIDE DEF n
  <2> QED BY <1>1, StepsDivide
<1> HIDE DEF P
<1>3. part \in [1 .. n -> Nat]
  <2>1. \A i \in 1 .. n : cord[i] \in Nat /\ P[i] \in Nat
    BY <1>1, <1>2
  <2>2. \A a, b \in Nat : a * b \in Nat
    OBVIOUS
  <2> QED BY <2>1, <2>2
<1>4. Upto(0) = 0 /\ off = Upto(n)
  <2>1. Upto(0) = 0
    <3>1. [j \in 1 .. 0 |-> part[j]] \in [1 .. 0 -> Int] /\ 1 .. 0 = {}
      OBVIOUS
    <3>2. IsFiniteSet(1 .. 0)
      BY <3>1, FS_EmptySet
    <3>3. PICK g \in [SUBSET (1 .. 0) -> Int] : SumsTo([j \in 1 .. 0 |-> part[j]], 1 .. 0, g) /\ Upto(0) = g[1 .. 0]
      <4> HIDE DEF part
      <4> QED BY <3>1, <3>2, SumFolded
    <3> QED BY <3>1, <3>3 DEF SumsTo
  <2>2. part = [i \in DOMAIN cord |-> cord[i] * P[i]] /\ [j \in 1 .. n |-> part[j]] = part
    BY <1>1
  <2> QED BY <2>1, <2>2 DEF SelEncode
<1>5. \A k \in 0 .. n : Upto(k) \in Nat
  <2> SUFFICES ASSUME NEW k \in 0 .. n PROVE Upto(k) \in Nat
    OBVIOUS
  <2>1. [j \in 1 .. k |-> part[j]] \in [1 .. k -> Nat]
    <3>1. \A j \in 1 .. k : j \in 1 .. n
      BY <1>1
    <3> HIDE DEF part
    <3> QED BY <1>3, <3>1
  <2>2. IsFiniteSet(1 .. k)
    BY <1>1, FS_Interval
  <2> HIDE DEF part
  <2> QED BY <2>1, <2>2, SumType
<1>6. ASSUME NEW k \in 1 .. n PROVE Upto(k) = Upto(k - 1) + cord[k] * P[k]
  <2> DEFINE m == k - 1
             fun == [j \in 1 .. m + 1 |-> part[j]]
  <2>1. m \in Nat /\ m + 1 = k
    BY <1>1
  <2>2. fun \in [1 .. m + 1 -> Int]
    <3>1. \A j \in 1 .. m + 1 : j \in 1 .. n
      BY <1>1, <2>1
    <3> HIDE DEF part, m
    <3>2. \A j \in 1 .. m + 1 : part[j] \in Int
      BY <1>3, <3>1
    <3> QED BY <3>2
  <2>3. SumFunction(fun) = SumFunction([j \in 1 .. m |-> fun[j]]) + fun[m + 1]
    <3> HIDE DEF fun, m
    <3> QED BY <2>1, <2>2, SumLast
  <2>4. [j \in 1 .. m |-> fun[j]] = [j \in 1 .. k - 1 |-> part[j]]
    BY <2>1
  <2>5. fun[m + 1] = cord[k] * P[k] /\ SumFunction(fun) = Upto(k)
    BY <2>1
  <2> QED BY <2>3, <2>4, <2>5
<1> HIDE DEF Upto, part, n, off
\* What is left after i coordinates is less than the step of the last of them.
<1>7. \A i \in 1 .. n : Above(i) \in Nat /\ Above(i) < P[i]
  <2> DEFINE T == {k \in Nat : k < n => /\ Above(n - k) \in Nat /\ Above(n - k) < P[n - k]}
  <2>1. 0 \in T
    <3>1. n - 0 = n
      BY <1>1
    <3>2. n # 0 => Above(n) = 0 /\ P[n] = 1
      BY <1>1, <1>2, <1>5
    <3> QED BY <3>1, <3>2, <1>1
  <2>2. ASSUME NEW k \in T PROVE k + 1 \in T
    <3> SUFFICES ASSUME k + 1 < n
                 PROVE  Above(n - (k + 1)) \in Nat /\ Above(n - (k + 1)) < P[n - (k + 1)]
      OBVIOUS
    <3> DEFINE i == n - k
    <3>1. k \in Nat /\ i \in 2 .. n /\ i - 1 \in 1 .. n - 1 /\ n - (k + 1) = i - 1 /\ (i - 1) + 1 = i
      BY <1>1
    <3>2. Above(i) \in Nat /\ Above(i) < P[i]
      <4>1. k < n => Above(n - k) \in Nat /\ Above(n - k) < P[n - k]
        OBVIOUS
      <4>2. k < n
        BY <1>1, <3>1
      <4> QED BY <4>1, <4>2
    <3> HIDE DEF i
    <3>3. /\ P[i - 1] = dims[i] * P[i] /\ P[i] \in Nat /\ dims[i] \in Nat /\ cord[i] \in Nat
          /\ cord[i] < dims[i]
      <4>1. P[i - 1] = dims[(i - 1) + 1] * P[(i - 1) + 1]
        BY <1>2, <3>1
      <4> QED BY <1>1, <1>2, <3>1, <4>1
    <3>4. Upto(i) = Upto(i - 1) + cord[i] * P[i] /\ Upto(i) \in Nat /\ Upto(i - 1) \in Nat /\ Upto(n) \in Nat
      <4>1. i \in 1 .. n /\ i \in 0 .. n /\ i - 1 \in 0 .. n /\ n \in 0 .. n
        BY <1>1, <3>1
      <4> QED BY <1>5, <1>6, <4>1
    <3>5. cord[i] * P[i] \in Nat
      BY <3>3
    <3>6. Above(i - 1) = cord[i] * P[i] + Above(i)
      BY <3>4, <3>5
    <3> HIDE DEF Above
    <3>7. (cord[i] + 1) * P[i] <= dims[i] * P[i] /\ (cord[i] + 1) * P[i] = cord[i] * P[i] + P[i]
      <4>1. \A a, b, c \in Nat : a < b => (a + 1) * c <= b * c
        <5> SUFFICES ASSUME NEW a \in Nat, NEW b \in Nat, NEW c \in Nat, a < b PROVE (a + 1) * c <= b * c
          OBVIOUS
        <5>1. b - (a + 1) \in Nat
          OBVIOUS
        <5>2. b * c = (a + 1) * c + (b - (a + 1)) * c /\ (b - (a + 1)) * c \in Nat
          BY <5>1
        <5> QED BY <5>2
      <4>2. \A a, c \in Nat : (a + 1) * c = a * c + c
        OBVIOUS
      <4> QED BY <3>3, <4>1, <4>2
    <3>8. dims[i] * P[i] \in Nat /\ (cord[i] + 1) * P[i] \in Nat
      BY <3>3
    <3>9. Above(i - 1) \in Nat /\ Above(i - 1) < P[i - 1]
      <4> DEFINE x == cord[i] * P[i]
                 y == (cord[i] + 1) * P[i]
                 z == dims[i] * P[i]
      <4>1. x \in Nat /\ y \in Nat /\ z \in Nat /\ y <= z /\ y = x + P[i]
        BY <3>5, <3>7, <3>8
      <4>2. P[i - 1] = z /\ P[i] \in Nat /\ Above(i - 1) = x + Above(i)
        BY <3>3, <3>6
      <4> HIDE DEF x, y, z
      <4> QED BY <3>2, <4>1, <4>2
    <3> QED BY <3>1, <3>9
  <2>3. T \in SUBSET Nat
    OBVIOUS
  <2> SUFFICES ASSUME NEW i \in 1 .. n PROVE Above(i) \in Nat /\ Above(i) < P[i]
    OBVIOUS
  <2>4. n - i \in Nat /\ n - i < n /\ n - (n - i) = i
    BY <1>1
  <2>5. n - i \in T
    <3> HIDE DEF T
    <3> QED BY <2>1, <2>2, <2>3, <2>4, NumberInduction
  <2> HIDE DEF Above
  <2>6. Above(n - (n - i)) \in Nat /\ Above(n - (n - i)) < P[n - (n - i)]
    <3> DEFINE k == n - i
    <3>1. k < n => Above(n - k) \in Nat /\ Above(n - k) < P[n - k]
      <4> HIDE DEF k
      <4> QED BY <2>5 DEF k
    <3> QED BY <2>4, <3>1
  <2> QED BY <2>4, <2>6
<1>8. \A i \in 1 .. n : P[i] \in Nat \ {0}
  <2> HIDE DEF Above
  <2>1. \A i \in 1 .. n : P[i] \in Nat
    BY <1>2
  <2>2. \A a, b \in Nat : a < b => b \in Nat \ {0}
    OBVIOUS
  <2> QED BY <1>7, <2>1, <2>2
<1>9. off \in Nat
  BY <1>1, <1>4, <1>5
<1> DEFINE Rest(k) == Remainder([i \in 1 .. k |-> P[i]], off)
<1>10. \A k \in 0 .. n : Rest(k) = Above(k)
  <2> DEFINE T == {k \in Nat : k <= n => Rest(k) = Above(k)}
  <2>1. 0 \in T
    <3>1. [i \in 1 .. 0 |-> P[i]] \in [1 .. 0 -> Nat \ {0}]
      OBVIOUS
    <3>2. Rest(0) = off
      <4> HIDE DEF Remainder
      <4> QED BY <1>9, <3>1, NoStepLeft
    <3>3. Above(0) = off
      BY <1>1, <1>4, <1>5
    <3> QED BY <3>2, <3>3
  <2>2. ASSUME NEW k \in T PROVE k + 1 \in T
    <3> SUFFICES ASSUME k + 1 <= n PROVE Rest(k + 1) = Above(k + 1)
      OBVIOUS
    <3> DEFINE steps == [i \in 1 .. k + 1 |-> P[i]]
    <3>1. k \in Nat /\ k + 1 \in 1 .. n /\ k \in 0 .. n /\ (k + 1) - 1 = k /\ Rest(k) = Above(k)
      BY <1>1
    <3>2. steps \in [1 .. k + 1 -> Nat \ {0}]
      BY <1>1, <1>8, <3>1
    <3>3. Remainder(steps, off) = Remainder([i \in 1 .. k |-> steps[i]], off) % steps[k + 1]
      <4> HIDE DEF steps, Remainder, T
      <4> QED BY <1>9, <3>1, <3>2, OneStepMore
    <3>4. [i \in 1 .. k |-> steps[i]] = [i \in 1 .. k |-> P[i]] /\ steps[k + 1] = P[k + 1]
      BY <3>1
    <3>5. Rest(k + 1) = Above(k) % P[k + 1]
      <4> HIDE DEF Remainder, Above
      <4> QED BY <3>1, <3>3, <3>4
    <3>6. Above(k) = cord[k + 1] * P[k + 1] + Above(k + 1)
      <4>1. Upto(k + 1) = Upto(k) + cord[k + 1] * P[k + 1]
        BY <1>6, <3>1
      <4>2. cord[k + 1] \in Nat /\ P[k + 1] \in Nat
        BY <1>1, <1>2, <3>1
      <4>3. cord[k + 1] * P[k + 1] \in Nat
        BY <4>2
      <4>4. Upto(k + 1) \in Nat /\ Upto(k) \in Nat /\ Upto(n) \in Nat
        <5>1. k + 1 \in 0 .. n /\ k \in 0 .. n /\ n \in 0 .. n
          BY <1>1, <3>1
        <5> QED BY <1>5, <5>1
      <4> QED BY <4>1, <4>4, <4>3
    <3>7. cord[k + 1] \in Nat /\ P[k + 1] \in Nat \ {0} /\ Above(k + 1) \in Nat /\ Above(k + 1) < P[k + 1]
      BY <1>1, <1>7, <1>8, <3>1
    <3> HIDE DEF Above, Rest
    <3>8. (cord[k + 1] * P[k + 1] + Above(k + 1)) % P[k + 1] = Above(k + 1)
      BY <3>7, DivideOnce
    <3> QED BY <3>5, <3>6, <3>8
  <2>3. T \in SUBSET Nat
    OBVIOUS
  <2> SUFFICES ASSUME NEW k \in 0 .. n PROVE Rest(k) = Above(k)
    OBVIOUS
  <2>4. k \in T
    <3>1. k \in Nat
      BY <1>1
    <3> HIDE DEF T
    <3> QED BY <2>1, <2>2, <2>3, <3>1, NumberInduction
  <2>5. k <= n
    BY <1>1
  <2> HIDE DEF Rest, Above
  <2> QED BY <2>4, <2>5
<1>11. ASSUME NEW i \in 1 .. n
       PROVE  Remainder(SubSeq(P, 1, i - 1), off) \div P[i] = cord[i]
  <2>1. i - 1 \in 0 .. n /\ i - 1 \in Nat /\ (i - 1) + 1 = i
    BY <1>1
  <2>2. SubSeq(P, 1, i - 1) = [j \in 1 .. i - 1 |-> P[j]]
    <3>1. ((i - 1) - 1) + 1 = i - 1 /\ \A j \in 1 .. i - 1 : (j + 1) - 1 = j
      BY <2>1
    <3> QED BY <2>1, <3>1
  <2>3. Remainder(SubSeq(P, 1, i - 1), off) = Above(i - 1)
    <3>1. Rest(i - 1) = Above(i - 1)
      BY <1>10, <2>1
    <3> QED BY <2>2, <3>1
  <2>4. Above(i - 1) = cord[i] * P[i] + Above(i)
    <3>1. Upto(i) = Upto(i - 1) + cord[i] * P[i]
      BY <1>6
    <3>2. Upto(i) \in Nat /\ Upto(i - 1) \in Nat /\ Upto(n) \in Nat
      <4>1. i \in 0 .. n /\ n \in 0 .. n
        BY <1>1
      <4> QED BY <1>5, <2>1, <4>1
    <3>3. cord[i] \in Nat /\ P[i] \in Nat
      BY <1>1, <1>2
    <3>4. cord[i] * P[i] \in Nat
      BY <3>3
    <3> QED BY <3>1, <3>2, <3>4
  <2>5. cord[i] \in Nat /\ P[i] \in Nat \ {0} /\ Above(i) \in Nat /\ Above(i) < P[i]
    BY <1>1, <1>7, <1>8
  <2> HIDE DEF Above
  <2>6. (cord[i] * P[i] + Above(i)) \div P[i] = cord[i]
    BY <2>5, DivideOnce
  <2> QED BY <2>3, <2>4, <2>6
<1>12. SelDecode(P, off) = [i \in 1 .. n |-> Remainder(SubSeq(P, 1, i - 1), off) \div P[i]]
  BY <1>2 DEF SelDecode, Remainder
<1>13. SelDecode(P, off) = cord
  <2> HIDE DEF Remainder
  <2> QED BY <1>1, <1>11, <1>12
<1> QED BY <1>9, <1>13 DEF off, P
-----------------------------------------------------------------------------
(***************************************************************************)
(* More of flattened sequences, and parts of sequences joined              *)
(***************************************************************************)
LEMMA FlattenLast ==
    ASSUME NEW T, NEW n \in Nat, NEW seqs \in [1 .. n + 1 -> Seq(T)]
    PROVE  FlattenSeq(seqs) = FlattenSeq([i \in 1 .. n |-> seqs[i]]) \o seqs[n + 1]
<1> DEFINE low == [i \in 1 .. n |-> seqs[i]]
<1>1. /\ seqs \in Seq(Seq(T)) /\ Len(seqs) = n + 1 /\ n + 1 # 0
      /\ low \in Seq(Seq(T)) /\ Len(low) = n /\ low \in [1 .. n -> Seq(T)]
  <2>1. \A i \in 1 .. n : i \in 1 .. n + 1
    OBVIOUS
  <2>2. low \in [1 .. n -> Seq(T)]
    BY <2>1
  <2>3. n + 1 \in Nat
    OBVIOUS
  <2> QED BY <2>2, <2>3, SeqDef, LenProperties
<1>2. PICK f : FlattensTo(seqs, n + 1, f) /\ FlattenSeq(seqs) = f[n + 1]
  <2>1. \E g : FlattensTo(seqs, n + 1, g)
    <3>1. n + 1 \in Nat
      OBVIOUS
    <3> QED BY <3>1, FlattenExists
  <2> QED BY <1>1, <2>1, FlattenIs
<1>3. CASE n = 0
  <2>1. f[n + 1] = seqs[n + 1]
    BY <1>2, <1>3 DEF FlattensTo
  <2>2. FlattenSeq(low) = low
    BY <1>1, <1>3 DEF FlattenSeq
  <2>3. low = <<>>
    BY <1>1, <1>3, EmptySeq
  <2>4. seqs[n + 1] \in Seq(T)
    OBVIOUS
  <2>5. <<>> \o seqs[n + 1] = seqs[n + 1]
    BY <2>4, ConcatEmptySeq
  <2> QED BY <1>2, <2>1, <2>2, <2>3, <2>5
<1>4. CASE n # 0
  <2>1. PICK h : FlattensTo(low, n, h) /\ FlattenSeq(low) = h[n]
    <3>1. \E g : FlattensTo(low, n, g)
      <4> HIDE DEF low
      <4> QED BY <1>1, FlattenExists
    <3> HIDE DEF low
    <3> QED BY <1>1, <1>4, <3>1, FlattenIs
  <2> DEFINE G == {k \in Nat : k \in 1 .. n => f[k] = h[k]}
  <2>2. 0 \in G
    OBVIOUS
  <2>3. ASSUME NEW k \in G PROVE k + 1 \in G
    <3> SUFFICES ASSUME k + 1 \in 1 .. n PROVE f[k + 1] = h[k + 1]
      OBVIOUS
    <3>1. k \in Nat /\ (k + 1) - 1 = k /\ (k + 1 # 1 => k \in 1 .. n) /\ k + 1 \in 1 .. n + 1
      OBVIOUS
    <3>2. k + 1 # 1 => f[k] = h[k]
      BY <3>1
    <3>3. low[k + 1] = seqs[k + 1]
      OBVIOUS
    <3>4. f[k + 1] = IF k + 1 = 1 THEN seqs[k + 1] ELSE f[(k + 1) - 1] \o seqs[k + 1]
      <4> HIDE DEF G, low
      <4> QED BY <1>2, <3>1 DEF FlattensTo
    <3>5. h[k + 1] = IF k + 1 = 1 THEN low[k + 1] ELSE h[(k + 1) - 1] \o low[k + 1]
      <4> HIDE DEF G, low
      <4> QED BY <2>1 DEF FlattensTo
    <3> HIDE DEF G, low
    <3> QED BY <3>1, <3>2, <3>3, <3>4, <3>5
  <2>4. G \in SUBSET Nat
    OBVIOUS
  <2>5. n \in G
    <3> HIDE DEF G
    <3> QED BY <2>2, <2>3, <2>4, NumberInduction
  <2>6. f[n] = h[n]
    BY <1>4, <2>5
  <2>7. f[n + 1] = f[n] \o seqs[n + 1]
    <3>1. n + 1 \in 1 .. n + 1 /\ n + 1 # 1 /\ (n + 1) - 1 = n
      BY <1>4
    <3> QED BY <1>2, <3>1 DEF FlattensTo
  <2>8. FlattenSeq(seqs) = FlattenSeq(low) \o seqs[n + 1]
    <3> HIDE DEF low
    <3> QED BY <1>2, <2>1, <2>6, <2>7
  <2> QED BY <2>8
<1> QED BY <1>3, <1>4

\* Sequences of one length: each is found again at its place.
AllOf(w, n, seqs) == \A k \in 1 .. n : Len(seqs[k]) = w
InPlace(w, n, seqs, s) == \A k \in 1 .. n : \A j \in 1 .. w : s[(k - 1) * w + j] = seqs[k][j]

LEMMA FlattenEven ==
    ASSUME NEW S, NEW w \in Nat, NEW n \in Nat, NEW seqs \in [1 .. n -> Seq(S)], AllOf(w, n, seqs)
    PROVE  /\ FlattenSeq(seqs) \in Seq(S) /\ Len(FlattenSeq(seqs)) = n * w
           /\ InPlace(w, n, seqs, FlattenSeq(seqs))
<1> USE DEF AllOf, InPlace
<1> DEFINE Even(m, f) == \A k \in 1 .. m : Len(f[k]) = w
           Placed(m, f) == /\ FlattenSeq(f) \in Seq(S) /\ Len(FlattenSeq(f)) = m * w
                           /\ \A k \in 1 .. m : \A j \in 1 .. w : FlattenSeq(f)[(k - 1) * w + j] = f[k][j]
           T == {m \in Nat : \A f \in [1 .. m -> Seq(S)] : Even(m, f) => Placed(m, f)}
<1>1. 0 \in T
  <2> SUFFICES ASSUME NEW f \in [1 .. 0 -> Seq(S)] PROVE Placed(0, f)
    OBVIOUS
  <2>1. f \in [1 .. 0 -> {<<>>}] /\ 1 .. 0 = {}
    OBVIOUS
  <2>2. FlattenSeq(f) = <<>>
    BY <2>1, FlattenNothing
  <2>3. <<>> \in Seq(S) /\ Len(<<>>) = 0
    BY EmptySeq
  <2> QED BY <2>1, <2>2, <2>3
<1>2. ASSUME NEW m \in T PROVE m + 1 \in T
  <2> SUFFICES ASSUME NEW f \in [1 .. m + 1 -> Seq(S)], Even(m + 1, f) PROVE Placed(m + 1, f)
    OBVIOUS
  <2> DEFINE low == [i \in 1 .. m |-> f[i]]
             a == FlattenSeq(low)
             b == f[m + 1]
  <2>1. m \in Nat /\ low \in [1 .. m -> Seq(S)] /\ b \in Seq(S) /\ Len(b) = w
    OBVIOUS
  <2>2. Even(m, low)
    OBVIOUS
  <2>3. Placed(m, low)
    BY <2>1, <2>2
  <2>4. FlattenSeq(f) = a \o b
    <3> HIDE DEF T
    <3> QED BY <2>1, FlattenLast
  <2>5. a \in Seq(S) /\ Len(a) = m * w
    BY <2>3
  <2> HIDE DEF T, Even, a, b
  <2>6. m * w \in Nat /\ (m + 1) * w = m * w + w
    BY <2>1
  <2>7. /\ a \o b \in Seq(S) /\ Len(a \o b) = m * w + w
        /\ \A i \in 1 .. m * w + w : (a \o b)[i] = IF i <= m * w THEN a[i] ELSE b[i - m * w]
    <3> DEFINE p == m * w
    <3>1. p \in Nat /\ Len(a) = p
      BY <2>5, <2>6
    <3> HIDE DEF p
    <3>2. a \o b \in Seq(S) /\ Len(a \o b) = p + w
      BY <2>1, <2>5, <3>1, ConcatProperties
    <3>3. \A i \in 1 .. p + w : (a \o b)[i] = IF i <= p THEN a[i] ELSE b[i - p]
      BY <2>1, <2>5, <3>1, ConcatProperties
    <3> QED BY <3>2, <3>3 DEF p
  <2>8. ASSUME NEW k \in 1 .. m + 1, NEW j \in 1 .. w
        PROVE  (a \o b)[(k - 1) * w + j] = f[k][j]
    <3>1. CASE k = m + 1
      <4>1. (k - 1) * w = m * w
        BY <2>1, <3>1
      <4>2. m * w + j \in 1 .. m * w + w /\ ~(m * w + j <= m * w) /\ (m * w + j) - m * w = j
        BY <2>6
      <4> QED BY <2>7, <3>1, <4>1, <4>2 DEF b
    <3>2. CASE k # m + 1
      <4>1. k \in 1 .. m
        BY <2>1, <3>2
      <4> DEFINE p == (k - 1) * w
      <4>2. p \in Nat /\ p + w <= m * w
        <5>1. k - 1 \in Nat /\ m - k \in Nat
          BY <2>1, <4>1
        <5>2. (k - 1) * w \in Nat /\ (m - k) * w \in Nat
          BY <5>1
        <5>3. m * w = (k - 1) * w + w + (m - k) * w
          BY <2>1, <4>1
        <5> QED BY <5>2, <5>3, <2>6
      <4> HIDE DEF p
      <4>3. p + j \in 1 .. m * w + w /\ p + j <= m * w
        BY <2>6, <4>2
      <4>4. (a \o b)[p + j] = a[p + j]
        BY <2>7, <4>3
      <4>5. a[p + j] = low[k][j]
        BY <2>3, <4>1 DEF a, p
      <4> QED BY <4>1, <4>4, <4>5 DEF p
    <3> QED BY <3>1, <3>2
  <2> QED BY <2>4, <2>6, <2>7, <2>8
<1>3. T \in SUBSET Nat
  OBVIOUS
<1> HIDE DEF T
<1>4. n \in T
  BY <1>1, <1>2, <1>3, NumberInduction
<1>5. Even(n, seqs)
  OBVIOUS
<1>6. Placed(n, seqs)
  BY <1>4, <1>5 DEF T
<1> QED BY <1>6

\* One sequence among empty ones.
\* Of these sequences only one may have elements.
OnlyOne(seqs, n, i) == \A k \in 1 .. n : k # i => seqs[k] = <<>>
FlattensToOne(seqs, i) == FlattenSeq(seqs) = seqs[i]

LEMMA FlattenOnly ==
    ASSUME NEW S, NEW n \in Nat, NEW seqs \in [1 .. n -> Seq(S)], NEW i \in 1 .. n,
           OnlyOne(seqs, n, i)
    PROVE  FlattensToOne(seqs, i)
<1>0. \A k \in 1 .. n : k # i => seqs[k] = <<>>
  BY DEF OnlyOne
<1> DEFINE low(m) == [k \in 1 .. m |-> seqs[k]]
           T == {m \in Nat : m \in i .. n => FlattenSeq(low(m)) = seqs[i]}
<1>1. 0 \in T
  OBVIOUS
<1>2. ASSUME NEW m \in T PROVE m + 1 \in T
  <2> SUFFICES ASSUME m + 1 \in i .. n PROVE FlattenSeq(low(m + 1)) = seqs[i]
    OBVIOUS
  <2>1. m \in Nat /\ low(m + 1) \in [1 .. m + 1 -> Seq(S)]
    <3>1. \A k \in 1 .. m + 1 : k \in 1 .. n
      OBVIOUS
    <3> QED BY <3>1
  <2>2. FlattenSeq(low(m + 1)) = FlattenSeq([k \in 1 .. m |-> low(m + 1)[k]]) \o low(m + 1)[m + 1]
    <3> HIDE DEF low, T
    <3> QED BY <2>1, FlattenLast
  <2>3. [k \in 1 .. m |-> low(m + 1)[k]] = low(m) /\ low(m + 1)[m + 1] = seqs[m + 1]
    BY <2>1
  <2>4. CASE m + 1 = i
    <3>1. \A k \in 1 .. m : k \in 1 .. n /\ k # i
      BY <2>4
    <3>2. low(m) \in [1 .. m -> {<<>>}]
      BY <1>0, <3>1
    <3>3. FlattenSeq(low(m)) = <<>>
      <4> HIDE DEF low, T
      <4> QED BY <2>1, <3>2, FlattenNothing
    <3>4. seqs[i] \in Seq(S)
      OBVIOUS
    <3>5. <<>> \o seqs[i] = seqs[i]
      BY <3>4, ConcatEmptySeq
    <3> HIDE DEF low, T
    <3> QED BY <2>2, <2>3, <2>4, <3>3, <3>5
  <2>5. CASE m + 1 # i
    <3>1. m \in i .. n /\ m + 1 \in 1 .. n
      BY <2>1, <2>5
    <3>2. FlattenSeq(low(m)) = seqs[i]
      BY <3>1
    <3>3. seqs[m + 1] = <<>>
      BY <1>0, <2>5, <3>1
    <3>4. seqs[i] \in Seq(S)
      OBVIOUS
    <3>5. seqs[i] \o <<>> = seqs[i]
      BY <3>4, ConcatEmptySeq
    <3> HIDE DEF low, T
    <3> QED BY <2>2, <2>3, <3>2, <3>3, <3>5
  <2> QED BY <2>4, <2>5
<1>3. T \in SUBSET Nat
  OBVIOUS
<1>4. n \in T
  <2> HIDE DEF T
  <2> QED BY <1>1, <1>2, <1>3, NumberInduction
<1>5. low(n) = seqs
  OBVIOUS
<1> HIDE DEF low
<1> QED BY <1>4, <1>5 DEF FlattensToOne

LEMMA AfterFirst ==
    ASSUME NEW S, NEW x \in S, NEW s \in Seq(S)
    PROVE  /\ <<x>> \o s \in Seq(S) /\ <<x>> \o s # <<>>
           /\ (<<x>> \o s)[1] = x /\ Tail(<<x>> \o s) = s /\ Len(<<x>> \o s) = Len(s) + 1
<1> DEFINE t == <<x>> \o s
<1>1. <<x>> \in Seq(S) /\ Len(<<x>>) = 1 /\ <<x>>[1] = x /\ Len(s) \in Nat
  BY LenProperties
<1>2. /\ t \in Seq(S) /\ Len(t) = 1 + Len(s)
      /\ \A i \in 1 .. 1 + Len(s) : t[i] = IF i <= 1 THEN <<x>>[i] ELSE s[i - 1]
  BY <1>1, ConcatProperties
<1> HIDE DEF t
<1>3. t[1] = x /\ t # <<>>
  <2>1. 1 \in 1 .. 1 + Len(s) /\ 1 + Len(s) # 0
    BY <1>1
  <2> QED BY <1>1, <1>2, <2>1, EmptySeq
<1>4. Tail(t) = s
  <2>1. /\ Tail(t) \in Seq(S) /\ Len(Tail(t)) = Len(t) - 1
        /\ \A i \in 1 .. Len(Tail(t)) : Tail(t)[i] = t[i + 1]
    BY <1>2, <1>3, HeadTailProperties
  <2>2. Len(Tail(t)) = Len(s)
    BY <1>1, <1>2, <2>1
  <2>3. ASSUME NEW i \in 1 .. Len(s) PROVE Tail(t)[i] = s[i]
    <3>1. i + 1 \in 1 .. 1 + Len(s) /\ ~(i + 1 <= 1) /\ (i + 1) - 1 = i
      BY <1>1
    <3> QED BY <1>2, <2>1, <2>2, <3>1
  <2> QED BY <2>1, <2>2, <2>3, SeqEqual
<1>5. Len(t) = Len(s) + 1
  BY <1>1, <1>2
<1> QED BY <1>2, <1>3, <1>4, <1>5 DEF t

\* A part of a sequence.
LEMMA PartIs ==
    ASSUME NEW S, NEW s \in Seq(S), NEW q \in Nat, NEW w \in Nat, q + w <= Len(s),
           NEW c \in Seq(S), Len(c) = w, \A j \in 1 .. w : s[q + j] = c[j]
    PROVE  SubSeq(s, q + 1, q + w) = c
<1>1. Len(s) \in Nat /\ s \in [1 .. Len(s) -> S] /\ c \in [1 .. w -> S]
  BY LenProperties
<1>2. \A j \in 1 .. w : q + j \in 1 .. Len(s)
  BY <1>1
<1>3. SubSeq(s, q + 1, q + w) = [j \in 1 .. w |-> s[q + j]]
  <2>1. ((q + w) - (q + 1)) + 1 = w /\ \A j \in 1 .. w : (j + (q + 1)) - 1 = q + j
    OBVIOUS
  <2> QED BY <1>1, <1>2, <2>1
<1>4. [j \in 1 .. w |-> s[q + j]] = c
  BY <1>1
<1> QED BY <1>3, <1>4

\* What is where in two sequences, one after the other.
BothIn(p, r, a, b, s) == (\A i \in 1 .. p : s[i] = a[i]) /\ (\A i \in 1 .. r : s[p + i] = b[i])

LEMMA TwoParts ==
    ASSUME NEW S, NEW p, NEW r, NEW a \in Seq(S), NEW b \in Seq(S), Len(a) = p, Len(b) = r,
           NEW s, s = a \o b
    PROVE  s \in Seq(S) /\ Len(s) = p + r /\ BothIn(p, r, a, b, s)
<1>1. p \in Nat /\ r \in Nat
  BY LenProperties
<1>2. /\ a \o b \in Seq(S) /\ Len(a \o b) = Len(a) + Len(b)
      /\ \A i \in 1 .. Len(a) + Len(b) : (a \o b)[i] = IF i <= Len(a) THEN a[i] ELSE b[i - Len(a)]
  BY ConcatProperties
<1>3. /\ s \in Seq(S) /\ Len(s) = p + r
      /\ \A i \in 1 .. p + r : s[i] = IF i <= p THEN a[i] ELSE b[i - p]
  BY <1>2
<1>4. \A i \in 1 .. p : i \in 1 .. p + r /\ i <= p
  BY <1>1
<1>5. \A i \in 1 .. r : p + i \in 1 .. p + r /\ ~(p + i <= p) /\ (p + i) - p = i
  BY <1>1
<1>6. \A i \in 1 .. p : s[i] = a[i]
  BY <1>3, <1>4
<1>7. \A i \in 1 .. r : s[p + i] = b[i]
  BY <1>3, <1>5
<1> QED BY <1>3, <1>6, <1>7 DEF BothIn

\* Two lists of coordinates, all of one length, one list after the other.
TwoListsAt(S, w, n, a, b, s) ==
    /\ s \in Seq(S) /\ Len(s) = n * w + n * w
    /\ \A k \in 1 .. n :
                      /\ SubSeq(s, (k - 1) * w + 1, k * w) = a[k]
                      /\ SubSeq(s, (n + k - 1) * w + 1, (n + k) * w) = b[k]

LEMMA TwoLists ==
    ASSUME NEW S, NEW w \in Nat, NEW n \in Nat, NEW a \in [1 .. n -> Seq(S)], NEW b \in [1 .. n -> Seq(S)],
           AllOf(w, n, a), AllOf(w, n, b),
           NEW s, s = FlattenSeq(a) \o FlattenSeq(b)
    PROVE  TwoListsAt(S, w, n, a, b, s)
<1> DEFINE p == n * w
           fa == FlattenSeq(a)
           fb == FlattenSeq(b)
<1>1. fa \in Seq(S) /\ Len(fa) = p /\ InPlace(w, n, a, fa)
  BY FlattenEven
<1>2. fb \in Seq(S) /\ Len(fb) = p /\ InPlace(w, n, b, fb)
  BY FlattenEven
<1>3. p \in Nat /\ s = fa \o fb
  OBVIOUS
<1>6. ASSUME NEW k \in 1 .. n
      PROVE  /\ (k - 1) * w \in Nat /\ k * w = (k - 1) * w + w /\ (k - 1) * w + w <= p
             /\ (n + k - 1) * w = p + (k - 1) * w /\ (n + k) * w = p + (k - 1) * w + w
  <2>1. k - 1 \in Nat /\ n - k \in Nat
    OBVIOUS
  <2>2. (k - 1) * w \in Nat /\ (n - k) * w \in Nat
    BY <2>1
  <2>3. k * w = (k - 1) * w + w /\ p = (k - 1) * w + w + (n - k) * w
    BY DEF p
  <2>4. (n + k - 1) * w = p + (k - 1) * w /\ (n + k) * w = p + (k - 1) * w + w
    BY DEF p
  <2> QED BY <1>3, <2>2, <2>3, <2>4
<1>10. Len(s) = n * w + n * w => Len(s) = p + p
  OBVIOUS
<1> HIDE DEF p, fa, fb
<1>4. s \in Seq(S) /\ Len(s) = p + p /\ BothIn(p, p, fa, fb, s)
  BY <1>1, <1>2, <1>3, TwoParts
<1>8. ASSUME NEW k \in 1 .. n
      PROVE  /\ SubSeq(s, (k - 1) * w + 1, k * w) = a[k]
             /\ SubSeq(s, (n + k - 1) * w + 1, (n + k) * w) = b[k]
  <2> DEFINE q == (k - 1) * w
  <2>1. q \in Nat /\ k * w = q + w /\ q + w <= p /\ (n + k - 1) * w = p + q /\ (n + k) * w = p + q + w
    BY <1>6
  <2>2. \A j \in 1 .. w : fa[q + j] = a[k][j] /\ fb[q + j] = b[k][j]
    BY <1>1, <1>2 DEF InPlace
  <2>6. a[k] \in Seq(S) /\ Len(a[k]) = w /\ b[k] \in Seq(S) /\ Len(b[k]) = w
    BY DEF AllOf
  <2> HIDE DEF q
  <2>3. ASSUME NEW j \in 1 .. w PROVE s[q + j] = a[k][j] /\ s[(p + q) + j] = b[k][j]
    <3>1. q + j \in 1 .. p /\ (p + q) + j = p + (q + j)
      BY <1>3, <2>1
    <3>2. s[q + j] = fa[q + j] /\ s[p + (q + j)] = fb[q + j]
      BY <1>4, <3>1 DEF BothIn
    <3> QED BY <2>2, <3>1, <3>2
  <2>4. SubSeq(s, q + 1, q + w) = a[k]
    <3>1. q + w <= Len(s)
      BY <1>3, <1>4, <2>1
    <3>2. \A j \in 1 .. w : s[q + j] = a[k][j]
      BY <2>3
    <3> QED BY <1>4, <2>1, <2>6, <3>1, <3>2, PartIs
  <2>5. SubSeq(s, (p + q) + 1, (p + q) + w) = b[k]
    <3>1. p + q \in Nat /\ (p + q) + w <= Len(s)
      BY <1>3, <1>4, <2>1
    <3>2. \A j \in 1 .. w : s[(p + q) + j] = b[k][j]
      BY <2>3
    <3> DEFINE m == p + q
    <3>3. m \in Nat /\ m + w <= Len(s)
      BY <3>1
    <3>4. \A j \in 1 .. w : s[m + j] = b[k][j]
      BY <3>2
    <3> HIDE DEF m
    <3>5. SubSeq(s, m + 1, m + w) = b[k]
      BY <1>4, <2>6, <3>3, <3>4, PartIs
    <3> QED BY <3>5 DEF m
  <2>7. p + q + w = (p + q) + w
    OBVIOUS
  <2> QED BY <2>1, <2>4, <2>5, <2>7 DEF q
<1> QED BY <1>4, <1>8 DEF TwoListsAt, p

\* Two lists of single words behind some others.
TwoRowsAt(S, m, n, front, f, g, s) ==
    /\ s \in Seq(S) /\ Len(s) = m + (n + n) /\ SubSeq(s, 1, m) = front
    /\ \A k \in 1 .. n : s[m + k] = f[k] /\ s[m + (n + k)] = g[k]

LEMMA TwoRows ==
    ASSUME NEW S, NEW n \in Nat, NEW f \in [1 .. n -> S], NEW g \in [1 .. n -> S], NEW front \in Seq(S),
           NEW m, Len(front) = m,
           NEW u, u = FlattenSeq([k \in 1 .. n |-> <<f[k]>>]) \o FlattenSeq([k \in 1 .. n |-> <<g[k]>>]),
           NEW s, s = front \o u
    PROVE  TwoRowsAt(S, m, n, front, f, g, s)
<1> DEFINE a == [k \in 1 .. n |-> <<f[k]>>]
           b == [k \in 1 .. n |-> <<g[k]>>]
           fa == FlattenSeq(a)
           fb == FlattenSeq(b)
<1>1. /\ a \in [1 .. n -> Seq(S)] /\ b \in [1 .. n -> Seq(S)] /\ m \in Nat
      /\ \A k \in 1 .. n : Len(a[k]) = 1 /\ Len(b[k]) = 1 /\ a[k][1] = f[k] /\ b[k][1] = g[k]
  BY LenProperties
<1>0. u = fa \o fb
  OBVIOUS
<1> HIDE DEF a, b
<1>12. AllOf(1, n, a) /\ AllOf(1, n, b)
  BY <1>1 DEF AllOf
<1>2. fa \in Seq(S) /\ Len(fa) = n * 1 /\ InPlace(1, n, a, fa)
  BY <1>1, <1>12, FlattenEven
<1>3. fb \in Seq(S) /\ Len(fb) = n * 1 /\ InPlace(1, n, b, fb)
  BY <1>1, <1>12, FlattenEven
<1>13. n * 1 = n
  OBVIOUS
<1> HIDE DEF fa, fb
<1>4. \A k \in 1 .. n : fa[k] = f[k] /\ fb[k] = g[k]
  <2> SUFFICES ASSUME NEW k \in 1 .. n PROVE fa[k] = f[k] /\ fb[k] = g[k]
    OBVIOUS
  <2>1. (k - 1) * 1 + 1 = k /\ 1 \in 1 .. 1
    OBVIOUS
  <2>2. fa[(k - 1) * 1 + 1] = a[k][1] /\ fb[(k - 1) * 1 + 1] = b[k][1]
    BY <1>2, <1>3, <2>1 DEF InPlace
  <2> QED BY <1>1, <2>1, <2>2
<1>5. u \in Seq(S) /\ Len(u) = n + n /\ BothIn(n, n, fa, fb, u)
  BY <1>0, <1>2, <1>3, <1>13, TwoParts
<1>7. s \in Seq(S) /\ Len(s) = m + (n + n) /\ BothIn(m, n + n, front, u, s)
  <2>1. m \in Nat /\ n + n \in Nat
    BY <1>1
  <2>2. u \in Seq(S) /\ Len(u) = n + n
    BY <1>5
  <2>3. s \in Seq(S)
    BY <2>1, <2>2, TwoParts
  <2>4. Len(s) = m + (n + n)
    <3>1. Len(s) = Len(front) + Len(u)
      BY <2>2, ConcatProperties
    <3> QED BY <2>2, <3>1
  <2>5. BothIn(m, n + n, front, u, s)
    BY <2>1, <2>2, TwoParts
  <2> QED BY <2>3, <2>4, <2>5
<1>8. SubSeq(s, 1, m) = front
  <2>1. \A i \in 1 .. m : s[0 + i] = front[i]
    BY <1>7 DEF BothIn
  <2>2. 0 + m <= Len(s) /\ 0 \in Nat
    BY <1>1, <1>7
  <2>3. SubSeq(s, 0 + 1, 0 + m) = front
    BY <1>1, <1>7, <2>1, <2>2, PartIs
  <2>4. 0 + 1 = 1 /\ 0 + m = m
    BY <1>1
  <2> QED BY <2>3, <2>4
<1>9. ASSUME NEW k \in 1 .. n PROVE s[m + k] = f[k] /\ s[m + (n + k)] = g[k]
  <2>1. k \in 1 .. n + n /\ n + k \in 1 .. n + n
    OBVIOUS
  <2>2. s[m + k] = u[k] /\ s[m + (n + k)] = u[n + k]
    BY <1>7, <2>1 DEF BothIn
  <2>3. u[k] = fa[k] /\ u[n + k] = fb[k]
    BY <1>5 DEF BothIn
  <2> QED BY <1>4, <2>2, <2>3
<1> QED BY <1>7, <1>8, <1>9 DEF TwoRowsAt
-----------------------------------------------------------------------------
(***************************************************************************)
(* What Decode makes of an entry                                           *)
(***************************************************************************)
Words(e) == IF e.mul THEN Tail(e.body) ELSE e.body
Num(e)   == IF e.mul THEN e.body[1] ELSE 1
Wide(e)  == Width(e.did, e.rec)
CordAt(e, k) ==
    IF e.enc THEN SelDecode(Append(SubSeq(Words(e), 1, Wide(e) - 1), 1), Words(e)[Wide(e) - 1 + k])
    ELSE SubSeq(Words(e), (k - 1) * Wide(e) + 1, k * Wide(e))
Lead(rec, x) == IF rec THEN <<x>> ELSE <<>>

LEMMA DecodeIs ==
    ASSUME NEW e, e.did \in Dids, e.rec \in BOOLEAN, e.rec => e.did \in Record
    PROVE  Decode(e) = [k \in 1 .. Num(e) |-> [start |-> Lead(e.rec, e.recnum) \o CordAt(e, k),
                                               count |-> Lead(e.rec, 1) \o CordAt(e, Num(e) + k)]]
<1>1. Len(Inner(Dims[e.did], e.rec)) = Wide(e)
  <2>1. Dims[e.did] \in CordsOf(e.did)
    BY DimsDomain
  <2> QED BY <2>1, InnerTypes DEF Wide
<1> QED BY <1>1 DEF Decode, Num, Words, CordAt, Lead

LEMMA Restored ==
    ASSUME NEW d \in Dids, NEW rec \in BOOLEAN, rec => d \in Record, NEW cord \in CordsOf(d), NEW x,
           rec => cord[1] = x
    PROVE  Lead(rec, x) \o Inner(cord, rec) = cord
<1>1. /\ cord \in Seq(Nat) /\ Len(cord) = Len(Dims[d]) /\ (rec => Len(cord) # 0)
  <2>1. Len(Dims[d]) \in Nat /\ cord \in [1 .. Len(Dims[d]) -> Nat] /\ (d \in Record => Len(Dims[d]) # 0)
    BY DimsDomain
  <2> QED BY <2>1
<1>2. CASE ~rec
  BY <1>1, <1>2, ConcatEmptySeq DEF Lead, Inner
<1>3. CASE rec
  <2>1. cord # <<>>
    BY <1>1, <1>3
  <2>2. SubSeq(cord, 1, Len(cord)) = <<cord[1]>> \o SubSeq(cord, 2, Len(cord))
    <3>1. 1 \in 1 .. Len(cord) /\ Len(cord) \in 1 .. Len(cord) /\ 1 + 1 = 2
      BY <1>1, <1>3
    <3> QED BY <1>1, <3>1, SubSeqRecursiveFirst
  <2>3. SubSeq(cord, 1, Len(cord)) = cord
    BY <1>1, SubSeqFull
  <2>4. Tail(cord) = SubSeq(cord, 2, Len(cord))
    BY <1>1, <2>1
  <2> QED BY <1>3, <2>2, <2>3, <2>4 DEF Lead, Inner
<1> QED BY <1>2, <1>3

LEMMA StepsOfInner ==
    ASSUME NEW d \in Dids, NEW rec \in BOOLEAN, rec => d \in Record,
           NEW dims \in Seq(Nat), Len(dims) = Len(Dims[d])
    PROVE  Inner(DSteps(dims), rec) = DSteps(Inner(dims, rec))
<1> DEFINE n == Len(dims)
<1>1. n \in Nat /\ dims \in [1 .. n -> Nat] /\ DOMAIN dims = 1 .. n /\ (rec => n # 0)
  BY LenProperties, DimsDomain
<1>2. CASE ~rec
  BY <1>2 DEF Inner
<1>3. CASE rec
  <2> DEFINE up == Tail(dims)
             m  == n - 1
  <2>0. m \in Nat /\ n = m + 1
    BY <1>1, <1>3
  <2>1. up \in Seq(Nat) /\ Len(up) = m /\ DOMAIN up = 1 .. m /\ \A i \in 1 .. m : up[i] = dims[i + 1]
    <3>1. dims # <<>>
      BY <1>1, <1>3
    <3>2. /\ up \in Seq(Nat) /\ Len(up) = Len(dims) - 1
          /\ \A i \in 1 .. Len(up) : up[i] = dims[i + 1]
      BY <3>1, HeadTailProperties
    <3> QED BY <3>2, LenProperties
  <2>2. DSteps(dims) \in [1 .. n -> Nat]
    <3> HIDE DEF n
    <3> QED BY <1>1, StepsDivide
  <2>3. Tail(DSteps(dims)) = [i \in 1 .. m |-> DSteps(dims)[i + 1]]
    <3>1. DSteps(dims) \in Seq(Nat) /\ Len(DSteps(dims)) = n
      BY <1>1, <2>2
    <3>2. DSteps(dims) # <<>>
      BY <1>1, <1>3, <3>1
    <3>3. /\ Tail(DSteps(dims)) \in Seq(Nat) /\ Len(Tail(DSteps(dims))) = Len(DSteps(dims)) - 1
          /\ \A i \in 1 .. Len(Tail(DSteps(dims))) : Tail(DSteps(dims))[i] = DSteps(dims)[i + 1]
      BY <3>1, <3>2, HeadTailProperties
    <3> DEFINE t == Tail(DSteps(dims))
    <3>4. t \in [1 .. m -> Nat] /\ \A i \in 1 .. m : t[i] = DSteps(dims)[i + 1]
      BY <2>0, <3>1, <3>3, LenProperties
    <3> HIDE DEF t
    <3>5. t = [i \in 1 .. m |-> DSteps(dims)[i + 1]]
      BY <3>4
    <3> QED BY <3>5 DEF t
  <2> HIDE DEF up
  <2>4. ASSUME NEW i \in 1 .. m PROVE DSteps(dims)[i + 1] = DSteps(up)[i]
    <3>1. i + 1 \in 1 .. n /\ (i + 1) + 1 \in Int /\ i + 1 \in Int
      BY <2>0
    <3>2. DSteps(dims)[i + 1] = NumElems(SubSeq(dims, (i + 1) + 1, n))
      BY <1>1, <3>1 DEF DSteps
    <3>3. DSteps(up)[i] = NumElems(SubSeq(up, i + 1, m))
      BY <2>1 DEF DSteps
    <3>4. SubSeq(dims, (i + 1) + 1, n) = [j \in 1 .. m - i |-> dims[(i + 1) + j]]
      <4>1. (n - ((i + 1) + 1)) + 1 = m - i /\ \A j \in 1 .. m - i : (j + ((i + 1) + 1)) - 1 = (i + 1) + j
        BY <2>0
      <4> QED BY <1>1, <4>1
    <3>5. SubSeq(up, i + 1, m) = [j \in 1 .. m - i |-> up[i + j]]
      <4>1. (m - (i + 1)) + 1 = m - i /\ \A j \in 1 .. m - i : (j + (i + 1)) - 1 = i + j
        BY <2>0
      <4> QED BY <2>1, <4>1
    <3>6. \A j \in 1 .. m - i : i + j \in 1 .. m /\ (i + j) + 1 = (i + 1) + j
      BY <2>0
    <3>7. \A j \in 1 .. m - i : up[i + j] = dims[(i + 1) + j]
      BY <2>1, <3>6
    <3> QED BY <3>2, <3>3, <3>4, <3>5, <3>7
  <2>5. DSteps(up) = [i \in 1 .. m |-> DSteps(up)[i]]
    BY <2>1 DEF DSteps
  <2>6. Tail(DSteps(dims)) = DSteps(up)
    BY <2>3, <2>4, <2>5
  <2> QED BY <1>3, <2>6 DEF Inner, up
<1> QED BY <1>2, <1>3

LEMMA WordDecodes ==
    ASSUME NEW d \in Dids, NEW rec \in BOOLEAN, rec => d \in Record,
           NEW x \in Seq(Nat), Len(x) = Len(Dims[d]),
           NEW c \in CordsOf(d), \A i \in DOMAIN x \ {1} : c[i] < x[i],
           NEW steps, steps = Inner(DSteps(x), rec)
    PROVE  SelEncode(steps, Inner(c, rec)) \in Nat /\ SelDecode(steps, SelEncode(steps, Inner(c, rec))) = Inner(c, rec)
<1> DEFINE dims == Inner(x, rec)
           cord == Inner(c, rec)
           w    == Width(d, rec)
<1>1. x \in CordsOf(d) /\ x \in [1 .. Len(Dims[d]) -> Nat] /\ c \in [1 .. Len(Dims[d]) -> Nat] /\ DOMAIN x = 1 .. Len(Dims[d])
  BY DimsDomain, LenProperties
<1>2. /\ w \in Nat /\ dims \in [1 .. w -> Nat] /\ cord \in [1 .. w -> Nat] /\ dims \in Seq(Nat) /\ Len(dims) = w
      /\ DOMAIN dims = 1 .. w
  BY <1>1, InnerTypes
<1>3. steps = DSteps(dims)
  BY StepsOfInner
<1>4. ASSUME NEW i \in 1 .. w, i # 1 PROVE cord[i] < dims[i]
  <2>1. CASE ~rec
    <3>1. i \in DOMAIN x \ {1}
      BY <1>1, <1>4, <2>1 DEF Width
    <3> QED BY <2>1, <3>1 DEF Inner
  <2>2. CASE rec
    <3>1. x \in Seq(Nat) /\ c \in Seq(Nat) /\ Len(c) = Len(Dims[d]) /\ x # <<>> /\ c # <<>> /\ Len(Dims[d]) \in Nat
      <4> DEFINE L == Len(Dims[d])
      <4>1. L \in Nat /\ L # 0
        BY <2>2, DimsDomain
      <4>2. Len(x) = L /\ c \in [1 .. L -> Nat]
        BY <1>1
      <4> HIDE DEF L
      <4>3. c \in Seq(Nat) /\ Len(c) = L
        BY <4>1, <4>2
      <4>4. x # <<>> /\ c # <<>>
        BY <4>1, <4>2, <4>3
      <4> QED BY <4>1, <4>3, <4>4 DEF L
    <3>2. w = Len(Dims[d]) - 1
      BY <2>2 DEF Width
    <3>3. Tail(x)[i] = x[i + 1] /\ Tail(c)[i] = c[i + 1]
      <4>1. i \in 1 .. Len(Tail(x)) /\ i \in 1 .. Len(Tail(c))
        <5>1. Len(Tail(x)) = w /\ Len(Tail(c)) = w
          BY <3>1, <3>2, HeadTailProperties
        <5> QED BY <5>1
      <4> QED BY <3>1, <4>1, HeadTailProperties
    <3>4. i + 1 \in DOMAIN x \ {1}
      BY <1>1, <3>1, <3>2
    <3> QED BY <2>2, <3>3, <3>4 DEF Inner
  <2> QED BY <2>1, <2>2
<1> HIDE DEF dims, cord, w
<1>5. cord \in [DOMAIN dims -> Nat] /\ \A i \in DOMAIN dims \ {1} : cord[i] < dims[i]
  BY <1>2, <1>4
<1>6. SelEncode(DSteps(dims), cord) \in Nat /\ SelDecode(DSteps(dims), SelEncode(DSteps(dims), cord)) = cord
  BY <1>2, <1>5, EncodingInverts
<1> QED BY <1>3, <1>6 DEF cord

LEMMA StepsShown ==
    ASSUME NEW d \in Dids, NEW rec \in BOOLEAN, rec => d \in Record,
           NEW x \in Seq(Nat), Len(x) = Len(Dims[d]), Width(d, rec) > 1,
           NEW steps, steps = Inner(DSteps(x), rec)
    PROVE  /\ steps \in Seq(Nat) /\ Front(steps) \in Seq(Nat) /\ Len(Front(steps)) = Width(d, rec) - 1
           /\ Append(Front(steps), 1) = steps
<1> DEFINE dims == Inner(x, rec)
           w    == Width(d, rec)
<1>1. x \in CordsOf(d)
  BY DimsDomain, LenProperties
<1>2. w \in Nat /\ dims \in [1 .. w -> Nat] /\ dims \in Seq(Nat)
  BY <1>1, InnerTypes
<1>3. steps = DSteps(dims)
  BY StepsOfInner
<1> HIDE DEF dims
<1>4. steps \in [1 .. w -> Nat] /\ steps[w] = 1
  <2>1. w # 0
    BY <1>2
  <2> HIDE DEF w
  <2>2. DSteps(dims) \in [1 .. w -> Nat] /\ (w # 0 => DSteps(dims)[w] = 1)
    BY <1>2, StepsDivide
  <2> QED BY <1>3, <2>1, <2>2
<1>9. w > 1
  OBVIOUS
<1> HIDE DEF w
<1>5. steps \in Seq(Nat) /\ Len(steps) = w
  BY <1>2, <1>4
<1>6. Front(steps) = [i \in 1 .. w - 1 |-> steps[i]]
  BY <1>2, <1>4, <1>5 DEF Front
<1>7. Front(steps) \in Seq(Nat) /\ Len(Front(steps)) = w - 1
  <2>1. w - 1 \in Nat /\ \A i \in 1 .. w - 1 : steps[i] \in Nat
    BY <1>2, <1>4, <1>9
  <2> DEFINE m == w - 1
             f == Front(steps)
  <2>2. m \in Nat /\ f \in [1 .. m -> Nat]
    BY <1>6, <2>1
  <2> HIDE DEF m, f
  <2>3. f \in Seq(Nat) /\ Len(f) = m
    BY <2>2
  <2> QED BY <2>3 DEF m, f
<1>8. Append(Front(steps), 1) = steps
  <2>1. /\ Append(Front(steps), 1) \in Seq(Nat) /\ Len(Append(Front(steps), 1)) = w
        /\ \A i \in 1 .. w : Append(Front(steps), 1)[i] = IF i = w THEN 1 ELSE Front(steps)[i]
    BY <1>2, <1>7, <1>9
  <2>2. \A i \in 1 .. w : i # w => Front(steps)[i] = steps[i]
    BY <1>2, <1>6
  <2> QED BY <1>4, <1>5, <2>1, <2>2, SeqEqual
<1> QED BY <1>5, <1>7, <1>8 DEF w

\* Joining may be done from either side.
Associate(x, y, z) == (x \o y) \o z = x \o (y \o z)

\* The words behind the number of blocks.
BodyHolds(n, body, s) ==
    /\ n > 1 => body[1] = n /\ Tail(body) = s /\ body # <<>>
    /\ ~(n > 1) => body = s

LEMMA JoinsAssociate ==
    ASSUME NEW x \in Seq(Int), NEW y \in Seq(Int), NEW z \in Seq(Int)
    PROVE  Associate(x, y, z)
<1>1. (x \o y) \o z = x \o (y \o z)
  BY ConcatAssociative
<1> QED BY <1>1 DEF Associate

LEMMA WordsOfBody ==
    ASSUME NEW n \in Nat, NEW u \in Seq(Int), NEW a \in Seq(Int), NEW b \in Seq(Int),
           NEW body, body = (IF n > 1 THEN <<n>> ELSE <<>>) \o u \o a \o b
    PROVE  /\ u \o (a \o b) \in Seq(Int)
           /\ BodyHolds(n, body, u \o (a \o b))
<1> DEFINE s == u \o (a \o b)
<1>0. \A x, y \in Seq(Int) : x \o y \in Seq(Int)
  BY ConcatProperties
<1>1. a \o b \in Seq(Int) /\ (u \o a) \o b = s
  <2>1. a \o b \in Seq(Int)
    BY <1>0
  <2>2. Associate(u, a, b)
    BY JoinsAssociate
  <2> QED BY <2>1, <2>2 DEF Associate
<1>2. s \in Seq(Int)
  BY <1>1, ConcatProperties
<1>3. CASE n > 1
  <2> DEFINE first == <<n>>
  <2>1. first \in Seq(Int)
    OBVIOUS
  <2>2. body = ((first \o u) \o a) \o b
    BY <1>3
  <2> HIDE DEF first
  <2>3. first \o u \in Seq(Int) /\ u \o a \in Seq(Int)
    BY <1>0, <2>1
  <2>4. (first \o u) \o a = first \o (u \o a)
    <3>1. Associate(first, u, a)
      BY <2>1, JoinsAssociate
    <3> QED BY <3>1 DEF Associate
  <2>5. (first \o (u \o a)) \o b = first \o ((u \o a) \o b)
    <3> DEFINE v == u \o a
    <3>1. v \in Seq(Int)
      BY <2>3
    <3> HIDE DEF v
    <3>2. Associate(first, v, b)
      BY <2>1, <3>1, JoinsAssociate
    <3> QED BY <3>2 DEF v, Associate
  <2>6. body = <<n>> \o s
    BY <1>1, <2>2, <2>4, <2>5 DEF first
  <2> HIDE DEF s
  <2>7. body[1] = n /\ Tail(body) = s /\ body # <<>>
    <3>1. n \in Int
      OBVIOUS
    <3> QED BY <1>2, <2>6, <3>1, AfterFirst
  <2> QED BY <1>2, <1>3, <2>7 DEF s, BodyHolds
<1>4. CASE ~(n > 1)
  <2>1. body = ((<<>> \o u) \o a) \o b
    BY <1>4
  <2>2. <<>> \o u = u
    BY ConcatEmptySeq
  <2> QED BY <1>1, <1>2, <1>4, <2>1, <2>2 DEF BodyHolds
<1> QED BY <1>3, <1>4

\* An entry that is no reference has as many words as its blocks take.
Shaped(e) ==
    /\ e.did \in Dids /\ e.rec \in BOOLEAN /\ (e.rec => e.did \in Record) /\ e.mul \in BOOLEAN
    /\ e.enc = (Encode /\ e.mul /\ Wide(e) > 1)
    /\ Wide(e) \in Nat /\ Num(e) \in Nat \ {0} /\ e.body \in Seq(Int) /\ (e.mul => e.body # <<>>)
    /\ Len(Words(e)) = IF e.enc THEN (Wide(e) - 1) + (Num(e) + Num(e))
                       ELSE Num(e) * Wide(e) + Num(e) * Wide(e)
    /\ \A k \in 1 .. Num(e) : CordAt(e, k) \in Seq(Nat) /\ CordAt(e, Num(e) + k) \in Seq(Nat)

\* A coordinate lies below the dims, but perhaps in the first dimension.
Below(c, x) == \A i \in DOMAIN x \ {1} : c[i] < x[i]

\* The steps are those of dims that the blocks are below.
Fits(d, sels) ==
    \E x \in Seq(Nat) : /\ Len(x) = Len(Dims[d]) /\ dsteps[d] = DSteps(x)
                        /\ \A k \in DOMAIN sels : Below(sels[k].start, x) /\ Below(sels[k].count, x)

\* The words of an entry that refers to no other decode to the blocks it was
\* made from, exactly: the record number put back in front, the coordinates
\* cut out of the body or divided out of offsets with the steps kept in it, if
\* those are the steps of dims that the blocks lie within
\* (H5VL_log_wreq_t::H5VL_log_wreq_t, H5VL_logi_metaentry_decode).
THEOREM EntryDecodes ==
    ASSUME Stepped, NEW d \in Dids, NEW sels \in Seq(BlockOf(d)), sels # <<>>,
           Encode /\ Len(sels) > 1 => Fits(d, sels),
           NEW e, e = NewEntry(d, sels)
    PROVE  Shaped(e) /\ Decode(e) = sels
<1> DEFINE rec == IsRecord(d, sels)
           n == Len(sels)
           w == Width(d, rec)
           steps == Inner(dsteps[d], rec)
           enc == IsEncoded(d, rec, sels)
           Word(c) == IF enc THEN <<SelEncode(steps, Inner(c, rec))>> ELSE Inner(c, rec)
           u == IF enc THEN Front(steps) ELSE <<>>
           starts == [k \in DOMAIN sels |-> Word(sels[k].start)]
           counts == [k \in DOMAIN sels |-> Word(sels[k].count)]
           s == u \o (FlattenSeq(starts) \o FlattenSeq(counts))
           inner(k) == Inner(sels[k].start, rec)
           outer(k) == Inner(sels[k].count, rec)
<1>1. /\ e.did = d /\ e.rec = rec /\ e.mul = (n > 1) /\ e.enc = enc /\ e.body = Body(d, rec, sels)
      /\ rec => e.recnum = sels[1].start[1]
  BY DEF NewEntry
<1>2. rec \in BOOLEAN /\ (rec => d \in Record)
  BY RecordTypes
<1>3. n \in Nat \ {0} /\ DOMAIN sels = 1 .. n
  BY EmptySeq, LenProperties
<1>4. \A k \in 1 .. n : /\ sels[k] = [start |-> sels[k].start, count |-> sels[k].count]
                        /\ sels[k].start \in CordsOf(d) /\ sels[k].count \in CordsOf(d)
  <2>1. \A k \in 1 .. n : sels[k] \in BlockOf(d)
    BY <1>3, LenProperties
  <2> QED BY <2>1 DEF BlockOf
<1>5. /\ w \in Nat /\ \A k \in 1 .. n : /\ inner(k) \in Seq(Nat) /\ Len(inner(k)) = w
                                        /\ outer(k) \in Seq(Nat) /\ Len(outer(k)) = w
  <2>1. w \in Nat
    BY <1>2, <1>3, <1>4, InnerTypes
  <2> SUFFICES ASSUME NEW k \in 1 .. n
               PROVE  /\ inner(k) \in Seq(Nat) /\ Len(inner(k)) = w
                      /\ outer(k) \in Seq(Nat) /\ Len(outer(k)) = w
    BY <2>1
  <2>2. sels[k].start \in CordsOf(d) /\ sels[k].count \in CordsOf(d)
    BY <1>4
  <2> HIDE DEF rec
  <2> QED BY <1>2, <2>2, InnerTypes
<1>6. enc = (Encode /\ n > 1 /\ w > 1)
  <2>1. Dims[d] \in CordsOf(d)
    BY DimsDomain
  <2>2. Len(Inner(Dims[d], rec)) = w
    BY <1>2, <2>1, InnerTypes
  <2> QED BY <2>2 DEF IsEncoded
<1>7. Body(d, rec, sels) = (IF n > 1 THEN <<n>> ELSE <<>>) \o u \o FlattenSeq(starts) \o FlattenSeq(counts)
  BY DEF Body
<1>8. u \in Seq(Int) /\ (enc => u = Front(steps) /\ Append(u, 1) = steps /\ Len(u) = w - 1)
  <2>1. CASE ~enc
    BY <2>1
  <2>2. CASE enc
    <3>1. PICK x \in Seq(Nat) : Len(x) = Len(Dims[d]) /\ dsteps[d] = DSteps(x)
      BY <1>6, <2>2 DEF Fits
    <3>2. w > 1 /\ steps = Inner(DSteps(x), rec)
      BY <1>6, <2>2, <3>1
    <3> HIDE DEF rec, steps, enc
    <3>3. Front(steps) \in Seq(Nat) /\ Append(Front(steps), 1) = steps /\ Len(Front(steps)) = w - 1
      BY <1>2, <3>1, <3>2, StepsShown
    <3>4. Front(steps) \in Seq(Int)
      BY <3>3, SeqMonotonic
    <3> QED BY <2>2, <3>3, <3>4
  <2> QED BY <2>1, <2>2
<1>9. enc => \A k \in 1 .. n :
          /\ SelEncode(steps, inner(k)) \in Nat /\ SelDecode(steps, SelEncode(steps, inner(k))) = inner(k)
          /\ SelEncode(steps, outer(k)) \in Nat /\ SelDecode(steps, SelEncode(steps, outer(k))) = outer(k)
  <2> SUFFICES ASSUME enc, NEW k \in 1 .. n
               PROVE  /\ SelEncode(steps, inner(k)) \in Nat /\ SelDecode(steps, SelEncode(steps, inner(k))) = inner(k)
                      /\ SelEncode(steps, outer(k)) \in Nat /\ SelDecode(steps, SelEncode(steps, outer(k))) = outer(k)
    OBVIOUS
  <2>1. PICK x \in Seq(Nat) : /\ Len(x) = Len(Dims[d]) /\ dsteps[d] = DSteps(x)
                              /\ Below(sels[k].start, x) /\ Below(sels[k].count, x)
    BY <1>3, <1>6 DEF Fits
  <2>2. steps = Inner(DSteps(x), rec)
    BY <2>1
  <2>3. sels[k].start \in CordsOf(d) /\ sels[k].count \in CordsOf(d)
    BY <1>4
  <2>4. \A i \in DOMAIN x \ {1} : sels[k].start[i] < x[i]
    BY <2>1 DEF Below
  <2>5. \A i \in DOMAIN x \ {1} : sels[k].count[i] < x[i]
    BY <2>1 DEF Below
  <2>6. Len(x) = Len(Dims[d])
    BY <2>1
  <2> HIDE DEF rec, steps, enc
  <2>7. SelEncode(steps, inner(k)) \in Nat /\ SelDecode(steps, SelEncode(steps, inner(k))) = inner(k)
    BY <1>2, <2>2, <2>3, <2>4, <2>6, WordDecodes
  <2>8. SelEncode(steps, outer(k)) \in Nat /\ SelDecode(steps, SelEncode(steps, outer(k))) = outer(k)
    BY <1>2, <2>2, <2>3, <2>5, <2>6, WordDecodes
  <2> QED BY <2>7, <2>8
<1> DEFINE fs == FlattenSeq(starts)
           fc == FlattenSeq(counts)
           Shown == /\ Len(Words(e)) = IF enc THEN (w - 1) + (n + n) ELSE n * w + n * w
                    /\ \A k \in 1 .. n : CordAt(e, k) = inner(k) /\ CordAt(e, n + k) = outer(k)
<1>10. ASSUME fs \in Seq(Int), fc \in Seq(Int)
       PROVE  /\ Words(e) = u \o (fs \o fc) /\ Num(e) = n /\ e.body \in Seq(Int)
              /\ e.mul => e.body # <<>>
  <2> HIDE DEF rec, n, u, fs, fc
  <2>1. /\ u \o (fs \o fc) \in Seq(Int)
        /\ n > 1 => e.body[1] = n /\ Tail(e.body) = u \o (fs \o fc) /\ e.body # <<>>
        /\ ~(n > 1) => e.body = u \o (fs \o fc)
    <3>1. e.body = (IF n > 1 THEN <<n>> ELSE <<>>) \o u \o fs \o fc
      BY <1>1, <1>7 DEF fs, fc
    <3>2. n \in Nat
      BY <1>3
    <3>3. u \in Seq(Int)
      BY <1>8
    <3> DEFINE body == e.body
    <3>4. body = (IF n > 1 THEN <<n>> ELSE <<>>) \o u \o fs \o fc
      BY <3>1
    <3> HIDE DEF body
    <3>5. u \o (fs \o fc) \in Seq(Int)
      BY <1>10, <3>2, <3>3, <3>4, WordsOfBody
    <3>6. BodyHolds(n, body, u \o (fs \o fc))
      BY <1>10, <3>2, <3>3, <3>4, WordsOfBody
    <3> QED BY <3>5, <3>6 DEF body, BodyHolds
  <2>2. Words(e) = u \o (fs \o fc) /\ Num(e) = n
    <3>1. e.mul = (n > 1)
      BY <1>1
    <3>2. ~(n > 1) => n = 1
      BY <1>3
    <3> QED BY <2>1, <3>1, <3>2 DEF Words, Num
  <2>3. e.body \in Seq(Int)
    <3>1. Body(d, rec, sels) \in Seq(Int)
      BY <1>2, BodyType DEF rec
    <3> QED BY <1>1, <3>1
  <2> QED BY <1>1, <2>1, <2>2, <2>3
<1>11. ASSUME ~enc
       PROVE  Shown /\ Num(e) = n /\ e.body \in Seq(Int) /\ (e.mul => e.body # <<>>)
  <2> DEFINE a == [k \in 1 .. n |-> inner(k)]
             b == [k \in 1 .. n |-> outer(k)]
             t == FlattenSeq(a) \o FlattenSeq(b)
  <2>1. starts = a /\ counts = b /\ u = <<>>
    BY <1>3, <1>11
  <2>2. a \in [1 .. n -> Seq(Int)] /\ b \in [1 .. n -> Seq(Int)] /\ AllOf(w, n, a) /\ AllOf(w, n, b)
    <3> HIDE DEF rec, w, n
    <3>1. \A k \in 1 .. n : inner(k) \in Seq(Int) /\ outer(k) \in Seq(Int)
      BY <1>5, SeqMonotonic
    <3> QED BY <1>5, <3>1 DEF AllOf
  <2>3. /\ TwoListsAt(Int, w, n, a, b, t)
        /\ FlattenSeq(a) \in Seq(Int) /\ FlattenSeq(b) \in Seq(Int)
    <3> DEFINE fa == FlattenSeq(a)
               fb == FlattenSeq(b)
    <3> HIDE DEF a, b, n, w
    <3>1. n \in Nat /\ w \in Nat
      BY <1>3, <1>5
    <3>2. fa \in Seq(Int) /\ fb \in Seq(Int)
      BY <2>2, <3>1, FlattenEven
    <3>3. t = FlattenSeq(a) \o FlattenSeq(b)
      OBVIOUS
    <3> HIDE DEF t
    <3>4. TwoListsAt(Int, w, n, a, b, t)
      BY <2>2, <3>1, <3>3, TwoLists
    <3> QED BY <3>2, <3>4
  <2>4. Words(e) = t /\ Num(e) = n /\ e.body \in Seq(Int) /\ (e.mul => e.body # <<>>)
    <3>1. fs = FlattenSeq(a) /\ fc = FlattenSeq(b)
      BY <2>1
    <3> HIDE DEF a, b, n, w, rec, enc, u, fs, fc, starts, counts
    <3>2. u \o (fs \o fc) = t
      BY <2>1, <2>3, <3>1, ConcatEmptySeq DEF TwoListsAt
    <3> QED BY <1>10, <2>3, <3>1, <3>2
  <2>5. Shown
    <3> HIDE DEF t, n, w, rec, enc
    <3>1. Wide(e) = w /\ ~e.enc
      BY <1>1, <1>11 DEF Wide, w
    <3>2. Len(Words(e)) = n * w + n * w
      BY <2>3, <2>4 DEF TwoListsAt
    <3>3. ASSUME NEW k \in 1 .. n PROVE CordAt(e, k) = inner(k) /\ CordAt(e, n + k) = outer(k)
      <4>1. SubSeq(t, (k - 1) * w + 1, k * w) = a[k] /\ SubSeq(t, (n + k - 1) * w + 1, (n + k) * w) = b[k]
        BY <2>3 DEF TwoListsAt
      <4>2. n + k - 1 = (n + k) - 1
        BY <1>3
      <4>3. CordAt(e, k) = SubSeq(t, (k - 1) * w + 1, k * w)
        BY <2>4, <3>1 DEF CordAt
      <4>4. CordAt(e, n + k) = SubSeq(t, ((n + k) - 1) * w + 1, (n + k) * w)
        BY <2>4, <3>1 DEF CordAt
      <4> QED BY <4>1, <4>2, <4>3, <4>4
    <3> QED BY <1>11, <3>2, <3>3
  <2> QED BY <2>4, <2>5
<1>12. ASSUME enc
       PROVE  Shown /\ Num(e) = n /\ e.body \in Seq(Int) /\ (e.mul => e.body # <<>>)
  <2> DEFINE f == [k \in 1 .. n |-> SelEncode(steps, inner(k))]
             g == [k \in 1 .. n |-> SelEncode(steps, outer(k))]
             a == [k \in 1 .. n |-> <<f[k]>>]
             b == [k \in 1 .. n |-> <<g[k]>>]
             v == FlattenSeq(a) \o FlattenSeq(b)
             t == u \o v
             m == w - 1
  <2>1. starts = a /\ counts = b
    BY <1>3, <1>12
  <2>2. f \in [1 .. n -> Int] /\ g \in [1 .. n -> Int]
    <3> HIDE DEF n, rec, steps, enc
    <3> QED BY <1>9, <1>12
  <2>3. FlattenSeq(a) \in Seq(Int) /\ FlattenSeq(b) \in Seq(Int)
    <3> HIDE DEF f, g, n
    <3>1. a \in [1 .. n -> Seq(Int)] /\ b \in [1 .. n -> Seq(Int)] /\ AllOf(1, n, a) /\ AllOf(1, n, b)
      <4>1. \A x \in Int : <<x>> \in Seq(Int) /\ Len(<<x>>) = 1
        OBVIOUS
      <4> QED BY <2>2, <4>1 DEF AllOf
    <3> HIDE DEF a, b
    <3> QED BY <1>3, <3>1, FlattenEven
  <2>4. t \in Seq(Int) /\ Len(t) = m + (n + n) /\ SubSeq(t, 1, m) = u /\ TwoRowsAt(Int, m, n, u, f, g, t)
    <3>1. n \in Nat /\ Len(u) = m /\ u \in Seq(Int)
      BY <1>3, <1>8, <1>12
    <3>2. v = FlattenSeq([k \in 1 .. n |-> <<f[k]>>]) \o FlattenSeq([k \in 1 .. n |-> <<g[k]>>]) /\ t = u \o v
      OBVIOUS
    <3> HIDE DEF f, g, n, m, t, v, u
    <3>3. TwoRowsAt(Int, m, n, u, f, g, t)
      BY <2>2, <3>1, <3>2, TwoRows
    <3> QED BY <3>3 DEF TwoRowsAt
  <2>5. Words(e) = t /\ Num(e) = n /\ e.body \in Seq(Int) /\ (e.mul => e.body # <<>>)
    <3>1. fs = FlattenSeq(a) /\ fc = FlattenSeq(b)
      BY <2>1
    <3> HIDE DEF a, b, n, w, rec, enc, u, fs, fc, starts, counts
    <3> QED BY <1>10, <2>3, <3>1
  <2>6. Shown
    <3>1. Wide(e) = w /\ e.enc /\ m + (n + n) = (w - 1) + (n + n)
      BY <1>1, <1>12 DEF Wide
    <3>2. Append(u, 1) = steps /\ w \in Nat /\ n \in Nat
      BY <1>3, <1>5, <1>8, <1>12
    <3>6. \A k \in 1 .. n : f[k] = SelEncode(steps, inner(k)) /\ g[k] = SelEncode(steps, outer(k))
      OBVIOUS
    <3>7. m = w - 1
      OBVIOUS
    <3> HIDE DEF t, n, w, rec, enc, u, f, g, m, steps
    <3>3. Len(Words(e)) = (w - 1) + (n + n)
      BY <2>4, <2>5, <3>1
    <3>4. ASSUME NEW k \in 1 .. n PROVE CordAt(e, k) = inner(k) /\ CordAt(e, n + k) = outer(k)
      <4>1. t[m + k] = f[k] /\ t[m + (n + k)] = g[k]
        BY <2>4 DEF TwoRowsAt
      <4>2. Append(SubSeq(Words(e), 1, Wide(e) - 1), 1) = steps
        BY <2>4, <2>5, <3>1, <3>2, <3>7
      <4>3. CordAt(e, k) = SelDecode(steps, t[(w - 1) + k]) /\ CordAt(e, n + k) = SelDecode(steps, t[(w - 1) + (n + k)])
        <5>1. \A x : CordAt(e, x) = SelDecode(Append(SubSeq(Words(e), 1, Wide(e) - 1), 1), Words(e)[Wide(e) - 1 + x])
          BY <3>1 DEF CordAt
        <5> QED BY <2>5, <3>1, <4>2, <5>1
      <4>4. CordAt(e, k) = SelDecode(steps, f[k]) /\ CordAt(e, n + k) = SelDecode(steps, g[k])
        BY <3>7, <4>1, <4>3
      <4> QED BY <1>9, <1>12, <3>6, <4>4
    <3> QED BY <1>12, <3>3, <3>4
  <2> QED BY <2>5, <2>6
<1>13. Shown /\ Num(e) = n /\ e.body \in Seq(Int) /\ (e.mul => e.body # <<>>)
  BY <1>11, <1>12
<1>14. Shaped(e)
  <2>1. Wide(e) = w
    BY <1>1 DEF Wide
  <2>2. Shown /\ Num(e) = n /\ e.body \in Seq(Int) /\ (e.mul => e.body # <<>>)
    BY <1>13
  <2>7. \A k \in 1 .. Num(e) : CordAt(e, k) \in Seq(Nat) /\ CordAt(e, Num(e) + k) \in Seq(Nat)
    <3> HIDE DEF n, w, rec, enc
    <3> QED BY <1>5, <2>2
  <2> HIDE DEF n, w, rec, enc, inner, outer
  <2>3. Len(Words(e)) = IF e.enc THEN (Wide(e) - 1) + (Num(e) + Num(e))
                        ELSE Num(e) * Wide(e) + Num(e) * Wide(e)
    BY <1>1, <2>1, <2>2
  <2> HIDE DEF Shown
  <2>4. e.did \in Dids /\ e.rec \in BOOLEAN /\ (e.rec => e.did \in Record) /\ e.mul \in BOOLEAN
    BY <1>1, <1>2
  <2>5. e.enc = (Encode /\ e.mul /\ Wide(e) > 1)
    BY <1>1, <1>6, <2>1
  <2>6. Wide(e) \in Nat /\ Num(e) \in Nat \ {0} /\ e.body \in Seq(Int) /\ (e.mul => e.body # <<>>)
    BY <1>3, <1>5, <2>1, <2>2
  <2> QED BY <2>3, <2>4, <2>5, <2>6, <2>7 DEF Shaped
<1>15. rec => \A k \in 1 .. n : sels[k].count[1] = 1 /\ sels[k].start[1] = e.recnum
  <2>1. \A k \in 1 .. n : sels[k] \in Range(sels)
    BY <1>3 DEF Range
  <2> QED BY <1>1, <2>1 DEF IsRecord
<1>16. Decode(e) = sels
  <2>1. Decode(e) = [k \in 1 .. n |-> [start |-> Lead(rec, e.recnum) \o CordAt(e, k),
                                       count |-> Lead(rec, 1) \o CordAt(e, n + k)]]
    <3> HIDE DEF rec, n
    <3> QED BY <1>1, <1>2, <1>13, DecodeIs
  <2>2. ASSUME NEW k \in 1 .. n
        PROVE  /\ Lead(rec, e.recnum) \o CordAt(e, k) = sels[k].start
               /\ Lead(rec, 1) \o CordAt(e, n + k) = sels[k].count
    <3>1. CordAt(e, k) = inner(k) /\ CordAt(e, n + k) = outer(k)
      BY <1>13
    <3>2. sels[k].start \in CordsOf(d) /\ sels[k].count \in CordsOf(d)
      BY <1>4
    <3>3. rec => sels[k].start[1] = e.recnum /\ sels[k].count[1] = 1
      BY <1>15
    <3> HIDE DEF rec, n
    <3>4. Lead(rec, e.recnum) \o inner(k) = sels[k].start
      BY <1>2, <3>2, <3>3, Restored
    <3>5. Lead(rec, 1) \o outer(k) = sels[k].count
      BY <1>2, <3>2, <3>3, Restored
    <3> QED BY <3>1, <3>4, <3>5
  <2>3. sels = [k \in 1 .. n |-> [start |-> sels[k].start, count |-> sels[k].count]]
    <3>1. sels = [k \in 1 .. n |-> sels[k]]
      BY <1>3
    <3> QED BY <1>4, <3>1
  <2> HIDE DEF n, rec
  <2> QED BY <2>1, <2>2, <2>3
<1> QED BY <1>14, <1>16
-----------------------------------------------------------------------------
(***************************************************************************)
(* What an entry takes over from one with an equal body                    *)
(***************************************************************************)
LEMMA SameShape ==
    ASSUME NEW e, NEW t, Shaped(e), Shaped(t), ~e.ref, ~t.ref, t.body = e.body, MetaSize(t) = MetaSize(e)
    PROVE  t.rec = e.rec /\ t.mul = e.mul /\ Num(t) = Num(e) /\ Wide(t) = Wide(e) /\ t.enc = e.enc
           /\ Words(t) = Words(e)
<1>1. /\ e.rec \in BOOLEAN /\ t.rec \in BOOLEAN /\ e.mul \in BOOLEAN /\ t.mul \in BOOLEAN
      /\ e.enc = (Encode /\ e.mul /\ Wide(e) > 1) /\ t.enc = (Encode /\ t.mul /\ Wide(t) > 1)
      /\ Wide(e) \in Nat /\ Wide(t) \in Nat /\ Num(e) \in Nat \ {0}
  BY DEF Shaped
<1>2. Len(Words(e)) = IF e.enc THEN (Wide(e) - 1) + (Num(e) + Num(e)) ELSE Num(e) * Wide(e) + Num(e) * Wide(e)
  BY DEF Shaped
<1>3. Len(Words(t)) = IF t.enc THEN (Wide(t) - 1) + (Num(t) + Num(t)) ELSE Num(t) * Wide(t) + Num(t) * Wide(t)
  BY DEF Shaped
<1>4. t.rec = e.rec /\ t.mul = e.mul
  <2> DEFINE b == 8 * Len(e.body)
  <2>1. b \in Nat
    <3>1. Len(e.body) \in Nat
      BY DEF Shaped
    <3> QED BY <3>1
  <2>2. MetaSize(e) = 28 + (IF e.rec THEN 8 ELSE 0) + (b - (IF e.mul THEN 4 ELSE 0))
    BY DEF MetaSize, SelSize, HeaderSize
  <2>3. MetaSize(t) = 28 + (IF t.rec THEN 8 ELSE 0) + (b - (IF t.mul THEN 4 ELSE 0))
    BY DEF MetaSize, SelSize, HeaderSize
  <2> HIDE DEF b
  <2> QED BY <1>1, <2>1, <2>2, <2>3
<1>5. Words(t) = Words(e) /\ Num(t) = Num(e)
  BY <1>4 DEF Words, Num
<1> DEFINE n == Num(e)
           v == Wide(e)
           w == Wide(t)
<1>6. v = w
  <2>1. /\ n \in Nat /\ n >= 1 /\ v \in Nat /\ w \in Nat
        /\ (IF e.enc THEN (v - 1) + (n + n) ELSE n * v + n * v) = IF t.enc THEN (w - 1) + (n + n) ELSE n * w + n * w
    BY <1>1, <1>2, <1>3, <1>5
  <2>2. (e.enc <=> Encode /\ e.mul /\ v > 1) /\ (t.enc <=> Encode /\ e.mul /\ w > 1)
    BY <1>1, <1>4
  <2>3. v > 1 \/ v = 1 \/ v = 0
    BY <2>1
  <2>4. w > 1 \/ w = 1 \/ w = 0
    BY <2>1
  <2>5. n * 1 = n /\ n * 0 = 0
    BY <2>1
  <2> HIDE DEF n, v, w
  <2>6. CASE e.enc /\ t.enc
    BY <2>1, <2>6
  <2>7. CASE e.enc /\ ~t.enc
    <3>1. v > 1 /\ (w = 0 \/ w = 1) /\ (v - 1) + (n + n) = n * w + n * w
      BY <2>1, <2>2, <2>4, <2>7
    <3>2. n * w = n \/ n * w = 0
      BY <2>5, <3>1
    <3> QED BY <2>1, <3>1, <3>2
  <2>8. CASE ~e.enc /\ t.enc
    <3>1. w > 1 /\ (v = 0 \/ v = 1) /\ (w - 1) + (n + n) = n * v + n * v
      BY <2>1, <2>2, <2>3, <2>8
    <3>2. n * v = n \/ n * v = 0
      BY <2>5, <3>1
    <3> QED BY <2>1, <3>1, <3>2
  <2>9. CASE ~e.enc /\ ~t.enc
    <3>1. n * v + n * v = n * w + n * w
      BY <2>1, <2>9
    <3>2. n * v = n * w
      <4>1. n * v \in Nat /\ n * w \in Nat
        BY <2>1
      <4> QED BY <3>1, <4>1
    <3>3. \A a, b \in Nat : a < b => n * a < n * b
      <4> SUFFICES ASSUME NEW a \in Nat, NEW b \in Nat, a < b PROVE n * a < n * b
        OBVIOUS
      <4>1. b - a \in Nat /\ b - a >= 1 /\ b = a + (b - a)
        OBVIOUS
      <4>2. n * b = n * a + n * (b - a)
        BY <2>1
      <4>3. n * (b - a) >= 1
        BY <2>1, <4>1
      <4>4. n * a \in Nat /\ n * b \in Nat /\ n * (b - a) \in Nat
        BY <2>1, <4>1
      <4> QED BY <4>2, <4>3, <4>4
    <3>4. ~(v < w) /\ ~(w < v)
      <4>1. n * v \in Nat
        BY <2>1
      <4> QED BY <2>1, <3>2, <3>3, <4>1
    <3> QED BY <2>1, <3>4
  <2> QED BY <2>6, <2>7, <2>8, <2>9
<1>7. t.enc = e.enc
  BY <1>1, <1>4, <1>6
<1> QED BY <1>4, <1>5, <1>6, <1>7

\* What a reference makes of the blocks of its target are the blocks sels.
Taken(r, blocks, sels) ==
    /\ DOMAIN blocks = DOMAIN sels
    /\ \A k \in DOMAIN sels :
          /\ blocks[k].count = sels[k].count
          /\ r.rec => /\ [blocks[k].start EXCEPT ![1] = r.recnum] = sels[k].start
                      /\ [blocks[k].count EXCEPT ![1] = 1] = sels[k].count
          /\ ~r.rec => blocks[k].start = sels[k].start

LEMMA FirstReplaced ==
    ASSUME NEW c \in Seq(Nat), NEW x \in Nat, NEW y \in Nat
    PROVE  [(<<x>> \o c) EXCEPT ![1] = y] = <<y>> \o c
<1> DEFINE s == <<x>> \o c
           r == <<y>> \o c
           m == Len(c) + 1
<1>1. Len(c) \in Nat
  OBVIOUS
<1>2. \A a \in Nat : <<a>> \in Seq(Nat) /\ Len(<<a>>) = 1 /\ <<a>>[1] = a
  OBVIOUS
<1>3. /\ s \in Seq(Nat) /\ Len(s) = 1 + Len(c)
      /\ \A i \in 1 .. 1 + Len(c) : s[i] = IF i <= 1 THEN <<x>>[i] ELSE c[i - 1]
  BY <1>2, ConcatProperties
<1>4. /\ r \in Seq(Nat) /\ Len(r) = 1 + Len(c)
      /\ \A i \in 1 .. 1 + Len(c) : r[i] = IF i <= 1 THEN <<y>>[i] ELSE c[i - 1]
  BY <1>2, ConcatProperties
<1> HIDE DEF s, r
<1>5. 1 + Len(c) = m /\ m \in Nat /\ m >= 1
  BY <1>1
<1>6. s \in [1 .. m -> Nat] /\ r \in [1 .. m -> Nat]
  BY <1>3, <1>4, <1>5, LenProperties
<1> HIDE DEF m
<1>7. r[1] = y /\ \A i \in 1 .. m : i # 1 => r[i] = s[i]
  <2>1. <<y>>[1] = y
    BY <1>2
  <2>2. 1 \in 1 .. 1 + Len(c) /\ 1 <= 1
    BY <1>1
  <2>3. r[1] = y
    BY <1>4, <2>1, <2>2
  <2>4. ASSUME NEW i \in 1 .. m, i # 1 PROVE r[i] = s[i]
    <3>1. i \in 1 .. 1 + Len(c) /\ ~(i <= 1)
      BY <1>5, <2>4
    <3> QED BY <1>3, <1>4, <3>1
  <2> QED BY <2>3, <2>4
<1>8. [s EXCEPT ![1] = y] = r
  BY <1>5, <1>6, <1>7
<1> QED BY <1>8 DEF s, r

LEMMA RefTakes ==
    ASSUME NEW e, NEW t, Shaped(e), Shaped(t), ~e.ref, ~t.ref, t.body = e.body, MetaSize(t) = MetaSize(e),
           e.recnum \in Nat, t.recnum \in Nat,
           NEW r, r.rec = (e.rec /\ ~(t.rec /\ t.recnum = e.recnum)), r.rec => r.recnum = e.recnum
    PROVE  Taken(r, Decode(t), Decode(e))
<1>1. /\ t.rec = e.rec /\ t.mul = e.mul /\ Num(t) = Num(e) /\ Wide(t) = Wide(e) /\ t.enc = e.enc
      /\ Words(t) = Words(e)
  BY SameShape
<1> DEFINE n == Num(e)
           a == Decode(t)
           b == Decode(e)
<1>2. a = [k \in 1 .. n |-> [start |-> Lead(e.rec, t.recnum) \o CordAt(e, k),
                              count |-> Lead(e.rec, 1) \o CordAt(e, n + k)]]
  <2>1. Decode(t) = [k \in 1 .. Num(t) |-> [start |-> Lead(t.rec, t.recnum) \o CordAt(t, k),
                                            count |-> Lead(t.rec, 1) \o CordAt(t, Num(t) + k)]]
    <3>1. t.did \in Dids /\ t.rec \in BOOLEAN /\ (t.rec => t.did \in Record)
      BY DEF Shaped
    <3> QED BY <3>1, DecodeIs
  <2>2. \A k : CordAt(t, k) = CordAt(e, k)
    BY <1>1 DEF CordAt
  <2>3. /\ 1 .. Num(t) = 1 .. n /\ Lead(t.rec, t.recnum) = Lead(e.rec, t.recnum)
        /\ Lead(t.rec, 1) = Lead(e.rec, 1) /\ Num(t) = n
    BY <1>1
  <2> HIDE DEF n
  <2>4. Decode(t) = [k \in 1 .. n |-> [start |-> Lead(e.rec, t.recnum) \o CordAt(t, k),
                                       count |-> Lead(e.rec, 1) \o CordAt(t, n + k)]]
    BY <2>1, <2>3, Zenon
  <2>5. \A k \in 1 .. n : CordAt(t, k) = CordAt(e, k) /\ CordAt(t, n + k) = CordAt(e, n + k)
    BY <2>2
  <2> QED BY <2>4, <2>5
<1>3. b = [k \in 1 .. n |-> [start |-> Lead(e.rec, e.recnum) \o CordAt(e, k),
                              count |-> Lead(e.rec, 1) \o CordAt(e, n + k)]]
  <2>1. e.did \in Dids /\ e.rec \in BOOLEAN /\ (e.rec => e.did \in Record)
    BY DEF Shaped
  <2> QED BY <2>1, DecodeIs
<1>4. \A k \in 1 .. n : CordAt(e, k) \in Seq(Nat) /\ CordAt(e, n + k) \in Seq(Nat)
  BY DEF Shaped
<1> HIDE DEF n, a, b
<1>5. DOMAIN a = 1 .. n /\ DOMAIN b = 1 .. n
  BY <1>2, <1>3
<1>6. ASSUME NEW k \in 1 .. n
      PROVE  /\ a[k].count = b[k].count
             /\ r.rec => /\ [a[k].start EXCEPT ![1] = r.recnum] = b[k].start
                         /\ [a[k].count EXCEPT ![1] = 1] = b[k].count
             /\ ~r.rec => a[k].start = b[k].start
  <2>1. a[k].start = Lead(e.rec, t.recnum) \o CordAt(e, k) /\ a[k].count = Lead(e.rec, 1) \o CordAt(e, n + k)
    BY <1>2
  <2>2. b[k].start = Lead(e.rec, e.recnum) \o CordAt(e, k) /\ b[k].count = Lead(e.rec, 1) \o CordAt(e, n + k)
    BY <1>3
  <2>3. ASSUME r.rec
        PROVE  /\ [a[k].start EXCEPT ![1] = r.recnum] = b[k].start
               /\ [a[k].count EXCEPT ![1] = 1] = b[k].count
    <3>1. e.rec /\ r.recnum = e.recnum
      BY <2>3
    <3>2. a[k].start = <<t.recnum>> \o CordAt(e, k) /\ b[k].start = <<e.recnum>> \o CordAt(e, k)
      BY <2>1, <2>2, <3>1 DEF Lead
    <3>3. a[k].count = <<1>> \o CordAt(e, n + k) /\ b[k].count = <<1>> \o CordAt(e, n + k)
      BY <2>1, <2>2, <3>1 DEF Lead
    <3>4. [(<<t.recnum>> \o CordAt(e, k)) EXCEPT ![1] = e.recnum] = <<e.recnum>> \o CordAt(e, k)
      BY <1>4, FirstReplaced
    <3>5. [(<<1>> \o CordAt(e, n + k)) EXCEPT ![1] = 1] = <<1>> \o CordAt(e, n + k)
      BY <1>4, FirstReplaced
    <3> QED BY <3>1, <3>2, <3>3, <3>4, <3>5
  <2>4. ASSUME ~r.rec PROVE a[k].start = b[k].start
    <3>1. ~e.rec \/ t.recnum = e.recnum
      BY <2>4
    <3> QED BY <2>1, <2>2, <3>1 DEF Lead
  <2> QED BY <2>1, <2>2, <2>3, <2>4
<1> QED BY <1>5, <1>6 DEF Taken, a, b
-----------------------------------------------------------------------------
(***************************************************************************)
(* What the list index keeps of an entry                                   *)
(***************************************************************************)
\* The blocks of a, with the data offsets of the blocks b.
OffsetsOf(n, a, b, z) ==
    /\ DOMAIN WithOffsets(a, z) = 1 .. n /\ DOMAIN WithOffsets(b, z) = 1 .. n
    /\ \A k \in 1 .. n : /\ WithOffsets(a, z)[k].start = a[k].start
                         /\ WithOffsets(a, z)[k].count = a[k].count
                         /\ WithOffsets(a, z)[k].doff = WithOffsets(b, z)[k].doff

LEMMA OffsetsSame ==
    ASSUME NEW n \in Nat, NEW a, NEW b, DOMAIN a = 1 .. n, DOMAIN b = 1 .. n, NEW z,
           \A k \in 1 .. n : a[k].count = b[k].count
    PROVE  OffsetsOf(n, a, b, z)
<1> DEFINE Doff(s, k) == z * SumFunction([j \in 1 .. k - 1 |-> NumElems(s[j].count)])
<1>1. /\ WithOffsets(a, z) = [k \in 1 .. n |-> [start |-> a[k].start, count |-> a[k].count, doff |-> Doff(a, k)]]
      /\ WithOffsets(b, z) = [k \in 1 .. n |-> [start |-> b[k].start, count |-> b[k].count, doff |-> Doff(b, k)]]
  BY DEF WithOffsets
<1>2. ASSUME NEW k \in 1 .. n PROVE Doff(a, k) = Doff(b, k)
  <2>1. \A j \in 1 .. k - 1 : j \in 1 .. n
    OBVIOUS
  <2>2. [j \in 1 .. k - 1 |-> NumElems(a[j].count)] = [j \in 1 .. k - 1 |-> NumElems(b[j].count)]
    BY <2>1
  <2> QED BY <2>2
<1> HIDE DEF Doff
<1> QED BY <1>1, <1>2 DEF OffsetsOf

LEMMA OwnBlocks ==
    ASSUME NEW sec, NEW k, Kept(sec[k]), ~sec[k].ref
    PROVE  ListBlocks(sec, k) = WithOffsets(Decode(sec[k]), ESize[sec[k].did])
  BY DEF ListBlocks

LEMMA TakenBlocks ==
    ASSUME NEW sec, NEW k \in Nat, NEW j \in 1 .. k - 1, Target(sec, k) = {j}, Kept(sec[k]), sec[k].ref = TRUE,
           NEW sels, Len(sels) \in Nat, DOMAIN sels = 1 .. Len(sels),
           Taken(sec[k], Decode(sec[j]), sels), sec[k].rec \in BOOLEAN
    PROVE  ListBlocks(sec, k) = WithOffsets(sels, ESize[sec[j].did])
<1> DEFINE n == Len(sels)
           e == sec[k]
           z == ESize[sec[j].did]
           own == WithOffsets(Decode(sec[j]), z)
           want == WithOffsets(sels, z)
           In(b) == [b EXCEPT !.start = [@ EXCEPT ![1] = e.recnum], !.count = [@ EXCEPT ![1] = 1]]
           S == {want[i] : i \in 1 .. n}
           Own(i) == WithOffsets(Decode(sec[i]), ESize[sec[i].did])
           seqs == [i \in 1 .. k - 1 |-> IF i \notin Target(sec, k) THEN <<>>
                                         ELSE IF e.rec THEN [m \in DOMAIN Own(i) |-> In(Own(i)[m])]
                                         ELSE Own(i)]
<1>0. n \in Nat /\ DOMAIN sels = 1 .. n
  OBVIOUS
<1> HIDE DEF n
<1>1. ListBlocks(sec, k) = FlattenSeq(seqs)
  BY DEF ListBlocks
<1>2. /\ DOMAIN Decode(sec[j]) = 1 .. n
      /\ \A m \in 1 .. n :
            /\ Decode(sec[j])[m].count = sels[m].count
            /\ e.rec => /\ [Decode(sec[j])[m].start EXCEPT ![1] = e.recnum] = sels[m].start
                        /\ [Decode(sec[j])[m].count EXCEPT ![1] = 1] = sels[m].count
            /\ ~e.rec => Decode(sec[j])[m].start = sels[m].start
  BY <1>0 DEF Taken
<1> DEFINE a == Decode(sec[j])
<1>3. /\ DOMAIN own = 1 .. n /\ DOMAIN want = 1 .. n
      /\ \A m \in 1 .. n : own[m].start = a[m].start /\ own[m].count = a[m].count /\ own[m].doff = want[m].doff
  <2>1. DOMAIN a = 1 .. n /\ \A m \in 1 .. n : a[m].count = sels[m].count
    BY <1>2
  <2> HIDE DEF a, z
  <2>2. OffsetsOf(n, a, sels, z)
    BY <1>0, <2>1, OffsetsSame
  <2> QED BY <2>2 DEF a, OffsetsOf
<1>4. \A m \in 1 .. n : own[m] = [start |-> own[m].start, count |-> own[m].count, doff |-> own[m].doff]
  BY <1>2 DEF WithOffsets
<1>5. want = [m \in 1 .. n |-> [start |-> sels[m].start, count |-> sels[m].count, doff |-> want[m].doff]]
  BY <1>0 DEF WithOffsets
<1>6. own = [m \in 1 .. n |-> own[m]]
  BY <1>2 DEF WithOffsets
<1>7. seqs[j] = want
  <2>1. seqs[j] = IF e.rec THEN [m \in DOMAIN own |-> In(own[m])] ELSE own
    OBVIOUS
  <2> HIDE DEF own, want, seqs, e, a
  <2>2. ASSUME e.rec PROVE seqs[j] = want
    <3>1. ASSUME NEW m \in 1 .. n
          PROVE  In(own[m]) = [start |-> sels[m].start, count |-> sels[m].count, doff |-> want[m].doff]
      <4> DEFINE s == own[m].start
                 c == own[m].count
                 o == own[m].doff
      <4>1. own[m] = [start |-> s, count |-> c, doff |-> o]
        BY <1>4
      <4>2. [s EXCEPT ![1] = e.recnum] = sels[m].start /\ [c EXCEPT ![1] = 1] = sels[m].count
        BY <1>2, <1>3, <2>2 DEF a
      <4>3. o = want[m].doff
        BY <1>3
      <4>4. In(own[m]) = [own[m] EXCEPT !.start = [s EXCEPT ![1] = e.recnum], !.count = [c EXCEPT ![1] = 1]]
        OBVIOUS
      <4> DEFINE r == own[m]
                 x == [s EXCEPT ![1] = e.recnum]
                 y == [c EXCEPT ![1] = 1]
      <4> HIDE DEF s, c, o, r, x, y
      <4>6. r = [start |-> s, count |-> c, doff |-> o]
        BY <4>1 DEF r
      <4>7. [r EXCEPT !.start = x, !.count = y] = [start |-> x, count |-> y, doff |-> o]
        <5> DEFINE f == [r EXCEPT !.start = x, !.count = y]
                   R == [start : {s, x}, count : {c, y}, doff : {o}]
        <5>1. r \in R
          BY <4>6
        <5>2. f \in R /\ f.start = x /\ f.count = y /\ f.doff = o
          BY <4>6, <5>1
        <5> HIDE DEF f
        <5>3. f = [start |-> f.start, count |-> f.count, doff |-> f.doff]
          BY <5>2
        <5> QED BY <5>2, <5>3 DEF f
      <4>5. In(own[m]) = [start |-> [s EXCEPT ![1] = e.recnum], count |-> [c EXCEPT ![1] = 1], doff |-> o]
        BY <4>4, <4>7 DEF r, x, y
      <4> QED BY <4>2, <4>3, <4>5
    <3> HIDE DEF In
    <3> QED BY <1>3, <1>5, <2>1, <2>2, <3>1
  <2>3. ASSUME ~e.rec PROVE seqs[j] = want
    <3>1. ASSUME NEW m \in 1 .. n
          PROVE  own[m] = [start |-> sels[m].start, count |-> sels[m].count, doff |-> want[m].doff]
      <4>1. own[m].start = a[m].start /\ own[m].count = a[m].count /\ own[m].doff = want[m].doff
        BY <1>3
      <4>2. a[m].start = sels[m].start /\ a[m].count = sels[m].count
        BY <1>2, <2>3 DEF a
      <4>3. own[m] = [start |-> own[m].start, count |-> own[m].count, doff |-> own[m].doff]
        BY <1>4
      <4> QED BY <4>1, <4>2, <4>3
    <3> QED BY <1>3, <1>5, <1>6, <2>1, <2>3, <3>1
  <2> QED BY <2>2, <2>3
<1>8. want \in Seq(S)
  <2>1. want \in [1 .. n -> S]
    BY <1>3, <1>5
  <2> HIDE DEF want, S
  <2> QED BY <1>0, <2>1, SeqDef
<1>9. \A i \in 1 .. k - 1 : i # j => seqs[i] = <<>>
  OBVIOUS
<1>10. seqs \in [1 .. k - 1 -> Seq(S)]
  <2>1. <<>> \in Seq(S)
    <3> HIDE DEF S
    <3> QED OBVIOUS
  <2>2. seqs = [i \in 1 .. k - 1 |-> seqs[i]]
    OBVIOUS
  <2> HIDE DEF seqs, S, want
  <2>3. \A i \in 1 .. k - 1 : seqs[i] \in Seq(S)
    BY <1>7, <1>8, <1>9, <2>1
  <2> QED BY <2>2, <2>3
<1> HIDE DEF seqs, S, want, own, e, a
<1>11. FlattenSeq(seqs) = seqs[j]
  <2> DEFINE l == k - 1
  <2>1. l \in Nat /\ j \in 1 .. l
    OBVIOUS
  <2>2. seqs \in [1 .. l -> Seq(S)]
    BY <1>10
  <2>3. OnlyOne(seqs, l, j)
    BY <1>9 DEF OnlyOne
  <2> HIDE DEF l
  <2>4. FlattensToOne(seqs, j)
    BY <2>1, <2>2, <2>3, FlattenOnly
  <2> QED BY <2>4 DEF FlattensToOne
<1> QED BY <1>1, <1>7, <1>11 DEF want
-----------------------------------------------------------------------------
(***************************************************************************)
(* Entries stand at different offsets, so a reference has one target       *)
(***************************************************************************)
LEMMA SizePositive ==
    ASSUME NEW n, NEW e \in EntryOf(n)
    PROVE  MetaSize(e) >= 1
<1> DEFINE l == Len(e.body)
           rn == IF e.rec THEN 8 ELSE 0
           nb == IF e.mul /\ ~e.ref THEN 4 ELSE 0
<1>1. l \in Nat
  BY DEF EntryOf
<1>2. rn \in Nat /\ nb \in 0 .. 4
  OBVIOUS
<1>3. MetaSize(e) = 28 + rn + (8 * l - nb)
  BY DEF MetaSize, SelSize, HeaderSize
<1> HIDE DEF l, rn, nb
<1>4. 28 + rn + (8 * l - nb) >= 1
  BY <1>1, <1>2
<1> QED BY <1>3, <1>4

LEMMA PositionGrows ==
    ASSUME NEW n, NEW sec \in Seq(EntryOf(n)), NEW i \in DOMAIN sec, NEW k \in DOMAIN sec, i < k
    PROVE  Position(sec, i) < Position(sec, k)
<1> DEFINE L == Len(sec)
           T == {m \in Nat : m \in i + 1 .. L + 1 => Position(sec, i) < Position(sec, m)}
<1>1. L \in Nat /\ DOMAIN sec = 1 .. L /\ i \in 1 .. L /\ k \in 1 .. L /\ \A j \in 1 .. L : sec[j] \in EntryOf(n)
  BY LenProperties
<1>2. \A m \in 1 .. L + 1 : Position(sec, m) \in Nat
  BY PositionType
<1>3. \A m \in 1 .. L : Position(sec, m + 1) = Position(sec, m) + MetaSize(sec[m])
  BY PositionNext
<1>4. \A m \in 1 .. L : MetaSize(sec[m]) \in Nat /\ MetaSize(sec[m]) >= 1
  BY <1>1, SizeType, SizePositive
<1> HIDE DEF L
<1>5. 0 \in T
  BY <1>1
<1>6. ASSUME NEW m \in T PROVE m + 1 \in T
  <2> SUFFICES ASSUME m + 1 \in i + 1 .. L + 1 PROVE Position(sec, i) < Position(sec, m + 1)
    OBVIOUS
  <2>1. m \in Nat /\ m \in i .. L /\ m \in 1 .. L /\ m \in 1 .. L + 1 /\ m + 1 \in 1 .. L + 1 /\ i \in 1 .. L + 1
    BY <1>1
  <2>2. Position(sec, m) < Position(sec, m + 1)
    <3>1. Position(sec, m) \in Nat /\ MetaSize(sec[m]) \in Nat /\ MetaSize(sec[m]) >= 1
      BY <1>2, <1>4, <2>1
    <3> QED BY <1>3, <2>1, <3>1
  <2>3. CASE m = i
    BY <2>2, <2>3
  <2>4. CASE m # i
    <3>1. m \in i + 1 .. L + 1
      BY <1>1, <2>1, <2>4
    <3>2. Position(sec, i) < Position(sec, m)
      BY <3>1
    <3>3. Position(sec, i) \in Nat /\ Position(sec, m) \in Nat /\ Position(sec, m + 1) \in Nat
      BY <1>2, <2>1
    <3> QED BY <2>2, <3>2, <3>3
  <2> QED BY <2>3, <2>4
<1>7. T \in SUBSET Nat
  OBVIOUS
<1>8. k \in Nat /\ k \in i + 1 .. L + 1
  BY <1>1
<1> HIDE DEF T
<1>9. k \in T
  BY <1>5, <1>6, <1>7, <1>8, NumberInduction
<1> QED BY <1>8, <1>9 DEF T

LEMMA TargetIs ==
    ASSUME Unlinked = {}, NEW n, NEW sec \in Seq(EntryOf(n)), \A i \in DOMAIN sec : sec[i].meta_off = Position(sec, i),
           NEW k \in DOMAIN sec, NEW j \in 1 .. k - 1, ~sec[j].ref,
           sec[j].meta_off = sec[k].meta_off + sec[k].body[1]
    PROVE  Target(sec, k) = {j}
<1> DEFINE L == Len(sec)
<1>1. L \in Nat /\ DOMAIN sec = 1 .. L
  BY LenProperties
<1> HIDE DEF L
<1>2. j \in DOMAIN sec /\ \A i \in 1 .. k - 1 : i \in DOMAIN sec
  BY <1>1
<1>3. \A i \in DOMAIN sec : Position(sec, i) \in Nat
  <2>1. \A i \in 1 .. L : i \in 1 .. L + 1
    BY <1>1
  <2> QED BY <1>1, <2>1, PositionType DEF L
<1>4. Position(sec, j) = Position(sec, k) + sec[k].body[1]
  BY <1>2
<1>5. j \in Target(sec, k)
  BY <1>4 DEF Target, Kept
<1>6. ASSUME NEW i \in Target(sec, k) PROVE i = j
  <2>1. i \in 1 .. k - 1 /\ i \in DOMAIN sec /\ Position(sec, i) = Position(sec, j)
    BY <1>2, <1>4 DEF Target
  <2>2. i \in Nat /\ j \in Nat /\ Position(sec, i) \in Nat /\ Position(sec, j) \in Nat
    BY <1>1, <1>2, <1>3, <2>1
  <2>3. ~(i < j)
    BY <1>2, <2>1, <2>2, PositionGrows
  <2>4. ~(j < i)
    BY <1>2, <2>1, <2>2, PositionGrows
  <2> QED BY <2>2, <2>3, <2>4
<1> QED BY <1>5, <1>6
-----------------------------------------------------------------------------
(***************************************************************************)
(* A section whose entries hold their writes                               *)
(***************************************************************************)
\* Entry k of a section or queue stands for one of the writes h: its blocks are
\* those of the write, or those it takes over from the entry it refers to.
Holds(h, sec, k) ==
    /\ Len(sec[k].writes) = 1 /\ sec[k].writes[1] \in DOMAIN h
    /\ sec[k].did = h[sec[k].writes[1]].did
    /\ ~sec[k].ref => Decode(sec[k]) = Sels(h[sec[k].writes[1]])
    /\ sec[k].ref =>
          \E j \in 1 .. k - 1 : /\ ~sec[j].ref /\ sec[j].meta_off = sec[k].meta_off + sec[k].body[1]
                                /\ Taken(sec[k], Decode(sec[j]), Sels(h[sec[k].writes[1]]))

\* The elements of all datasets have the same size.
OneSize == \A d \in Dids, c \in Dids : ESize[d] = ESize[c]

LEMMA SectionKeeps ==
    ASSUME Unlinked = {}, OneSize, NEW h \in Seq(Requests), NEW n, NEW sec \in Seq(EntryOf(n)),
           \A i \in DOMAIN sec : sec[i].meta_off = Position(sec, i),
           NEW k \in DOMAIN sec, Holds(h, sec, k)
    PROVE  ListBlocks(sec, k) =
               WithOffsets(Sels(h[sec[k].writes[1]]), ESize[h[sec[k].writes[1]].did])
<1> DEFINE e == sec[k]
           q == h[e.writes[1]]
           sels == Sels(q)
           m == Len(sels)
           L == Len(sec)
<1>1. L \in Nat /\ DOMAIN sec = 1 .. L /\ k \in Nat /\ \A j \in 1 .. L : sec[j] \in EntryOf(n)
  BY LenProperties
<1>2. e \in EntryOf(n) /\ e.rec \in BOOLEAN /\ e.ref \in BOOLEAN /\ e.did = q.did
  BY <1>1 DEF EntryOf, Holds
<1>3. q \in Requests
  BY LenProperties DEF Holds
<1>4. q.did \in Dids /\ m \in Nat /\ DOMAIN sels = 1 .. m
  <2>1. q.did \in Dids /\ sels \in Seq(BlockOf(q.did))
    BY <1>3, ConvertedTypes
  <2> HIDE DEF sels
  <2> QED BY <2>1, LenProperties
<1>5. Kept(e)
  BY DEF Kept
<1>6. CASE ~e.ref
  <2>1. Decode(e) = sels
    BY <1>6 DEF Holds
  <2>2. ListBlocks(sec, k) = WithOffsets(Decode(e), ESize[e.did])
    BY <1>5, <1>6, OwnBlocks
  <2> QED BY <1>2, <2>1, <2>2
<1>7. CASE e.ref
  <2>1. PICK j \in 1 .. k - 1 : /\ ~sec[j].ref /\ sec[j].meta_off = sec[k].meta_off + sec[k].body[1]
                                /\ Taken(sec[k], Decode(sec[j]), sels)
    BY <1>7 DEF Holds
  <2>2. Target(sec, k) = {j}
    BY <2>1, TargetIs
  <2>3. sec[j].did \in Dids
    <3>1. j \in 1 .. L
      BY <1>1
    <3> QED BY <1>1, <3>1 DEF EntryOf
  <2>4. ESize[sec[j].did] = ESize[q.did]
    BY <1>4, <2>3 DEF OneSize
  <2>5. sec[k].ref = TRUE
    BY <1>2, <1>7
  <2>7. Len(sels) \in Nat /\ DOMAIN sels = 1 .. Len(sels)
    BY <1>4
  <2>8. k \in Nat /\ j \in 1 .. k - 1 /\ Kept(sec[k]) /\ sec[k].rec \in BOOLEAN
    BY <1>1, <1>2, <1>5
  <2>9. Taken(sec[k], Decode(sec[j]), sels)
    BY <2>1
  <2> HIDE DEF sels, m, e, q, L
  <2>6. ListBlocks(sec, k) = WithOffsets(sels, ESize[sec[j].did])
    BY <2>2, <2>5, <2>7, <2>8, <2>9, TakenBlocks
  <2> QED BY <2>4, <2>6 DEF sels, q, e
<1> QED BY <1>6, <1>7

LEMMA DecodeSame ==
    ASSUME NEW a, NEW b, SameEntry(a, b)
    PROVE  Decode(a) = Decode(b)
  BY DEF SameEntry, Decode

\* A longer history and entries moved in the data change nothing.
LEMMA HoldsStill ==
    ASSUME NEW h, NEW g, DOMAIN h \subseteq DOMAIN g, \A i \in DOMAIN h : g[i] = h[i],
           NEW a, NEW b, NEW k \in Nat, \A j \in 1 .. k : SameEntry(b[j], a[j]), k >= 1, Holds(h, a, k)
    PROVE  Holds(g, b, k)
<1>1. k \in 1 .. k /\ \A j \in 1 .. k - 1 : j \in 1 .. k
  OBVIOUS
<1>2. SameEntry(b[k], a[k]) /\ Decode(b[k]) = Decode(a[k])
  BY <1>1, DecodeSame
<1>3. \A j \in 1 .. k - 1 : b[j].ref = a[j].ref /\ b[j].meta_off = a[j].meta_off /\ Decode(b[j]) = Decode(a[j])
  <2>1. \A j \in 1 .. k - 1 : SameEntry(b[j], a[j])
    BY <1>1
  <2> QED BY <2>1, DecodeSame DEF SameEntry
<1> DEFINE w == a[k].writes[1]
<1>4. b[k].writes[1] = w /\ w \in DOMAIN h /\ g[w] = h[w] /\ w \in DOMAIN g
  BY <1>2 DEF SameEntry, Holds
<1>6. \A x, y : Taken(a[k], x, y) => Taken(b[k], x, y)
  <2>1. b[k].rec = a[k].rec /\ b[k].recnum = a[k].recnum
    BY <1>2 DEF SameEntry
  <2> QED BY <2>1 DEF Taken
<1>7. ASSUME b[k].ref
      PROVE  \E j \in 1 .. k - 1 : /\ ~b[j].ref /\ b[j].meta_off = b[k].meta_off + b[k].body[1]
                                   /\ Taken(b[k], Decode(b[j]), Sels(g[w]))
  <2>1. PICK j \in 1 .. k - 1 : /\ ~a[j].ref /\ a[j].meta_off = a[k].meta_off + a[k].body[1]
                                /\ Taken(a[k], Decode(a[j]), Sels(h[w]))
    BY <1>2, <1>7 DEF SameEntry, Holds
  <2>2. Taken(b[k], Decode(b[j]), Sels(g[w]))
    BY <1>3, <1>4, <1>6, <2>1
  <2> QED BY <1>2, <1>3, <2>1, <2>2 DEF SameEntry
<1>8. ~b[k].ref => Decode(b[k]) = Sels(g[w])
  BY <1>2, <1>4 DEF SameEntry, Holds
<1>9. Len(b[k].writes) = 1 /\ b[k].did = g[w].did
  BY <1>2, <1>4 DEF SameEntry, Holds
<1> HIDE DEF w
<1> QED BY <1>4, <1>7, <1>8, <1>9 DEF Holds
-----------------------------------------------------------------------------
(***************************************************************************)
(* The steps a dataset keeps are those of its dims                         *)
(***************************************************************************)
\* The dims a dataset may have while it is written to.
SizesOf(d) == {Dims[d]} \cup {x.size : x \in {y \in Extents : y.did = d /\ Allowed(y)}}

\* Encoded blocks are narrower than their dataset in all but the first dimension.
NarrowBlocks ==
    Encode => \A q \in Requests : Len(Sels(q)) > 1 =>
        \A k \in DOMAIN Sels(q) : \A x \in SizesOf(q.did) : \A i \in DOMAIN x \ {1} :
            Sels(q)[k].count[i] # 0 /\ Sels(q)[k].count[i] # x[i]

\* A refused change of the dims is refused before any of them is changed.
RefusedAtOnce ==
    Encode => \A x \in Extents : ~Allowed(x) => x.size[1] > MaxDims[x.did][1]

StepsInv ==
    Encode => \A d \in Dids : extent[d] \in SizesOf(d) /\ dsteps[d] = DSteps(extent[d])

LEMMA InitSteps == Init => StepsInv
  BY DEF Init, StepsInv, SizesOf

LEMMA StepSteps ==
    ASSUME RefusedAtOnce, TypeInv, StepsInv, [Next]_vars
    PROVE  StepsInv'
<1>1. ASSUME NEW x \in Extents, SetExtent(x) PROVE StepsInv'
  <2> SUFFICES ASSUME Encode, NEW d \in Dids
               PROVE  extent'[d] \in SizesOf(d) /\ dsteps'[d] = DSteps(extent'[d])
    BY DEF StepsInv
  <2>1. /\ Allowed(x) /\ x.did \in Dids
        /\ extent' = [extent EXCEPT ![x.did] = x.size]
        /\ dsteps' = [dsteps EXCEPT ![x.did] = DSteps(x.size)]
    BY <1>1, DatasetAssumption DEF SetExtent
  <2>2. extent \in [Dids -> Seq(Nat)] /\ dsteps \in [Dids -> Seq(Nat)]
    BY DEF TypeInv, Stepped
  <2>3. CASE d = x.did
    <3>1. extent'[d] = x.size /\ dsteps'[d] = DSteps(x.size)
      BY <2>1, <2>2, <2>3
    <3>2. x.size \in SizesOf(d)
      BY <2>1, <2>3 DEF SizesOf
    <3> QED BY <3>1, <3>2
  <2>4. CASE d # x.did
    BY <2>1, <2>2, <2>4 DEF StepsInv
  <2> QED BY <2>3, <2>4
<1>2. ASSUME NEW x \in Extents, SetExtentRefused(x) PROVE StepsInv'
  <2> SUFFICES ASSUME Encode PROVE StepsInv'
    BY DEF StepsInv
  <2> DEFINE Exceeded(i) == /\ x.size[i] > MaxDims[x.did][i]
                            /\ \A j \in 1 .. i - 1 : x.size[j] <= MaxDims[x.did][j]
             first == CHOOSE i \in DOMAIN x.size : Exceeded(i)
  <2>1. x.did \in Dids /\ x.size \in Seq(Nat)
    BY DatasetAssumption
  <2>2. 1 \in DOMAIN x.size /\ x.size[1] > MaxDims[x.did][1] /\ ~(x.size[1] <= MaxDims[x.did][1])
    <3>1. ~Allowed(x) /\ x.size[1] > MaxDims[x.did][1]
      BY <1>2 DEF SetExtentRefused, RefusedAtOnce
    <3>2. 1 \in DOMAIN x.size /\ x.size[1] \in Nat
      <4>1. DOMAIN x.size # {}
        BY <3>1 DEF Allowed
      <4> DEFINE s == x.size
      <4>2. s \in Seq(Nat) /\ DOMAIN s # {}
        BY <2>1, <4>1
      <4> HIDE DEF s
      <4>3. 1 \in DOMAIN s /\ s[1] \in Nat
        BY <4>2
      <4> QED BY <4>3 DEF s
    <3>3. MaxDims[x.did][1] \in Nat
      <4> DEFINE s == x.size
                 m == MaxDims[x.did]
      <4>1. s \in Seq(Nat) /\ m \in Seq(Nat \ {0}) /\ Len(m) = Len(s) /\ 1 \in DOMAIN s
        BY <2>1, <3>2, DatasetAssumption
      <4> HIDE DEF s, m
      <4>2. m[1] \in Nat
        BY <4>1
      <4> QED BY <4>2 DEF m
    <3> QED BY <3>1, <3>2, <3>3
  <2>3. Exceeded(1)
    <3>1. 1 .. 1 - 1 = {}
      OBVIOUS
    <3> QED BY <2>2, <3>1
  <2>4. first \in DOMAIN x.size /\ Exceeded(first)
    BY <2>2, <2>3
  <2>5. DOMAIN x.size \subseteq Nat \ {0}
    BY <2>1
  <2>6. extent' = [extent EXCEPT ![x.did] = [i \in DOMAIN @ |-> IF i < first THEN x.size[i] ELSE @[i]]]
    BY <1>2 DEF SetExtentRefused
  <2> HIDE DEF first
  <2>7. first = 1
    <3> SUFFICES ASSUME first # 1 PROVE FALSE
      OBVIOUS
    <3>1. 1 \in 1 .. first - 1
      BY <2>4, <2>5
    <3> QED BY <2>2, <2>4, <3>1
  <2>8. extent \in [Dids -> Seq(Nat)]
    BY DEF TypeInv
  <2>9. [i \in DOMAIN extent[x.did] |-> IF i < first THEN x.size[i] ELSE extent[x.did][i]] = extent[x.did]
    <3> DEFINE s == extent[x.did]
    <3>1. s \in Seq(Nat) /\ DOMAIN s \subseteq Nat \ {0} /\ s = [i \in DOMAIN s |-> s[i]]
      BY <2>1, <2>8
    <3> HIDE DEF s
    <3>2. \A i \in DOMAIN s : ~(i < first)
      BY <2>7, <3>1
    <3>3. [i \in DOMAIN s |-> IF i < first THEN x.size[i] ELSE s[i]] = s
      BY <3>1, <3>2
    <3> QED BY <3>3 DEF s
  <2>10. extent' = extent
    BY <2>6, <2>8, <2>9
  <2>11. dsteps' = dsteps
    BY <1>2 DEF SetExtentRefused
  <2> QED BY <2>10, <2>11 DEF StepsInv
<1>3. CASE UNCHANGED <<extent, dsteps>>
  BY <1>3 DEF StepsInv
<1>4. ASSUME NEW q \in Requests, Write(q) \/ WriteRefused(q) PROVE UNCHANGED <<extent, dsteps>>
  BY <1>4 DEF Write, WriteRefused
<1>5. CASE FlushData \/ FlushMeta \/ UNCHANGED vars
  BY <1>3, <1>5 DEF FlushData, FlushMeta, vars
<1> QED BY <1>1, <1>2, <1>3, <1>4, <1>5 DEF Next

LEMMA FitsNow ==
    ASSUME TypeInv, StepsInv, NarrowBlocks, Encode, NEW q \in Requests, Len(Sels(q)) > 1,
           NEW e, e.did = q.did, MayWrite(Sels(q), e)
    PROVE  Fits(q.did, Sels(q))
<1> DEFINE d == q.did
           sels == Sels(q)
           x == extent[d]
<1>1. d \in Dids /\ sels \in Seq(BlockOf(d))
  BY ConvertedTypes
<1>2. x \in CordsOf(d) /\ x \in SizesOf(d) /\ dsteps[d] = DSteps(x)
  BY <1>1 DEF TypeInv, StepsInv
<1>3. /\ Len(Dims[d]) \in Nat /\ CordsOf(d) = [1 .. Len(Dims[d]) -> Nat]
      /\ x \in Seq(Nat) /\ Len(x) = Len(Dims[d]) /\ DOMAIN x = 1 .. Len(Dims[d])
  <2>1. Len(Dims[d]) \in Nat /\ CordsOf(d) = [1 .. Len(Dims[d]) -> Nat]
    BY <1>1, DimsDomain
  <2> HIDE DEF d, x
  <2> QED BY <1>2, <2>1
<1>4. \A k \in DOMAIN sels : \A i \in DOMAIN sels[k].start : End(sels[k])[i] < x[i]
  <2>1. \A b \in Range(sels) : \A i \in DOMAIN b.start : End(b)[i] < extent[e.did][i]
    BY DEF MayWrite
  <2> HIDE DEF sels
  <2>2. \A k \in DOMAIN sels : sels[k] \in Range(sels)
    BY DEF Range
  <2> QED BY <2>1, <2>2
<1>5. \A k \in DOMAIN sels : \A i \in DOMAIN x \ {1} : sels[k].count[i] # 0 /\ sels[k].count[i] # x[i]
  BY <1>2 DEF NarrowBlocks
<1>6. \A k \in DOMAIN sels : sels[k] \in BlockOf(d)
  <2> HIDE DEF sels, d
  <2> QED BY <1>1, LenProperties
<1> HIDE DEF sels, x, d
<1>7. ASSUME NEW k \in DOMAIN sels PROVE Below(sels[k].start, x) /\ Below(sels[k].count, x)
  <2> DEFINE s == sels[k].start
             c == sels[k].count
  <2>1. s \in [1 .. Len(Dims[d]) -> Nat] /\ c \in [1 .. Len(Dims[d]) -> Nat]
    BY <1>3, <1>6 DEF BlockOf
  <2>2. \A i \in DOMAIN s : End(sels[k])[i] = s[i] + c[i] - 1
    BY DEF End
  <2> HIDE DEF s, c
  <2>3. ASSUME NEW i \in DOMAIN x \ {1} PROVE s[i] < x[i] /\ c[i] < x[i]
    <3>1. s[i] \in Nat /\ c[i] \in Nat /\ x[i] \in Nat /\ i \in DOMAIN s
      BY <1>3, <2>1
    <3>2. s[i] + c[i] - 1 < x[i]
      BY <1>4, <2>2, <3>1 DEF s
    <3>3. c[i] # 0 /\ c[i] # x[i]
      BY <1>5 DEF c
    <3> QED BY <3>1, <3>2, <3>3
  <2> QED BY <2>3 DEF Below, s, c
<1> QED BY <1>2, <1>3, <1>7 DEF Fits, d, sels
-----------------------------------------------------------------------------
(***************************************************************************)
(* Every entry keeps the blocks of its write                               *)
(***************************************************************************)
QueueHolds == \A k \in DOMAIN wreqs : Holds(hist, wreqs, k)

\* What an entry in the hash decodes to is what the queued one at its offset
\* decodes to.
HashHolds ==
    \A t \in hash : t.writes # <<>> =>
        /\ Shaped(t) /\ ~t.ref
        /\ \E k \in DOMAIN wreqs : /\ ~wreqs[k].ref /\ wreqs[k].meta_off = t.meta_off
                                   /\ Decode(wreqs[k]) = Decode(t)

KeepInv == QueueHolds /\ HashHolds /\ ListKeepsBlocks

LEMMA InitKeeps == Init => KeepInv
  BY DEF Init, KeepInv, QueueHolds, HashHolds, ListKeepsBlocks

\* The writes of an entry are in the history.
LEMMA SectionsStill ==
    ASSUME TypeInv, ListKeepsBlocks, sections' = sections,
           \A i \in DOMAIN hist : hist'[i] = hist[i]
    PROVE  ListKeepsBlocks'
<1> DEFINE n == Len(hist)
<1>1. n \in Nat /\ DOMAIN hist = 1 .. n /\ sections \in Seq(Seq(EntryOf(n)))
  BY LenProperties DEF TypeInv
<1> HIDE DEF n
<1>2. ASSUME NEW s \in DOMAIN sections, NEW k \in DOMAIN sections[s], Len(sections[s][k].writes) = 1
      PROVE  hist'[sections[s][k].writes[1]] = hist[sections[s][k].writes[1]]
  <2> DEFINE sec == sections[s]
             w == sections[s][k].writes
  <2>1. sec \in Seq(EntryOf(n))
    BY <1>1, LenProperties
  <2>2. sec[k] \in EntryOf(n)
    <3> HIDE DEF sec
    <3>1. k \in DOMAIN sec
      BY <1>2 DEF sec
    <3> QED BY <2>1, <3>1, LenProperties
  <2>3. w \in Seq(1 .. n)
    BY <2>2 DEF EntryOf
  <2>4. Len(w) = 1
    BY <1>2
  <2> HIDE DEF w
  <2>5. 1 \in 1 .. Len(w)
    BY <2>4
  <2>6. w[1] \in 1 .. n
    BY <2>3, <2>5, LenProperties
  <2>7. hist'[w[1]] = hist[w[1]]
    BY <1>1, <2>6
  <2> QED BY <2>7 DEF w
<1> QED BY <1>2 DEF ListKeepsBlocks

LEMMA RefEntryIs ==
    ASSUME NEW n, NEW e \in EntryOf(n), NEW t
    PROVE  /\ RefEntry(e, t).rec = (e.rec /\ ~(t.rec /\ t.recnum = e.recnum))
           /\ RefEntry(e, t).rec => RefEntry(e, t).recnum = e.recnum
           /\ RefEntry(e, t).writes = e.writes /\ RefEntry(e, t).did = e.did
  BY DEF RefEntry, EntryOf

LEMMA WriteKeeps ==
    ASSUME TypeInv, OffsetInv, HashQueued, StepsInv, NarrowBlocks, KeepInv,
           ~Merge, ~Reuses \/ Refused = {}, NEW q \in Requests, Write(q)
    PROVE  KeepInv'
<1> DEFINE n == Len(hist)
           d == q.did
           sels == Sels(q)
           e == NewEntry(d, sels)
           r == SharedEntry(e)
           L == Len(wreqs)
<1>1. n \in Nat /\ DOMAIN hist = 1 .. n /\ hist \in Seq(Requests) /\ sels # <<>> /\ MayWrite(sels, e)
  BY LenProperties DEF TypeInv, Write, MayWrite
<1>2. d \in Dids /\ sels \in Seq(BlockOf(d))
  BY ConvertedTypes
<1>3. /\ hash' = hash \cup Hashed(e) /\ wreqs' = Append(wreqs, r) /\ sections' = sections
      /\ hist' = Append(hist, q)
  BY DEF Write
<1>4. e \in EntryOf(n + 1) /\ ~e.ref /\ e.meta_off = mdsize /\ e.did = d /\ e.writes = <<n + 1>>
  <2>1. Stepped /\ mdsize \in Nat
    BY DEF TypeInv
  <2> HIDE DEF d, sels
  <2>2. e \in EntryOf(n + 1) /\ ~e.ref /\ e.meta_off = mdsize /\ e.did = d
    BY <1>1, <1>2, <2>1, NewEntryType
  <2>3. e.writes = <<n + 1>>
    BY DEF NewEntry
  <2> QED BY <2>2, <2>3
<1>5. Shaped(e) /\ Decode(e) = sels
  <2>1. Encode /\ Len(sels) > 1 => Fits(d, sels)
    BY <1>1, <1>4, FitsNow
  <2>2. Stepped
    BY DEF TypeInv
  <2> DEFINE f == NewEntry(d, sels)
  <2>3. f = e
    OBVIOUS
  <2> HIDE DEF d, sels, e, f
  <2>4. f = NewEntry(d, sels)
    BY DEF f
  <2>5. Shaped(f) /\ Decode(f) = sels
    BY <1>1, <1>2, <2>1, <2>2, <2>4, EntryDecodes
  <2> QED BY <2>3, <2>5
<1> HIDE DEF d, sels, e
<1>6. hash \in SUBSET EntryOf(n) /\ mdsize \in Nat /\ wreqs \in Seq(EntryOf(n))
  BY DEF TypeInv
<1>7. r \in EntryOf(n + 1) /\ r.meta_off = mdsize
  <2> HIDE DEF n
  <2> QED BY <1>4, <1>6, SharedType, SharedOffset
<1>8. L \in Nat /\ DOMAIN wreqs = 1 .. L /\ wreqs \in Seq(EntryOf(n + 1))
  BY <1>1, <1>6, KeptTypes, LenProperties
<1>9. \A t \in Equal(e) : /\ t \in hash /\ t.writes # <<>>
                          /\ t.body = e.body /\ MetaSize(t) = MetaSize(e)
  <2>1. \A t \in Equal(e) : t \in hash /\ t.body = e.body /\ MetaSize(t) = MetaSize(e)
    BY DEF Equal
  <2>2. CASE ~Reuses
    BY <1>1, <2>1, <2>2 DEF MayWrite
  <2>3. CASE Refused = {}
    BY <2>1, <2>3 DEF HashQueued
  <2> QED BY <2>2, <2>3
<1>10. r.writes = <<n + 1>> /\ r.did = d
  <2>1. CASE Sharable(e) /\ Equal(e) # {}
    <3> DEFINE t == CHOOSE t \in Equal(e) : TRUE
    <3>1. r = RefEntry(e, t) /\ t \in Equal(e)
      BY <2>1 DEF SharedEntry
    <3> HIDE DEF t, r
    <3>3. RefEntry(e, t).writes = e.writes /\ RefEntry(e, t).did = e.did
      BY <1>4, RefEntryIs
    <3> QED BY <1>4, <3>1, <3>3
  <2>2. CASE ~(Sharable(e) /\ Equal(e) # {})
    BY <1>4, <2>2 DEF SharedEntry
  <2> QED BY <2>1, <2>2
<1>11. ~r.ref => r = e
  <2>1. CASE Sharable(e) /\ Equal(e) # {}
    <3> DEFINE t == CHOOSE t \in Equal(e) : TRUE
    <3>1. r = RefEntry(e, t) /\ t \in Equal(e)
      BY <2>1 DEF SharedEntry
    <3> HIDE DEF t, r
    <3>2. t \in EntryOf(n)
      BY <1>6, <1>9, <3>1
    <3>3. RefEntry(e, t).ref
      BY <1>4, <1>6, <3>2, RefEntryType
    <3> QED BY <3>1, <3>3
  <2>2. CASE ~(Sharable(e) /\ Equal(e) # {})
    BY <2>2 DEF SharedEntry
  <2> QED BY <2>1, <2>2
<1>12. r.ref => \E j \in 1 .. L : /\ ~wreqs[j].ref /\ wreqs[j].meta_off = r.meta_off + r.body[1]
                                  /\ Taken(r, Decode(wreqs[j]), sels)
  <2> SUFFICES ASSUME r.ref
               PROVE  \E j \in 1 .. L : /\ ~wreqs[j].ref /\ wreqs[j].meta_off = r.meta_off + r.body[1]
                                        /\ Taken(r, Decode(wreqs[j]), sels)
    OBVIOUS
  <2>1. Sharable(e) /\ Equal(e) # {}
    BY <1>4 DEF SharedEntry
  <2> DEFINE t == CHOOSE t \in Equal(e) : TRUE
  <2>2. t \in Equal(e)
    BY <2>1
  <2>3. r = RefEntry(e, t)
    BY <2>1 DEF SharedEntry
  <2> HIDE DEF t, r, n
  <2>4. t \in EntryOf(n) /\ t.writes # <<>> /\ t \in hash /\ t.body = e.body /\ MetaSize(t) = MetaSize(e)
    BY <1>6, <1>9, <2>2
  <2>5. r.body[1] = t.meta_off - mdsize /\ t.meta_off \in Nat
    <3>1. RefEntry(e, t).body = <<t.meta_off - mdsize>>
      BY <1>4, RefEntryBody
    <3> QED BY <2>3, <2>4, <3>1 DEF EntryOf
  <2>6. Shaped(t) /\ ~t.ref
    BY <2>4 DEF KeepInv, HashHolds
  <2>7. PICK j \in 1 .. L : ~wreqs[j].ref /\ wreqs[j].meta_off = t.meta_off /\ Decode(wreqs[j]) = Decode(t)
    BY <1>8, <2>4 DEF KeepInv, HashHolds
  <2>8. e.recnum \in Nat /\ t.recnum \in Nat
    BY <1>4, <2>4 DEF EntryOf
  <2>9. r.rec = (e.rec /\ ~(t.rec /\ t.recnum = e.recnum)) /\ (r.rec => r.recnum = e.recnum)
    BY <1>4, <2>3, RefEntryIs
  <2>10. Taken(r, Decode(t), Decode(e))
    BY <1>4, <1>5, <2>4, <2>6, <2>8, <2>9, RefTakes
  <2>11. mdsize + (t.meta_off - mdsize) = t.meta_off
    BY <1>6, <2>5
  <2> QED BY <1>5, <1>7, <2>5, <2>7, <2>10, <2>11
<1> HIDE DEF r, L, n
<1>13. /\ DOMAIN wreqs' = 1 .. L + 1 /\ wreqs'[L + 1] = r /\ \A k \in 1 .. L : wreqs'[k] = wreqs[k]
  <2>1. /\ wreqs' \in Seq(EntryOf(n + 1)) /\ Len(wreqs') = L + 1
        /\ wreqs'[L + 1] = r /\ \A k \in 1 .. L : wreqs'[k] = wreqs[k]
    BY <1>3, <1>7, <1>8, AppendProperties DEF L
  <2> QED BY <2>1, LenProperties
<1>14. /\ DOMAIN hist' = 1 .. n + 1 /\ hist'[n + 1] = q /\ \A i \in 1 .. n : hist'[i] = hist[i]
  <2>1. /\ hist' \in Seq(Requests) /\ Len(hist') = n + 1
        /\ hist'[n + 1] = q /\ \A i \in 1 .. n : hist'[i] = hist[i]
    BY <1>1, <1>3, AppendProperties DEF n
  <2> QED BY <2>1, LenProperties
<1>15. Holds(hist', wreqs', L + 1)
  <2>1. /\ wreqs'[L + 1] = r /\ Len(r.writes) = 1 /\ r.writes[1] = n + 1 /\ n + 1 \in DOMAIN hist'
        /\ hist'[n + 1] = q /\ r.did = q.did
    BY <1>1, <1>10, <1>13, <1>14 DEF d
  <2>2. ~r.ref => Decode(r) = Sels(q)
    BY <1>5, <1>11 DEF sels
  <2>3. r.ref => \E j \in 1 .. (L + 1) - 1 :
                    /\ ~wreqs'[j].ref /\ wreqs'[j].meta_off = r.meta_off + r.body[1]
                    /\ Taken(r, Decode(wreqs'[j]), Sels(q))
    <3>1. (L + 1) - 1 = L
      BY <1>8
    <3> QED BY <1>12, <1>13, <3>1 DEF sels
  <2> QED BY <2>1, <2>2, <2>3 DEF Holds
<1>16. ASSUME NEW k \in 1 .. L PROVE Holds(hist', wreqs', k)
  <2>1. Holds(hist, wreqs, k)
    BY <1>8 DEF KeepInv, QueueHolds
  <2>2. \A j \in 1 .. k : SameEntry(wreqs'[j], wreqs[j])
    BY <1>8, <1>13 DEF SameEntry
  <2>3. DOMAIN hist \subseteq DOMAIN hist' /\ \A i \in DOMAIN hist : hist'[i] = hist[i]
    BY <1>1, <1>14
  <2>4. k \in Nat /\ k >= 1
    BY <1>8
  <2> QED BY <2>1, <2>2, <2>3, <2>4, HoldsStill
<1>17. QueueHolds'
  <2>1. \A k \in 1 .. L + 1 : k = L + 1 \/ k \in 1 .. L
    BY <1>8
  <2> QED BY <1>13, <1>15, <1>16, <2>1 DEF QueueHolds
<1>18. L + 1 \in 1 .. L + 1 /\ \A k \in 1 .. L : k \in 1 .. L + 1
  BY <1>8
<1>19. ASSUME NEW t \in hash', t.writes # <<>>
       PROVE  /\ Shaped(t) /\ ~t.ref
              /\ \E k \in 1 .. L + 1 : /\ ~wreqs'[k].ref /\ wreqs'[k].meta_off = t.meta_off
                                       /\ Decode(wreqs'[k]) = Decode(t)
  <2>1. CASE t \in hash
    <3>1. Shaped(t) /\ ~t.ref
      BY <1>19, <2>1 DEF KeepInv, HashHolds
    <3>2. PICK k \in 1 .. L : ~wreqs[k].ref /\ wreqs[k].meta_off = t.meta_off /\ Decode(wreqs[k]) = Decode(t)
      BY <1>8, <1>19, <2>1 DEF KeepInv, HashHolds
    <3> QED BY <1>13, <1>18, <3>1, <3>2
  <2>2. CASE t \notin hash
    <3>1. t = e /\ ~(Sharable(e) /\ Equal(e) # {})
      BY <1>3, <2>2 DEF Hashed
    <3>2. r = e
      BY <3>1 DEF r, SharedEntry
    <3> QED BY <1>4, <1>5, <1>13, <1>18, <3>1, <3>2
  <2> QED BY <2>1, <2>2
<1>20. HashHolds'
  BY <1>13, <1>19 DEF HashHolds
<1>21. ListKeepsBlocks'
  BY <1>1, <1>3, <1>14, SectionsStill DEF KeepInv
<1> QED BY <1>17, <1>20, <1>21 DEF KeepInv

LEMMA FlushDataKeeps ==
    ASSUME TypeInv, OffsetInv, KeepInv, FlushData
    PROVE  KeepInv'
<1> DEFINE L == Len(wreqs)
<1>1. L \in Nat /\ DOMAIN wreqs = 1 .. L
  BY LenProperties DEF TypeInv
<1>2. /\ hash' = hash /\ sections' = sections /\ DOMAIN wreqs' = 1 .. L
      /\ \A k \in 1 .. L : SameEntry(wreqs'[k], wreqs[k])
  BY <1>1, FlushedInPlace
<1>3. hist' = hist
  BY DEF FlushData
<1> HIDE DEF L
<1>4. ASSUME NEW k \in 1 .. L PROVE Holds(hist', wreqs', k)
  <2>1. Holds(hist, wreqs, k)
    BY <1>1 DEF KeepInv, QueueHolds
  <2>2. \A j \in 1 .. k : SameEntry(wreqs'[j], wreqs[j])
    BY <1>1, <1>2
  <2>3. DOMAIN hist \subseteq DOMAIN hist' /\ \A i \in DOMAIN hist : hist'[i] = hist[i]
    BY <1>3
  <2>4. k \in Nat /\ k >= 1
    BY <1>1
  <2> QED BY <2>1, <2>2, <2>3, <2>4, HoldsStill
<1>5. QueueHolds'
  BY <1>2, <1>4 DEF QueueHolds
<1>6. ASSUME NEW t \in hash, t.writes # <<>>
      PROVE  /\ Shaped(t) /\ ~t.ref
             /\ \E k \in 1 .. L : /\ ~wreqs'[k].ref /\ wreqs'[k].meta_off = t.meta_off
                                  /\ Decode(wreqs'[k]) = Decode(t)
  <2>1. Shaped(t) /\ ~t.ref
    BY <1>6 DEF KeepInv, HashHolds
  <2>2. PICK k \in 1 .. L : ~wreqs[k].ref /\ wreqs[k].meta_off = t.meta_off /\ Decode(wreqs[k]) = Decode(t)
    BY <1>1, <1>6 DEF KeepInv, HashHolds
  <2>3. SameEntry(wreqs'[k], wreqs[k])
    BY <1>2
  <2>4. Decode(wreqs'[k]) = Decode(wreqs[k])
    BY <2>3, DecodeSame
  <2> QED BY <2>1, <2>2, <2>3, <2>4 DEF SameEntry
<1>7. HashHolds'
  BY <1>2, <1>6 DEF HashHolds
<1>8. ListKeepsBlocks'
  BY <1>2, <1>3, SectionsStill DEF KeepInv
<1> QED BY <1>5, <1>7, <1>8 DEF KeepInv

LEMMA FlushMetaKeeps ==
    ASSUME TypeInv, OffsetInv, KeepInv, Unlinked = {}, OneSize, FlushMeta
    PROVE  KeepInv'
<1> DEFINE S == Seq(EntryOf(Len(hist)))
           m == Len(sections)
<1>1. sections' = Append(sections, wreqs) /\ wreqs' = <<>> /\ hash' = {} /\ hist' = hist
  BY DEF FlushMeta
<1>2. wreqs \in S /\ sections \in Seq(S) /\ hist \in Seq(Requests)
  BY DEF TypeInv
<1> HIDE DEF S
<1>3. /\ m \in Nat /\ DOMAIN sections = 1 .. m /\ DOMAIN sections' = 1 .. m + 1
      /\ sections'[m + 1] = wreqs /\ \A s \in 1 .. m : sections'[s] = sections[s]
  <2>1. /\ sections' \in Seq(S) /\ Len(sections') = m + 1
        /\ sections'[m + 1] = wreqs /\ \A s \in 1 .. m : sections'[s] = sections[s]
    BY <1>1, <1>2, AppendProperties
  <2> QED BY <1>2, <2>1, LenProperties
<1> HIDE DEF m
<1> DEFINE SelsKept(sec, k) ==
               ListBlocks(sec, k) = WithOffsets(Sels(hist[sec[k].writes[1]]), ESize[hist[sec[k].writes[1]].did])
<1>4. ASSUME NEW k \in DOMAIN wreqs PROVE SelsKept(wreqs, k)
  <2>1. Holds(hist, wreqs, k)
    BY DEF KeepInv, QueueHolds
  <2>2. \A i \in DOMAIN wreqs : wreqs[i].meta_off = Position(wreqs, i)
    BY DEF OffsetInv
  <2>3. wreqs \in Seq(EntryOf(Len(hist)))
    BY <1>2 DEF S
  <2> QED BY <1>2, <2>1, <2>2, <2>3, SectionKeeps
<1>5. \A s \in DOMAIN sections : \A k \in DOMAIN sections[s] :
          Len(sections[s][k].writes) = 1 => SelsKept(sections[s], k)
  BY DEF KeepInv, ListKeepsBlocks
<1> HIDE DEF SelsKept
<1>6. ASSUME NEW s \in 1 .. m + 1, NEW k \in DOMAIN sections'[s], Len(sections'[s][k].writes) = 1
      PROVE  SelsKept(sections'[s], k)
  <2>1. CASE s = m + 1
    BY <1>3, <1>4, <1>6, <2>1
  <2>2. CASE s # m + 1
    <3>1. s \in 1 .. m
      BY <1>3, <2>2
    <3>2. sections'[s] = sections[s] /\ s \in DOMAIN sections
      BY <1>3, <3>1
    <3>3. SelsKept(sections[s], k)
      BY <1>5, <1>6, <3>2
    <3> QED BY <3>2, <3>3
  <2> QED BY <2>1, <2>2
<1>7. ListKeepsBlocks'
  BY <1>1, <1>3, <1>6 DEF ListKeepsBlocks, SelsKept
<1>8. QueueHolds' /\ HashHolds'
  BY <1>1 DEF QueueHolds, HashHolds
<1> QED BY <1>7, <1>8 DEF KeepInv

LEMMA WriteRefusedKeeps ==
    ASSUME TypeInv, KeepInv, NEW q \in Requests, WriteRefused(q)
    PROVE  KeepInv'
<1> DEFINE n == Len(hist)
           d == q.did
           sels == Sels(q)
           e == NewEntry(d, sels)
           f == [e EXCEPT !.writes = <<>>]
<1>1. n \in Nat /\ sels # <<>> /\ hash' = hash \cup Hashed(f)
  BY LenProperties DEF TypeInv, WriteRefused, MayWrite
<1>2. d \in Dids /\ sels \in Seq(BlockOf(d))
  BY ConvertedTypes
<1>3. UNCHANGED <<hist, wreqs, sections>>
  BY DEF WriteRefused
<1> HIDE DEF d, sels
<1>4. e \in EntryOf(n + 1)
  <2>1. Stepped /\ mdsize \in Nat
    BY DEF TypeInv
  <2> QED BY <1>1, <1>2, <2>1, NewEntryType
<1> HIDE DEF e
<1>5. f.writes = <<>>
  BY <1>4 DEF EntryOf
<1>6. \A t \in hash' : t \in hash \/ t.writes = <<>>
  BY <1>1, <1>5 DEF Hashed
<1> HIDE DEF f
<1>7. QueueHolds' /\ HashHolds'
  BY <1>3, <1>6 DEF KeepInv, QueueHolds, HashHolds
<1>8. ListKeepsBlocks'
  BY <1>3 DEF KeepInv, ListKeepsBlocks
<1> QED BY <1>7, <1>8 DEF KeepInv

LEMMA StepKeeps ==
    ASSUME ~Merge, Unlinked = {}, ~Reuses \/ Refused = {}, OneSize, NarrowBlocks,
           TypeInv, OffsetInv, LandInv, StepsInv, KeepInv, [Next]_vars
    PROVE  KeepInv'
<1>1. ASSUME NEW q \in Requests, Write(q) PROVE KeepInv'
  BY <1>1, WriteKeeps DEF LandInv
<1>2. ASSUME NEW q \in Requests, WriteRefused(q) PROVE KeepInv'
  BY <1>2, WriteRefusedKeeps
<1>3. ASSUME UNCHANGED <<hist, wreqs, hash, sections>> PROVE KeepInv'
  BY <1>3 DEF KeepInv, QueueHolds, HashHolds, ListKeepsBlocks
<1>4. ASSUME NEW x \in Extents, SetExtent(x) PROVE KeepInv'
  <2>1. wreqs' = wreqs
    BY <1>4, SetExtentOffsets
  <2>2. hist' = hist /\ hash' = hash /\ sections' = sections
    BY <1>4 DEF SetExtent
  <2> QED BY <1>3, <2>1, <2>2
<1>5. ASSUME NEW x \in Extents, SetExtentRefused(x) PROVE KeepInv'
  <2>1. UNCHANGED <<hist, wreqs, hash, sections>>
    BY <1>5 DEF SetExtentRefused
  <2> QED BY <1>3, <2>1
<1>6. CASE FlushData
  BY <1>6, FlushDataKeeps
<1>7. CASE FlushMeta
  BY <1>7, FlushMetaKeeps
<1>8. CASE UNCHANGED vars
  BY <1>3, <1>8 DEF vars
<1> QED BY <1>1, <1>2, <1>4, <1>5, <1>6, <1>7, <1>8 DEF Next

\* What the list index keeps of an entry are the blocks of the selection that
\* was written, and where the data of each of them starts: encoded or not, of a
\* record or not, shared with an entry of another write or not, whatever was
\* written, grown or flushed between.  The conditions are those under which the
\* code is right: entries are not merged, the dataset of a target is found and
\* its elements are as large, no entry of a refused write is reused, an encoded
\* block is narrower than its dataset, and a growth that is refused changes
\* nothing (H5VL_log_dataseti_write, H5VL_logi_metaentry_ref_decode).
THEOREM BlocksKept ==
    ASSUME ~Merge, Unlinked = {}, ~Reuses \/ Refused = {}, OneSize, NarrowBlocks, RefusedAtOnce
    PROVE  Spec => []ListKeepsBlocks
<1>1. Init => OffsetInv
  BY InitOffsets
<1>2. Init => LandInv
  BY DEF Init, LandInv, RefsQueued, HashQueued, RefsLand
<1>3. Init => StepsInv /\ KeepInv
  BY InitSteps, InitKeeps
<1>4. TypeInv /\ OffsetInv /\ [Next]_vars => OffsetInv'
  BY StepOffsets
<1>5. TypeInv /\ OffsetInv /\ LandInv /\ [Next]_vars => LandInv'
  BY StepLands
<1>6. TypeInv /\ StepsInv /\ [Next]_vars => StepsInv'
  BY StepSteps
<1>7. TypeInv /\ OffsetInv /\ LandInv /\ StepsInv /\ KeepInv /\ [Next]_vars => KeepInv'
  BY StepKeeps
<1>8. KeepInv => ListKeepsBlocks
  BY DEF KeepInv
<1> QED BY <1>1, <1>2, <1>3, <1>4, <1>5, <1>6, <1>7, <1>8, TypesHold, PTL DEF Spec
-----------------------------------------------------------------------------
(***************************************************************************)
(* Blocks of any number of dimensions                                      *)
(***************************************************************************)
Cords(n) == [1 .. n -> Nat]
Blocks(n) == [start : Cords(n), count : [1 .. n -> Nat \ {0}]]

\* A cell lies in a block.
Within(c, block) == \A i \in DOMAIN block.start : block.start[i] <= c[i] /\ c[i] <= End(block)[i]

\* What merge_blocks makes of two blocks of which one goes on where the other
\* ends is a block, and has the cells of both; no cell was in both
\* (H5VL_logi_dataspace.cpp, merge_blocks).
THEOREM MergingKeepsCells ==
    ASSUME NEW n \in Nat, NEW a \in Blocks(n), NEW b \in Blocks(n), NEW d \in 1 .. n,
           Adjoins(a, b, d), NEW c \in Cords(n)
    PROVE  /\ Joined(a, b, d) \in Blocks(n)
           /\ Within(c, Joined(a, b, d)) <=> Within(c, a) \/ Within(c, b)
           /\ ~(Within(c, a) /\ Within(c, b))
<1> DEFINE j == Joined(a, b, d)
<1>1. /\ a.start \in Cords(n) /\ a.count \in [1 .. n -> Nat \ {0}] /\ DOMAIN a.start = 1 .. n
      /\ b.start \in Cords(n) /\ b.count \in [1 .. n -> Nat \ {0}] /\ DOMAIN b.start = 1 .. n
      /\ DOMAIN a.count = 1 .. n
  BY DEF Blocks, Cords
<1>2. /\ a.start[d] + a.count[d] = b.start[d]
      /\ \A i \in 1 .. n : i # d => a.start[i] = b.start[i] /\ a.count[i] = b.count[i]
  BY <1>1 DEF Adjoins
<1>3. /\ j.start = a.start
      /\ j.count = [i \in 1 .. n |-> a.count[i] + (IF i = d THEN b.count[i] ELSE 0)]
  BY <1>1 DEF Joined
<1>4. /\ j.count[d] = a.count[d] + b.count[d]
      /\ \A i \in 1 .. n : i # d => j.count[i] = a.count[i]
  BY <1>1, <1>3
<1>5. j \in Blocks(n)
  <2>1. ASSUME NEW i \in 1 .. n
        PROVE  a.count[i] + (IF i = d THEN b.count[i] ELSE 0) \in Nat \ {0}
    <3>1. a.count[i] \in Nat \ {0} /\ b.count[i] \in Nat \ {0}
      BY <1>1
    <3>2. QED
      BY <3>1
  <2>2. QED
    BY <1>1, <2>1 DEF Blocks, Joined
<1>6. \A i \in 1 .. n :
          /\ End(a)[i] = a.start[i] + a.count[i] - 1
          /\ End(b)[i] = b.start[i] + b.count[i] - 1
          /\ End(j)[i] = a.start[i] + j.count[i] - 1
  BY <1>1, <1>3 DEF End
<1>7. \A i \in 1 .. n : c[i] \in Nat /\ a.start[i] \in Nat /\ a.count[i] \in Nat \ {0}
                        /\ b.start[i] \in Nat /\ b.count[i] \in Nat \ {0}
  BY <1>1 DEF Cords
<1> DEFINE Along(x, i) == x.start[i] <= c[i] /\ c[i] <= End(x)[i]
<1>8. /\ Within(c, a) <=> \A i \in 1 .. n : Along(a, i)
      /\ Within(c, b) <=> \A i \in 1 .. n : Along(b, i)
      /\ Within(c, j) <=> \A i \in 1 .. n : Along(j, i)
  <2>1. DOMAIN j.start = 1 .. n
    BY <1>1, <1>3
  <2>2. QED
    BY <1>1, <2>1 DEF Within
\* Apart from d all three have the same extent; along d the third has both.
<1>9. ASSUME NEW i \in 1 .. n, i # d
      PROVE  (Along(a, i) <=> Along(b, i)) /\ (Along(a, i) <=> Along(j, i))
  <2>1. /\ a.start[i] = b.start[i] /\ a.count[i] = b.count[i]
        /\ j.start[i] = a.start[i] /\ j.count[i] = a.count[i]
    BY <1>2, <1>3, <1>4, <1>9
  <2>2. End(a)[i] = End(b)[i] /\ End(a)[i] = End(j)[i]
    BY <1>6, <2>1
  <2>3. QED
    BY <2>1, <2>2
<1>10. /\ Along(j, d) <=> Along(a, d) \/ Along(b, d)
       /\ ~(Along(a, d) /\ Along(b, d))
  <2>1. j.start[d] = a.start[d]
    BY <1>3
  <2>2. /\ End(a)[d] = a.start[d] + a.count[d] - 1
        /\ End(b)[d] = b.start[d] + b.count[d] - 1
        /\ End(j)[d] = a.start[d] + (a.count[d] + b.count[d]) - 1
    BY <1>4, <1>6
  <2>3. /\ c[d] \in Nat /\ a.start[d] \in Nat /\ a.count[d] \in Nat \ {0}
        /\ b.count[d] \in Nat \ {0} /\ a.start[d] + a.count[d] = b.start[d]
    BY <1>2, <1>7
  <2>4. QED
    BY <2>1, <2>2, <2>3
<1>11. QED
  <2> HIDE DEF Along, j
  <2>1. Within(c, j) <=> Within(c, a) \/ Within(c, b)
    BY <1>8, <1>9, <1>10
  <2>2. ~(Within(c, a) /\ Within(c, b))
    BY <1>8, <1>10
  <2>3. QED
    BY <1>5, <2>1, <2>2 DEF j

\* A block that ends before another starts comes before it altogether: every
\* cell of the one precedes every cell of the other in the order in which a
\* selection is taken, so the data of the two needs no breaking down
\* (H5VL_log_selections::H5VL_log_selections, the groups).
THEOREM ApartInOrder ==
    ASSUME NEW n \in Nat, NEW a \in Blocks(n), NEW b \in Blocks(n), Less(End(a), b.start),
           NEW c \in Cords(n), NEW e \in Cords(n), Within(c, a), Within(e, b)
    PROVE  Less(c, e)
<1>1. /\ DOMAIN a.start = 1 .. n /\ DOMAIN b.start = 1 .. n /\ DOMAIN End(a) = 1 .. n
      /\ a.start \in Cords(n) /\ a.count \in [1 .. n -> Nat \ {0}] /\ b.start \in Cords(n)
  BY DEF Blocks, Cords, End
<1>2. \A i \in 1 .. n : End(a)[i] \in Int /\ b.start[i] \in Nat /\ c[i] \in Nat /\ e[i] \in Nat
  <2> SUFFICES ASSUME NEW i \in 1 .. n
               PROVE  End(a)[i] \in Int /\ b.start[i] \in Nat /\ c[i] \in Nat /\ e[i] \in Nat
    OBVIOUS
  <2>1. a.start[i] \in Nat /\ a.count[i] \in Nat /\ b.start[i] \in Nat /\ c[i] \in Nat /\ e[i] \in Nat
    BY <1>1 DEF Cords
  <2>2. End(a)[i] = a.start[i] + a.count[i] - 1
    BY <1>1 DEF End
  <2>3. QED
    BY <2>1, <2>2
<1>3. PICK d \in 1 .. n : End(a)[d] < b.start[d] /\ \A i \in 1 .. d - 1 : End(a)[i] = b.start[i]
  BY <1>1 DEF Less
<1>4. \A i \in 1 .. n : c[i] <= End(a)[i] /\ b.start[i] <= e[i]
  BY <1>1 DEF Within
\* Where the blocks' corners agree, c does not exceed e; at d it is below.
<1>5. c[d] < e[d] /\ \A i \in 1 .. d - 1 : c[i] <= e[i]
  <2>1. \A i \in 1 .. d - 1 : i \in 1 .. n
    OBVIOUS
  <2>2. QED
    BY <1>2, <1>3, <1>4, <2>1
\* The first dimension in which they differ decides.
<1> DEFINE T == {i \in 1 .. d : c[i] < e[i]}
<1>6. T \in SUBSET Nat /\ T # {}
  BY <1>5
<1>7. PICK m \in T : \A k \in T : m <= k
  <2> HIDE DEF T
  <2>1. QED
    BY <1>6, LeastOf
<1>8. m \in 1 .. n /\ c[m] < e[m]
  BY <1>7
<1>9. \A i \in 1 .. m - 1 : c[i] = e[i]
  <2> SUFFICES ASSUME NEW i \in 1 .. m - 1 PROVE c[i] = e[i]
    OBVIOUS
  <2>1. i \in 1 .. d - 1 /\ i \in 1 .. n /\ ~(m <= i)
    BY <1>7
  <2>2. ~(c[i] < e[i])
    BY <1>7, <2>1
  <2>3. QED
    BY <1>2, <1>5, <2>1, <2>2
<1>10. DOMAIN c = 1 .. n
  BY DEF Cords
<1>11. QED
  BY <1>8, <1>9, <1>10 DEF Less
=============================================================================
