-------------------------- MODULE Recursion_proofs --------------------------
(***************************************************************************)
(* Induction over the natural numbers, and the recursive functions that it *)
(* makes well defined.  Sets stand here for the predicates, and functions  *)
(* for the operators, of the usual theorems, so that the provers can       *)
(* instantiate what is proved.                                             *)
(***************************************************************************)
EXTENDS Integers, FiniteSetTheorems, WellFoundedInduction, TLAPS

\* A set of natural numbers that is not empty has a least element.
LEMMA LeastNumber ==
  ASSUME NEW T \in SUBSET Nat, T # {}
  PROVE  \E x \in T : \A y \in T : x <= y
<1>1. PICK x \in T : \A y \in T : ~ (<<y, x>> \in OpToRel(<, Nat))
  BY NatLessThanWellFounded, WFMin
<1>2. \A y \in T : ~ (y < x)
  BY <1>1 DEF OpToRel
<1>. QED  BY <1>2

\* A set that has zero, and the successor of each of its numbers, has them all.
LEMMA SetInduction ==
  ASSUME NEW T, 0 \in T, \A n \in Nat : n \in T => n + 1 \in T
  PROVE  Nat \subseteq T
<1>. SUFFICES ASSUME Nat \ T # {} PROVE FALSE
  OBVIOUS
<1>1. PICK x \in Nat \ T : \A y \in Nat \ T : x <= y
  BY LeastNumber
<1>. QED  BY <1>1

\* The value at x depends on values of a smaller rank only.
Descends(step, rank, D, S) ==
  \A x \in D : \A f, g \in [D -> S] :
    (\A y \in D : rank[y] < rank[x] => f[y] = g[y]) => step[<<x, f>>] = step[<<x, g>>]

\* f is as the recursion wants it below a rank.
UpTo(f, k, step, rank, D) == \A x \in D : rank[x] < k => f[x] = step[<<x, f>>]

\* Two functions have the same values below a rank.
Agree(f, g, k, rank, D) == \A x \in D : rank[x] < k => f[x] = g[x]

\* There is only one such function, below that rank.
LEMMA RecursionUnique ==
  ASSUME NEW D, NEW S, NEW rank \in [D -> Nat], NEW step \in [D \X [D -> S] -> S],
         Descends(step, rank, D, S)
  PROVE  \A k \in Nat : \A f, g \in [D -> S] :
           UpTo(f, k, step, rank, D) /\ UpTo(g, k, step, rank, D) =>
             Agree(f, g, k, rank, D)
<1>. SUFFICES ASSUME NEW k \in Nat, NEW f \in [D -> S], NEW g \in [D -> S],
                     UpTo(f, k, step, rank, D), UpTo(g, k, step, rank, D)
              PROVE  \A x \in D : rank[x] < k => f[x] = g[x]
  BY DEF Agree
<1>. DEFINE Bad == {x \in D : rank[x] < k /\ f[x] # g[x]}
            R == {rank[x] : x \in Bad}
<1>. SUFFICES ASSUME Bad # {} PROVE FALSE
  OBVIOUS
<1>1. R \in SUBSET Nat /\ R # {}
  OBVIOUS
<1>2. PICK r \in R : \A s \in R : r <= s
  BY <1>1, LeastNumber
<1>3. PICK x \in Bad : rank[x] = r
  BY <1>2
<1>4. ASSUME NEW y \in D, rank[y] < rank[x] PROVE f[y] = g[y]
  <2>1. rank[y] \in Nat /\ rank[y] < k /\ ~ (r <= rank[y])
    BY <1>3, <1>4
  <2>2. y \in Bad => rank[y] \in R
    OBVIOUS
  <2>. QED  BY <1>2, <2>1, <2>2
<1>5. step[<<x, f>>] = step[<<x, g>>]
  BY <1>3, <1>4 DEF Descends
<1>. QED  BY <1>3, <1>5 DEF UpTo

\* A function that the recursion defines.
Solves(f, step, D) == f = [x \in D |-> step[<<x, f>>]]

\* A recursion that descends defines a function, on a domain however large.
THEOREM RecursionExists ==
  ASSUME NEW D, NEW S, S # {}, NEW rank \in [D -> Nat], NEW step \in [D \X [D -> S] -> S],
         Descends(step, rank, D, S)
  PROVE  \E f \in [D -> S] : Solves(f, step, D)
<1>. DEFINE T == {k \in Nat : \E f \in [D -> S] : UpTo(f, k, step, rank, D)}
<1>1. 0 \in T
  <2>1. PICK s \in S : TRUE
    OBVIOUS
  <2>2. [x \in D |-> s] \in [D -> S]
    OBVIOUS
  <2>3. UpTo([x \in D |-> s], 0, step, rank, D)
    BY DEF UpTo
  <2>. QED  BY <2>2, <2>3
<1>2. ASSUME NEW k \in Nat, k \in T PROVE k + 1 \in T
  <2>1. PICK f \in [D -> S] : UpTo(f, k, step, rank, D)
    BY <1>2
  <2>. DEFINE g == [x \in D |-> step[<<x, f>>]]
  <2>2. g \in [D -> S]
    OBVIOUS
  <2>3. ASSUME NEW x \in D, rank[x] < k PROVE g[x] = f[x]
    BY <2>1, <2>3 DEF UpTo
  <2>4. ASSUME NEW x \in D, rank[x] < k + 1 PROVE g[x] = step[<<x, g>>]
    <3>1. \A y \in D : rank[y] < rank[x] => f[y] = g[y]
      BY <2>3, <2>4
    <3>2. step[<<x, f>>] = step[<<x, g>>]
      <4>. HIDE DEF g
      <4>. QED  BY <2>2, <3>1 DEF Descends
    <3>. QED  BY <3>2
  <2>5. UpTo(g, k + 1, step, rank, D)
    <3>. HIDE DEF g
    <3>. QED  BY <2>4 DEF UpTo
  <2>. HIDE DEF g
  <2>. QED  BY <2>2, <2>5
<1>3. \A k \in Nat : \E f \in [D -> S] : UpTo(f, k, step, rank, D)
  <2>1. \A n \in Nat : n \in T => n + 1 \in T
    BY <1>2
  <2>. HIDE DEF T
  <2>2. Nat \subseteq T
    BY <1>1, <2>1, SetInduction
  <2>. QED  BY <2>2 DEF T
<1>. DEFINE F == [k \in Nat |-> CHOOSE f \in [D -> S] : UpTo(f, k, step, rank, D)]
            h == [x \in D |-> F[rank[x] + 1][x]]
<1>4. \A k \in Nat : F[k] \in [D -> S] /\ UpTo(F[k], k, step, rank, D)
  BY <1>3
<1>. HIDE DEF F
<1>5. h \in [D -> S]
  BY <1>4
<1>8. \A j, k \in Nat : \A a \in [D -> S] :
        j <= k /\ UpTo(a, k, step, rank, D) => UpTo(a, j, step, rank, D)
  BY DEF UpTo
<1>6. ASSUME NEW x \in D PROVE h[x] = step[<<x, h>>]
  <2>. DEFINE k == rank[x] + 1
  <2>1. k \in Nat /\ F[k] \in [D -> S] /\ UpTo(F[k], k, step, rank, D) /\ rank[x] < k
    BY <1>4
  <2>. h[x] = F[k][x]
    OBVIOUS
  <2>2. ASSUME NEW y \in D, rank[y] < rank[x] PROVE h[y] = F[k][y]
    <3>. DEFINE j == rank[y] + 1
    <3>1. /\ j \in Nat /\ F[j] \in [D -> S] /\ UpTo(F[j], j, step, rank, D)
          /\ j <= k /\ rank[y] < j /\ h[y] = F[j][y]
      BY <1>4, <2>2
    <3>. HIDE DEF j, k, h
    <3>2. UpTo(F[k], j, step, rank, D)
      BY <2>1, <3>1, <1>8
    <3>3. Agree(F[j], F[k], j, rank, D)
      BY <2>1, <3>1, <3>2, RecursionUnique
    <3>. QED  BY <3>1, <3>3 DEF Agree
  <2>. HIDE DEF h, k
  <2>3. step[<<x, h>>] = step[<<x, F[k]>>]
    BY <1>5, <2>1, <2>2 DEF Descends
  <2>4. F[k][x] = step[<<x, F[k]>>]
    BY <2>1 DEF UpTo
  <2>. QED  BY <2>3, <2>4
<1>. HIDE DEF h
<1>7. h = [x \in D |-> step[<<x, h>>]]
  BY <1>5, <1>6
<1>. QED  BY <1>5, <1>7 DEF Solves

(***************************************************************************)
(* Folds over the subsets of 1..n, as the module Folds defines them.       *)
(***************************************************************************)
\* What a fold computes of each subset: pick says which element is taken next.
IsFold(g, n, op, base, pick) ==
  g = [s \in SUBSET (1..n) |-> IF s = {} THEN base ELSE op[<<pick[s], g[s \ {pick[s]}]>>]]

\* Such a subset is finite, and smaller without one of its elements.
LEMMA SubsetsAreFinite ==
  ASSUME NEW n \in Nat, NEW s \in SUBSET (1..n)
  PROVE  /\ IsFiniteSet(s) /\ Cardinality(s) \in Nat
         /\ \A x \in s : s \ {x} \in SUBSET (1..n) /\ Cardinality(s \ {x}) < Cardinality(s)
<1>1. IsFiniteSet(1..n)
  BY FS_Interval
<1>2. IsFiniteSet(s)
  BY <1>1, FS_Subset
<1>3. Cardinality(s) \in Nat
  BY <1>2, FS_CardinalityType
<1>4. \A x \in s : Cardinality(s \ {x}) = Cardinality(s) - 1
  BY <1>2, FS_RemoveElement
<1>. QED  BY <1>2, <1>3, <1>4

\* A fold that takes the elements in any order is defined.
LEMMA FoldExists ==
  ASSUME NEW n \in Nat, NEW S, NEW base \in S, NEW op \in [(1..n) \X S -> S],
         NEW pick, \A s \in SUBSET (1..n) : s # {} => pick[s] \in s
  PROVE  \E g \in [SUBSET (1..n) -> S] : IsFold(g, n, op, base, pick)
<1>. DEFINE D == SUBSET (1..n)
            rank == [s \in D |-> Cardinality(s)]
            step == [p \in D \X [D -> S] |->
                       IF p[1] = {} THEN base ELSE op[<<pick[p[1]], p[2][p[1] \ {pick[p[1]]}]>>]]
<1>1. rank \in [D -> Nat]
  BY SubsetsAreFinite
<1>2. ASSUME NEW s \in D, NEW g \in [D -> S]
      PROVE  /\ step[<<s, g>>] =
                  IF s = {} THEN base ELSE op[<<pick[s], g[s \ {pick[s]}]>>]
             /\ step[<<s, g>>] \in S
  <2>1. <<s, g>> \in D \X [D -> S] /\ <<s, g>>[1] = s /\ <<s, g>>[2] = g
    OBVIOUS
  <2>2. step[<<s, g>>] = IF s = {} THEN base ELSE op[<<pick[s], g[s \ {pick[s]}]>>]
    BY <2>1
  <2>3. s # {} => op[<<pick[s], g[s \ {pick[s]}]>>] \in S
    <3>. SUFFICES ASSUME s # {} PROVE op[<<pick[s], g[s \ {pick[s]}]>>] \in S
      OBVIOUS
    <3>1. pick[s] \in 1..n /\ s \ {pick[s]} \in D
      OBVIOUS
    <3>2. <<pick[s], g[s \ {pick[s]}]>> \in (1..n) \X S
      BY <3>1
    <3>. QED  BY <3>2
  <2>. HIDE DEF step
  <2>. QED  BY <2>2, <2>3
<1>3. step \in [D \X [D -> S] -> S]
  <2>1. \A p \in D \X [D -> S] : p = <<p[1], p[2]>> /\ p[1] \in D /\ p[2] \in [D -> S]
    OBVIOUS
  <2>2. \A p \in D \X [D -> S] : step[p] \in S
    <3>. HIDE DEF step
    <3>. SUFFICES ASSUME NEW p \in D \X [D -> S] PROVE step[p] \in S
      OBVIOUS
    <3>1. step[<<p[1], p[2]>>] \in S
      BY <1>2, <2>1
    <3>. QED  BY <2>1, <3>1
  <2>3. step = [p \in D \X [D -> S] |-> step[p]]
    OBVIOUS
  <2>. HIDE DEF step
  <2>. QED  BY <2>2, <2>3
<1>4. Descends(step, rank, D, S)
  <2>. SUFFICES ASSUME NEW s \in D, NEW f \in [D -> S], NEW g \in [D -> S],
                       \A t \in D : rank[t] < rank[s] => f[t] = g[t]
                PROVE  step[<<s, f>>] = step[<<s, g>>]
    BY DEF Descends
  <2>1. s # {} => f[s \ {pick[s]}] = g[s \ {pick[s]}]
    BY SubsetsAreFinite
  <2>2. /\ step[<<s, f>>] = IF s = {} THEN base ELSE op[<<pick[s], f[s \ {pick[s]}]>>]
        /\ step[<<s, g>>] = IF s = {} THEN base ELSE op[<<pick[s], g[s \ {pick[s]}]>>]
    BY <1>2
  <2>. HIDE DEF step, rank
  <2>. QED  BY <2>1, <2>2
<1>. HIDE DEF step, rank
<1>5. PICK g \in [D -> S] : Solves(g, step, D)
  <2>. HIDE DEF D
  <2>. QED  BY <1>1, <1>3, <1>4, RecursionExists
<1>6. g = [s \in D |-> IF s = {} THEN base ELSE op[<<pick[s], g[s \ {pick[s]}]>>]]
  <2>1. g = [s \in D |-> step[<<s, g>>]]
    BY <1>5 DEF Solves
  <2>2. [s \in D |-> step[<<s, g>>]] =
          [s \in D |-> IF s = {} THEN base ELSE op[<<pick[s], g[s \ {pick[s]}]>>]]
    <3>1. \A s \in D : step[<<s, g>>] =
            IF s = {} THEN base ELSE op[<<pick[s], g[s \ {pick[s]}]>>]
      BY <1>2
    <3>. HIDE DEF D
    <3>. QED  BY <3>1, Zenon
  <2>. QED  BY <2>1, <2>2
<1>. QED  BY <1>6 DEF IsFold
=============================================================================
