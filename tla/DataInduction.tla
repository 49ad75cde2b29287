--------------------------- MODULE DataInduction ---------------------------
(***************************************************************************)
(* Induction over data, without an operator as a parameter: a property of   *)
(* the naturals is the set of those that have it, and that set is Nat when  *)
(* it has zero and every successor (AllNaturals).  From it, what the sums   *)
(* of FiniteSetsExt and the filters of SeqFilter compute for every input:   *)
(*                                                                          *)
(*  - TotalOf(f, S), the recursion MapThenSumSet unfolds to, adds up each   *)
(*    element once in whatever order CHOOSE takes them;                     *)
(*  - Filtered(s, A) keeps exactly the elements in A, in their order;       *)
(*  - a finite set can be listed in any order that compares its elements.   *)
(***************************************************************************)
EXTENDS Integers, Sequences, FiniteSets, FiniteSetTheorems, WellFoundedInduction, SeqFilter, TLAPS

\* Every set of naturals that is not empty has a least element.
LEMMA LeastOfSet ==
    ASSUME NEW T \in SUBSET Nat, T # {}
    PROVE  \E x \in T : \A y \in T : x <= y
<1>1. PICK x \in T : \A y \in T : ~(<<y, x>> \in OpToRel(<, Nat))
  BY NatLessThanWellFounded, WFMin
<1>2. ASSUME NEW y \in T, ~(x <= y) PROVE FALSE
  <2>1. <<y, x>> \in Nat \X Nat /\ y < x
    BY <1>2
  <2>2. <<y, x>>[1] < <<y, x>>[2]
    BY <2>1
  <2> QED BY <1>1, <2>1, <2>2 DEF OpToRel
<1> QED BY <1>2

\* A set of naturals that has zero and every successor is all of them.
LEMMA AllNaturals ==
    ASSUME NEW T \in SUBSET Nat, 0 \in T, \A n \in T : n + 1 \in T
    PROVE  T = Nat
<1> SUFFICES ASSUME Nat \ T # {} PROVE FALSE
  OBVIOUS
<1>1. PICK n \in Nat \ T : \A m \in Nat \ T : n <= m
  BY LeastOfSet
<1>2. n # 0 /\ n - 1 \in Nat /\ n - 1 \in T
  BY <1>1
<1> QED BY <1>1, <1>2

-----------------------------------------------------------------------------
(* Sums.                                                                    *)

\* MapThenSumSet(f, S) for a function f: the fold of FiniteSetsExt, unfolded.
TotalOf(f, S) ==
    LET iter[s \in SUBSET S] ==
          IF s = {} THEN 0 ELSE LET x == CHOOSE x \in s : TRUE IN f[x] + iter[s \ {x}]
    IN  iter[S]

\* The subsets of at most n elements, and what it is to sum over the sets of D.
Small(S, n) == {s \in SUBSET S : Cardinality(s) <= n}
Recurs(g, f, D) ==
    \A s \in D : g[s] = IF s = {} THEN 0 ELSE f[CHOOSE x \in s : TRUE] + g[s \ {CHOOSE x \in s : TRUE}]

\* g totals every subset of the finite set S.
Totals(g, f, S) == IsFiniteSet(S) /\ (\A x \in S : f[x] \in Nat) /\ Recurs(g, f, SUBSET S)

\* Removing an element makes a finite set smaller by one.
LEMMA Smaller ==
    ASSUME NEW S, IsFiniteSet(S), NEW s \in SUBSET S, NEW x \in s
    PROVE  /\ IsFiniteSet(s) /\ Cardinality(s) \in Nat /\ Cardinality(s) # 0
           /\ Cardinality(s \ {x}) = Cardinality(s) - 1
           /\ s \ {x} \in SUBSET S
<1>1. IsFiniteSet(s)
  BY FS_Subset
<1>2. Cardinality(s) \in Nat /\ Cardinality(s \ {x}) = Cardinality(s) - 1
  BY <1>1, FS_CardinalityType, FS_RemoveElement
<1>3. Cardinality(s) # 0
  BY <1>1, FS_EmptySet
<1> QED BY <1>1, <1>2, <1>3

\* There is a function that sums every subset of a finite set, by induction on
\* their size: without it the CHOOSE behind the recursive definition is empty.
LEMMA RecursionExists ==
    ASSUME NEW S, IsFiniteSet(S), NEW f, \A x \in S : f[x] \in Nat
    PROVE  \E g \in [SUBSET S -> Nat] : Recurs(g, f, SUBSET S)
<1> DEFINE T == {n \in Nat : \E g \in [Small(S, n) -> Nat] : Recurs(g, f, Small(S, n))}
<1>1. 0 \in T
  <2>1. PICK g : g = [s \in Small(S, 0) |-> 0]
    OBVIOUS
  <2>2. \A s \in Small(S, 0) : s = {}
    BY FS_Subset, FS_CardinalityType, FS_EmptySet DEF Small
  <2>3. g \in [Small(S, 0) -> Nat] /\ Recurs(g, f, Small(S, 0))
    BY <2>1, <2>2 DEF Recurs
  <2> QED BY <2>3
<1>2. ASSUME NEW n \in T PROVE n + 1 \in T
  <2>0. n \in Nat
    OBVIOUS
  <2>1. PICK g \in [Small(S, n) -> Nat] : Recurs(g, f, Small(S, n))
    BY <1>2
  <2> DEFINE pick(s) == CHOOSE x \in s : TRUE
             h == [s \in Small(S, n + 1) |-> IF s = {} THEN 0 ELSE f[pick(s)] + g[s \ {pick(s)}]]
  <2>2. \A s \in Small(S, n + 1) : s # {} => pick(s) \in s /\ s \ {pick(s)} \in Small(S, n)
    <3> SUFFICES ASSUME NEW s \in Small(S, n + 1), s # {}
                 PROVE  pick(s) \in s /\ s \ {pick(s)} \in Small(S, n)
      OBVIOUS
    <3>1. pick(s) \in s
      OBVIOUS
    <3> HIDE DEF pick
    <3>2. s \in SUBSET S /\ Cardinality(s) <= n + 1
      BY DEF Small
    <3>3. Cardinality(s) \in Nat /\ Cardinality(s \ {pick(s)}) = Cardinality(s) - 1 /\ s \ {pick(s)} \in SUBSET S
      BY <3>1, <3>2, Smaller
    <3>4. Cardinality(s \ {pick(s)}) <= n
      BY <2>0, <3>2, <3>3
    <3> QED BY <3>1, <3>3, <3>4 DEF Small
  <2>3. \A s \in Small(S, n) : s \in Small(S, n + 1) /\ h[s] = g[s]
    <3> SUFFICES ASSUME NEW s \in Small(S, n) PROVE s \in Small(S, n + 1) /\ h[s] = g[s]
      OBVIOUS
    <3>1. IsFiniteSet(s) /\ Cardinality(s) \in Nat
      BY FS_Subset, FS_CardinalityType DEF Small
    <3>2. s \in Small(S, n + 1)
      BY <2>0, <3>1 DEF Small
    <3> QED BY <2>1, <3>2 DEF Recurs
  <2>4. h \in [Small(S, n + 1) -> Nat]
    <3>1. \A s \in Small(S, n + 1) : s # {} => f[pick(s)] \in Nat
      BY <2>2 DEF Small
    <3> HIDE DEF pick
    <3> QED BY <2>2, <3>1
  <2>5. Recurs(h, f, Small(S, n + 1))
    <3>1. \A s \in Small(S, n + 1) : h[s] = IF s = {} THEN 0 ELSE f[pick(s)] + g[s \ {pick(s)}]
      OBVIOUS
    <3>2. \A s \in Small(S, n + 1) : s # {} => h[s \ {pick(s)}] = g[s \ {pick(s)}]
      BY <2>2, <2>3
    <3>3. \A s \in Small(S, n + 1) : h[s] = IF s = {} THEN 0 ELSE f[pick(s)] + h[s \ {pick(s)}]
      <4> HIDE DEF h, pick
      <4> QED BY <3>1, <3>2
    <3> HIDE DEF h
    <3> QED BY <3>3 DEF Recurs
  <2> HIDE DEF h
  <2> QED BY <2>0, <2>4, <2>5
<1>3. T = Nat
  <2> HIDE DEF T
  <2>1. T \in SUBSET Nat
    BY DEF T
  <2> QED BY <1>1, <1>2, <2>1, AllNaturals
<1>4. Cardinality(S) \in Nat /\ Small(S, Cardinality(S)) = SUBSET S
  BY FS_Subset, FS_CardinalityType DEF Small
<1>5. \E g \in [Small(S, Cardinality(S)) -> Nat] : Recurs(g, f, Small(S, Cardinality(S)))
  BY <1>3, <1>4
<1> QED BY <1>4, <1>5

\* Such a sum is a natural number, zero for nothing.
LEMMA RecursionTyped ==
    ASSUME NEW S, NEW f, NEW g, Totals(g, f, S)
    PROVE  g[{}] = 0 /\ \A s \in SUBSET S : g[s] \in Nat
<1> USE DEF Totals
<1> DEFINE T == {n \in Nat : \A s \in SUBSET S : Cardinality(s) = n => g[s] \in Nat}
<1>0. g[{}] = 0
  BY DEF Recurs
<1>1. 0 \in T
  <2>1. \A s \in SUBSET S : Cardinality(s) = 0 => s = {}
    BY FS_Subset, FS_EmptySet
  <2> QED BY <1>0, <2>1
<1>2. ASSUME NEW n \in T PROVE n + 1 \in T
  <2>0. n \in Nat /\ n + 1 \in Nat /\ n + 1 # 0
    OBVIOUS
  <2>1. \A s \in SUBSET S : Cardinality(s) = n => g[s] \in Nat
    BY <1>2
  <2>2. ASSUME NEW s \in SUBSET S, Cardinality(s) = n + 1 PROVE g[s] \in Nat
    <3>1. s # {}
      BY <2>0, <2>2, FS_EmptySet
    <3>2. PICK c : c \in s /\ g[s] = f[c] + g[s \ {c}]
      BY <3>1 DEF Recurs
    <3>3. s \ {c} \in SUBSET S /\ Cardinality(s \ {c}) = n
      BY <2>0, <2>2, <3>2, Smaller
    <3> QED BY <2>1, <3>2, <3>3
  <2> QED BY <2>0, <2>2
<1>3. T = Nat
  <2> HIDE DEF T
  <2>1. T \in SUBSET Nat
    BY DEF T
  <2> QED BY <1>1, <1>2, <2>1, AllNaturals
<1>4. \A s \in SUBSET S : Cardinality(s) \in Nat
  BY FS_Subset, FS_CardinalityType
<1> QED BY <1>0, <1>3, <1>4

\* Whatever the order its elements are taken in, a recursive sum adds them all.
LEMMA RecursionAdds ==
    ASSUME NEW S, NEW f, NEW g, Totals(g, f, S)
    PROVE  \A s \in SUBSET S : \A x \in s : g[s] = f[x] + g[s \ {x}]
<1> USE DEF Totals
<1> DEFINE T == {n \in Nat : \A s \in SUBSET S : Cardinality(s) = n => \A x \in s : g[s] = f[x] + g[s \ {x}]}
<1>0. g[{}] = 0 /\ \A s \in SUBSET S : g[s] \in Nat
  BY RecursionTyped
<1>1. 0 \in T
  <2>1. \A s \in SUBSET S : Cardinality(s) = 0 => s = {}
    BY FS_Subset, FS_EmptySet
  <2> QED BY <2>1
<1>2. ASSUME NEW n \in T PROVE n + 1 \in T
  <2>0. n \in Nat /\ n + 1 \in Nat /\ n + 1 # 0
    OBVIOUS
  <2>1. \A s \in SUBSET S : Cardinality(s) = n => \A x \in s : g[s] = f[x] + g[s \ {x}]
    BY <1>2
  <2>2. ASSUME NEW s \in SUBSET S, Cardinality(s) = n + 1, NEW x \in s
        PROVE  g[s] = f[x] + g[s \ {x}]
    <3>1. s # {}
      OBVIOUS
    <3>2. PICK c : c \in s /\ g[s] = f[c] + g[s \ {c}]
      BY <3>1, ZenonT(40) DEF Recurs
    <3>3. CASE x = c
      BY <3>2, <3>3
    <3>4. CASE x # c
      <4>1. /\ s \ {c} \in SUBSET S /\ Cardinality(s \ {c}) = n
            /\ s \ {x} \in SUBSET S /\ Cardinality(s \ {x}) = n
        BY <2>0, <2>2, <3>2, Smaller
      <4>2. PICK rest \in SUBSET S : rest = (s \ {c}) \ {x} /\ rest = (s \ {x}) \ {c}
        OBVIOUS
      <4>3. g[s \ {c}] = f[x] + g[rest]
        BY <2>1, <3>4, <4>1, <4>2
      <4>4. g[s \ {x}] = f[c] + g[rest]
        BY <2>1, <3>2, <3>4, <4>1, <4>2, ZenonT(40)
      <4>5. f[x] \in Nat /\ f[c] \in Nat /\ g[rest] \in Nat
        BY <1>0, <3>2
      <4> QED BY <3>2, <4>3, <4>4, <4>5
    <3> QED BY <3>3, <3>4
  <2> QED BY <2>0, <2>2
<1>3. T = Nat
  <2> HIDE DEF T
  <2>1. T \in SUBSET Nat
    BY DEF T
  <2> QED BY <1>1, <1>2, <2>1, AllNaturals
<1>4. \A s \in SUBSET S : Cardinality(s) \in Nat
  BY FS_Subset, FS_CardinalityType
<1> QED BY <1>3, <1>4

\* Two recursive sums of the same numbers agree wherever both are defined.
LEMMA RecursionsAgree ==
    ASSUME NEW S, NEW f, NEW g, Totals(g, f, S), NEW R, NEW e, NEW h, Totals(h, e, R),
           S \subseteq R, \A x \in S : e[x] = f[x]
    PROVE  \A s \in SUBSET S : g[s] = h[s]
<1>z. IsFiniteSet(S) /\ IsFiniteSet(R)
  BY DEF Totals
<1> DEFINE T == {n \in Nat : \A s \in SUBSET S : Cardinality(s) = n => g[s] = h[s]}
<1>0. g[{}] = 0 /\ h[{}] = 0
  BY RecursionTyped
<1>1. 0 \in T
  <2>1. \A s \in SUBSET S : Cardinality(s) = 0 => s = {}
    BY <1>z, FS_Subset, FS_EmptySet
  <2> QED BY <1>0, <2>1
<1>2. ASSUME NEW n \in T PROVE n + 1 \in T
  <2>0. n \in Nat /\ n + 1 \in Nat /\ n + 1 # 0
    OBVIOUS
  <2>1. \A s \in SUBSET S : Cardinality(s) = n => g[s] = h[s]
    BY <1>2
  <2>2. ASSUME NEW s \in SUBSET S, Cardinality(s) = n + 1 PROVE g[s] = h[s]
    <3>1. s # {}
      BY <2>0, <2>2, FS_EmptySet
    <3>2. PICK c : c \in s
      BY <3>1
    <3>3. g[s] = f[c] + g[s \ {c}]
      BY <3>2, RecursionAdds
    <3>3a. h[s] = e[c] + h[s \ {c}]
      <4>1. s \in SUBSET R /\ c \in s
        BY <3>2
      <4> QED BY <4>1, RecursionAdds
    <3>4. s \ {c} \in SUBSET S /\ Cardinality(s \ {c}) = n
      BY <2>0, <2>2, <3>2, <1>z, Smaller
    <3> QED BY <2>1, <3>2, <3>3, <3>3a, <3>4
  <2> QED BY <2>0, <2>2
<1>3. T = Nat
  <2> HIDE DEF T
  <2>1. T \in SUBSET Nat
    BY DEF T
  <2> QED BY <1>1, <1>2, <2>1, AllNaturals
<1>4. \A s \in SUBSET S : Cardinality(s) \in Nat
  BY <1>z, FS_Subset, FS_CardinalityType
<1> QED BY <1>3, <1>4

\* A total is the value of such a recursion.
LEMMA TotalRecurs ==
    ASSUME NEW S, IsFiniteSet(S), NEW f, \A x \in S : f[x] \in Nat
    PROVE  \E g : Totals(g, f, S) /\ TotalOf(f, S) = g[S]
<1> DEFINE Def(g) == g = [s \in SUBSET S |-> IF s = {} THEN 0 ELSE LET x == CHOOSE x \in s : TRUE IN f[x] + g[s \ {x}]]
<1>1. PICK g \in [SUBSET S -> Nat] : Recurs(g, f, SUBSET S)
  BY RecursionExists
<1>2. Def(g)
  BY <1>1 DEF Recurs
<1>3. PICK c : c = (CHOOSE h : Def(h))
  OBVIOUS
<1>4. Def(c)
  <2> HIDE DEF Def
  <2> QED BY <1>2, <1>3
<1>5. Recurs(c, f, SUBSET S)
  BY <1>4 DEF Recurs
<1>6. TotalOf(f, S) = c[S]
  BY <1>3 DEF TotalOf
<1> QED BY <1>5, <1>6 DEF Totals

\* Nothing totals zero.
LEMMA TotalOfNone == \A f : TotalOf(f, {}) = 0
<1> TAKE f
<1>1. IsFiniteSet({}) /\ \A x \in {} : f[x] \in Nat
  BY FS_EmptySet
<1>2. PICK g : Totals(g, f, {}) /\ TotalOf(f, {}) = g[{}]
  BY <1>1, TotalRecurs
<1> QED BY <1>2, RecursionTyped

\* A total is a number, and equal numbers have equal totals.
LEMMA TotalsAgree ==
    ASSUME NEW S, IsFiniteSet(S), NEW f, \A x \in S : f[x] \in Nat, NEW e, \A x \in S : e[x] = f[x]
    PROVE  TotalOf(f, S) \in Nat /\ TotalOf(e, S) = TotalOf(f, S)
<1>1. PICK g : Totals(g, f, S) /\ TotalOf(f, S) = g[S]
  BY TotalRecurs
<1>2. \A x \in S : e[x] \in Nat
  OBVIOUS
<1>3. PICK h : Totals(h, e, S) /\ TotalOf(e, S) = h[S]
  BY <1>2, TotalRecurs
<1>4. g[S] = h[S]
  BY <1>1, <1>2, <1>3, RecursionsAgree
<1>5. g[S] \in Nat
  BY <1>1, RecursionTyped
<1> QED BY <1>1, <1>3, <1>4, <1>5

\* A total is any one of its elements and the total of the others.
LEMMA TotalWithout ==
    ASSUME NEW S, IsFiniteSet(S), NEW f, \A x \in S : f[x] \in Nat, NEW x \in S
    PROVE  TotalOf(f, S) = f[x] + TotalOf(f, S \ {x})
<1>1. PICK g : Totals(g, f, S) /\ TotalOf(f, S) = g[S]
  BY TotalRecurs
<1>2. PICK R : R = S \ {x}
  OBVIOUS
<1>3. IsFiniteSet(R) /\ R \subseteq S /\ \A y \in R : f[y] \in Nat
  BY <1>2, FS_Subset
<1>4. PICK h : Totals(h, f, R) /\ TotalOf(f, R) = h[R]
  BY <1>3, TotalRecurs
<1>5. h[R] = g[R]
  BY <1>1, <1>3, <1>4, RecursionsAgree
<1>6. g[S] = f[x] + g[S \ {x}]
  BY <1>1, RecursionAdds
<1> QED BY <1>1, <1>2, <1>4, <1>5, <1>6

\* A subset totals no more.
LEMMA TotalOfPart ==
    ASSUME NEW S, IsFiniteSet(S), NEW f, \A x \in S : f[x] \in Nat, NEW R \in SUBSET S
    PROVE  TotalOf(f, R) <= TotalOf(f, S)
<1> DEFINE T == {n \in Nat : \A s \in SUBSET S : Cardinality(s) = n => TotalOf(f, S \ s) <= TotalOf(f, S)}
<1>0. \A s \in SUBSET S : IsFiniteSet(s) /\ Cardinality(s) \in Nat /\ TotalOf(f, s) \in Nat
  BY FS_Subset, FS_CardinalityType, TotalsAgree
<1>1. 0 \in T
  <2>1. \A s \in SUBSET S : Cardinality(s) = 0 => S \ s = S
    BY <1>0, FS_EmptySet
  <2> QED BY <1>0, <2>1
<1>2. ASSUME NEW n \in T PROVE n + 1 \in T
  <2>0. n \in Nat /\ n + 1 \in Nat /\ n + 1 # 0
    OBVIOUS
  <2>1. \A s \in SUBSET S : Cardinality(s) = n => TotalOf(f, S \ s) <= TotalOf(f, S)
    BY <1>2
  <2>2. ASSUME NEW s \in SUBSET S, Cardinality(s) = n + 1 PROVE TotalOf(f, S \ s) <= TotalOf(f, S)
    <3>1. PICK c : c \in s
      BY <2>0, <2>2, FS_EmptySet
    <3>2. s \ {c} \in SUBSET S /\ Cardinality(s \ {c}) = n
      BY <2>0, <2>2, <3>1, Smaller
    <3>3a. PICK Q : Q = S \ (s \ {c})
      OBVIOUS
    <3>3. Q = S \ (s \ {c}) /\ Q \ {c} = S \ s /\ c \in Q /\ Q \in SUBSET S
      BY <3>1, <3>3a
    <3>4. TotalOf(f, Q) = f[c] + TotalOf(f, Q \ {c})
      BY <1>0, <3>3, TotalWithout
    <3>5. f[c] \in Nat /\ TotalOf(f, Q \ {c}) \in Nat /\ TotalOf(f, Q) \in Nat /\ TotalOf(f, S) \in Nat
      BY <1>0, <3>1, <3>3
    <3>6. TotalOf(f, Q) <= TotalOf(f, S)
      BY <2>1, <3>2, <3>3
    <3>7. TotalOf(f, Q \ {c}) <= TotalOf(f, S)
      BY <3>4, <3>5, <3>6
    <3> QED BY <3>3, <3>7
  <2> QED BY <2>0, <2>2
<1>3. T = Nat
  <2> HIDE DEF T
  <2>1. T \in SUBSET Nat
    BY DEF T
  <2> QED BY <1>1, <1>2, <2>1, AllNaturals
<1>4. S \ R \in SUBSET S /\ S \ (S \ R) = R
  OBVIOUS
<1> QED BY <1>0, <1>3, <1>4

-----------------------------------------------------------------------------
(* Filters.                                                                 *)

\* k keeps of each beginning of s what is in A.
Keeping(k, s, A, n) ==
    \A i \in 0..n : k[i] = IF i = 0 THEN <<>> ELSE IF s[i] \in A THEN Append(k[i - 1], s[i]) ELSE k[i - 1]

\* There is such a function, by induction on the beginning.
LEMMA KeepsExists ==
    ASSUME NEW S, NEW s \in Seq(S), NEW A
    PROVE  \E k \in [0..Len(s) -> Seq(S)] : Keeping(k, s, A, Len(s))
<1> DEFINE T == {n \in Nat : n <= Len(s) => \E k \in [0..n -> Seq(S)] : Keeping(k, s, A, n)}
<1>0. Len(s) \in Nat
  OBVIOUS
<1>1. 0 \in T
  <2>1. PICK k : k = [i \in 0..0 |-> <<>>]
    OBVIOUS
  <2>2. <<>> \in Seq(S)
    OBVIOUS
  <2>3. k \in [0..0 -> Seq(S)] /\ Keeping(k, s, A, 0)
    BY <2>1, <2>2 DEF Keeping
  <2> QED BY <2>3
<1>2. ASSUME NEW n \in T PROVE n + 1 \in T
  <2>0. n \in Nat /\ n + 1 \in Nat
    OBVIOUS
  <2> SUFFICES ASSUME n + 1 <= Len(s) PROVE \E k \in [0..n + 1 -> Seq(S)] : Keeping(k, s, A, n + 1)
    BY <2>0
  <2>1. PICK k \in [0..n -> Seq(S)] : Keeping(k, s, A, n)
    BY <1>0, <1>2, <2>0
  <2>2. PICK last : last = IF s[n + 1] \in A THEN Append(k[n], s[n + 1]) ELSE k[n]
    OBVIOUS
  <2>3. PICK h : h = [i \in 0..n + 1 |-> IF i = n + 1 THEN last ELSE k[i]]
    OBVIOUS
  <2>4. last \in Seq(S)
    <3>1. s[n + 1] \in S /\ k[n] \in Seq(S)
      BY <1>0, <2>0
    <3> QED BY <2>2, <3>1
  <2>5. h \in [0..n + 1 -> Seq(S)]
    BY <2>0, <2>3, <2>4
  <2>6. h[n + 1] = last /\ \A i \in 0..n : h[i] = k[i]
    BY <2>0, <2>3
  <2>7. ASSUME NEW i \in 0..n + 1
        PROVE  h[i] = IF i = 0 THEN <<>> ELSE IF s[i] \in A THEN Append(h[i - 1], s[i]) ELSE h[i - 1]
    <3>1. CASE i = n + 1
      BY <2>0, <2>2, <2>6, <3>1
    <3>2. CASE i # n + 1
      <4>1. i \in 0..n /\ (i # 0 => i - 1 \in 0..n)
        BY <2>0, <3>2
      <4> QED BY <2>1, <2>6, <4>1 DEF Keeping
    <3> QED BY <3>1, <3>2
  <2>8. Keeping(h, s, A, n + 1)
    BY <2>7 DEF Keeping
  <2> QED BY <2>5, <2>8
<1>3. T = Nat
  <2> HIDE DEF T
  <2>1. T \in SUBSET Nat
    BY DEF T
  <2> QED BY <1>1, <1>2, <2>1, AllNaturals
<1> QED BY <1>0, <1>3

\* Filtered is the last value of one.
LEMMA FilteredKeeps ==
    ASSUME NEW S, NEW s \in Seq(S), NEW A
    PROVE  \E k : Keeping(k, s, A, Len(s)) /\ Filtered(s, A) = k[Len(s)]
<1> DEFINE Def(k) == k = [i \in 0..Len(s) |-> IF i = 0 THEN <<>> ELSE IF s[i] \in A THEN Append(k[i - 1], s[i]) ELSE k[i - 1]]
<1>1. PICK k \in [0..Len(s) -> Seq(S)] : Keeping(k, s, A, Len(s))
  BY KeepsExists
<1>2. Def(k)
  BY <1>1 DEF Keeping
<1>3. PICK c : c = (CHOOSE h : Def(h))
  OBVIOUS
<1>4. Def(c)
  <2> HIDE DEF Def
  <2> QED BY <1>2, <1>3
<1>5. Keeping(c, s, A, Len(s))
  BY <1>4 DEF Keeping
<1>6. Filtered(s, A) = c[Len(s)]
  BY <1>3 DEF Filtered
<1> QED BY <1>5, <1>6

\* r is what A keeps of the first n elements of s: h tells where its elements come from.
PlacesIn(h, r, s, A, n) ==
    /\ h \in [1..Len(r) -> 1..n]
    /\ \A i, j \in 1..Len(r) : i < j => h[i] < h[j]
    /\ \A i \in 1..Len(r) : r[i] = s[h[i]] /\ r[i] \in A
    /\ \A p \in 1..n : s[p] \in A => \E i \in 1..Len(r) : h[i] = p

\* What a filter keeps comes from increasing places, and every kept element has one.
LEMMA FilteredPlaces ==
    ASSUME NEW S, NEW s \in Seq(S), NEW A
    PROVE  /\ Filtered(s, A) \in Seq(S)
           /\ \E h : PlacesIn(h, Filtered(s, A), s, A, Len(s))
<1>0. Len(s) \in Nat
  OBVIOUS
<1>k. PICK k : Keeping(k, s, A, Len(s)) /\ Filtered(s, A) = k[Len(s)]
  BY FilteredKeeps
<1> DEFINE T == {n \in Nat : n <= Len(s) => k[n] \in Seq(S) /\ \E h : PlacesIn(h, k[n], s, A, n)}
<1>1. 0 \in T
  <2>1. k[0] = <<>>
    BY <1>0, <1>k DEF Keeping
  <2>2. PlacesIn(<<>>, <<>>, s, A, 0)
    BY DEF PlacesIn
  <2>3. k[0] \in Seq(S) /\ \E h : PlacesIn(h, k[0], s, A, 0)
    BY <2>1, <2>2
  <2> QED BY <2>3
<1>2. ASSUME NEW n \in T PROVE n + 1 \in T
  <2>0. n \in Nat /\ n + 1 \in Nat
    OBVIOUS
  <2> SUFFICES ASSUME n + 1 <= Len(s) PROVE k[n + 1] \in Seq(S) /\ \E h : PlacesIn(h, k[n + 1], s, A, n + 1)
    BY <2>0
  <2>1. k[n] \in Seq(S)
    BY <1>0, <1>2, <2>0
  <2>2. PICK h : PlacesIn(h, k[n], s, A, n)
    BY <1>0, <1>2, <2>0
  <2>3. k[n + 1] = IF s[n + 1] \in A THEN Append(k[n], s[n + 1]) ELSE k[n]
    BY <1>0, <1>k, <2>0 DEF Keeping
  <2>4. PICK r \in Seq(S) : r = k[n]
    BY <2>1
  <2>5. Len(r) \in Nat /\ s[n + 1] \in S /\ PlacesIn(h, r, s, A, n)
    BY <1>0, <2>0, <2>2, <2>4
  <2>6. CASE s[n + 1] \notin A
    <3>1. k[n + 1] = r
      BY <2>3, <2>4, <2>6
    <3>2. PlacesIn(h, r, s, A, n + 1)
      BY <2>0, <2>5, <2>6 DEF PlacesIn
    <3> QED BY <3>1, <3>2
  <2>7. CASE s[n + 1] \in A
    <3>0. PICK L \in Nat : L = Len(r)
      BY <2>5
    <3>1. PICK q : q = Append(r, s[n + 1])
      OBVIOUS
    <3>2. /\ k[n + 1] = q /\ q \in Seq(S) /\ Len(q) = L + 1 /\ q[L + 1] = s[n + 1]
          /\ \A i \in 1..L : q[i] = r[i]
      BY <2>3, <2>4, <2>5, <2>7, <3>0, <3>1
    <3>3. PICK m : m = [i \in 1..L + 1 |-> IF i = L + 1 THEN n + 1 ELSE h[i]]
      OBVIOUS
    <3>4. /\ h \in [1..L -> 1..n]
          /\ \A i, j \in 1..L : i < j => h[i] < h[j]
          /\ \A i \in 1..L : r[i] = s[h[i]] /\ r[i] \in A
          /\ \A p \in 1..n : s[p] \in A => \E i \in 1..L : h[i] = p
      BY <2>5, <3>0 DEF PlacesIn
    <3>5. /\ m \in [1..L + 1 -> 1..n + 1] /\ m[L + 1] = n + 1
          /\ \A i \in 1..L : m[i] = h[i] /\ m[i] \in 1..n
      BY <2>0, <3>3, <3>4
    <3>6. ASSUME NEW i \in 1..L + 1, NEW j \in 1..L + 1, i < j PROVE m[i] < m[j]
      <4>1. i \in 1..L /\ (j = L + 1 \/ j \in 1..L)
        BY <3>6
      <4>2. m[i] = h[i] /\ h[i] \in 1..n
        BY <3>5, <4>1
      <4>3. CASE j = L + 1
        BY <2>0, <3>5, <4>2, <4>3
      <4>4. CASE j \in 1..L
        BY <3>4, <3>5, <3>6, <4>1, <4>2, <4>4
      <4> QED BY <4>1, <4>3, <4>4
    <3>7. ASSUME NEW i \in 1..L + 1 PROVE q[i] = s[m[i]] /\ q[i] \in A
      <4>1. i = L + 1 \/ i \in 1..L
        OBVIOUS
      <4> QED BY <2>7, <3>2, <3>4, <3>5, <4>1
    <3>8. ASSUME NEW p \in 1..n + 1, s[p] \in A PROVE \E i \in 1..L + 1 : m[i] = p
      <4>1. CASE p = n + 1
        BY <3>5, <4>1
      <4>2. CASE p # n + 1
        <5>1. PICK i \in 1..L : h[i] = p
          BY <2>0, <3>4, <3>8, <4>2
        <5> QED BY <3>5, <5>1
      <4> QED BY <4>1, <4>2
    <3>9. PlacesIn(m, q, s, A, n + 1)
      BY <3>2, <3>5, <3>6, <3>7, <3>8 DEF PlacesIn
    <3> QED BY <3>2, <3>9
  <2> QED BY <2>6, <2>7
<1>3. T = Nat
  <2> HIDE DEF T
  <2>1. T \in SUBSET Nat
    BY DEF T
  <2> QED BY <1>1, <1>2, <2>1, AllNaturals
<1>4. k[Len(s)] \in Seq(S) /\ \E h : PlacesIn(h, k[Len(s)], s, A, Len(s))
  BY <1>0, <1>3
<1> QED BY <1>k, <1>4

\* What is kept is in the sequence and in the set, and all of that is kept; a sequence
\* without repetitions stays one.
LEMMA FilteredElements ==
    ASSUME NEW S, NEW s \in Seq(S), NEW A
    PROVE  /\ Filtered(s, A) \in Seq(S) /\ Len(Filtered(s, A)) <= Len(s)
           /\ \A i \in 1..Len(Filtered(s, A)) :
                 Filtered(s, A)[i] \in A /\ \E p \in 1..Len(s) : s[p] = Filtered(s, A)[i]
           /\ \A p \in 1..Len(s) : s[p] \in A => \E i \in 1..Len(Filtered(s, A)) : Filtered(s, A)[i] = s[p]
           /\ (\A p, q \in 1..Len(s) : s[p] = s[q] => p = q) =>
                 \A i, j \in 1..Len(Filtered(s, A)) : Filtered(s, A)[i] = Filtered(s, A)[j] => i = j
<1>1. PICK r : r = Filtered(s, A)
  OBVIOUS
<1>2. r \in Seq(S)
  BY <1>1, FilteredPlaces
<1>3. PICK h : PlacesIn(h, r, s, A, Len(s))
  BY <1>1, FilteredPlaces
<1>4. PICK L \in Nat : L = Len(r)
  BY <1>2
<1>5. PICK n \in Nat : n = Len(s)
  OBVIOUS
<1>6. /\ h \in [1..L -> 1..n]
      /\ \A i, j \in 1..L : i < j => h[i] < h[j]
      /\ \A i \in 1..L : r[i] = s[h[i]] /\ r[i] \in A
      /\ \A p \in 1..n : s[p] \in A => \E i \in 1..L : h[i] = p
  BY <1>3, <1>4, <1>5 DEF PlacesIn
<1>7. ASSUME NEW i \in 1..L, NEW j \in 1..L, h[i] = h[j] PROVE i = j
  <2>1. h[i] \in Nat /\ h[j] \in Nat /\ i \in Nat /\ j \in Nat
    BY <1>6
  <2>2. ~(i < j) /\ ~(j < i)
    BY <1>6, <1>7, <2>1
  <2> QED BY <2>1, <2>2
<1>8. L <= n
  <2> DEFINE T == {i \in Nat : (1 <= i /\ i <= L) => i <= h[i]}
  <2>1. 0 \in T
    OBVIOUS
  <2>2. ASSUME NEW i \in T PROVE i + 1 \in T
    <3>0. i \in Nat /\ i + 1 \in Nat
      OBVIOUS
    <3> SUFFICES ASSUME i + 1 <= L PROVE i + 1 <= h[i + 1]
      BY <3>0
    <3>1. i + 1 \in 1..L /\ h[i + 1] \in 1..n
      BY <1>6, <3>0
    <3>2. CASE i = 0
      BY <3>1, <3>2
    <3>3. CASE i # 0
      <4>1. i \in 1..L /\ i <= h[i]
        BY <2>2, <3>0, <3>3
      <4>2. h[i] \in 1..n /\ h[i] < h[i + 1]
        BY <1>6, <3>0, <3>1, <4>1
      <4> QED BY <3>0, <3>1, <4>1, <4>2
    <3> QED BY <3>2, <3>3
  <2>3. T = Nat
    <3> HIDE DEF T
    <3>1. T \in SUBSET Nat
      BY DEF T
    <3> QED BY <2>1, <2>2, <3>1, AllNaturals
  <2>4. CASE L # 0
    <3>1. L \in 1..L /\ h[L] \in 1..n
      BY <1>6, <2>4
    <3>2. L <= h[L]
      BY <2>3, <3>1
    <3> QED BY <3>1, <3>2
  <2>5. CASE L = 0
    BY <2>5
  <2> QED BY <2>4, <2>5
<1>9. \A p \in 1..n : s[p] \in A => \E i \in 1..L : r[i] = s[p]
  BY <1>6
<1>10. ASSUME \A p, q \in 1..n : s[p] = s[q] => p = q, NEW i \in 1..L, NEW j \in 1..L, r[i] = r[j] PROVE i = j
  BY <1>6, <1>7, <1>10, SMTT(30)
<1>11. \A i \in 1..L : r[i] \in A /\ \E p \in 1..n : s[p] = r[i]
  BY <1>6
<1> QED BY <1>1, <1>2, <1>4, <1>5, <1>8, <1>9, <1>10, <1>11

\* A longer list keeps what its beginning keeps, then what is kept of the rest.
LEMMA FilteredExtends ==
    ASSUME NEW S, NEW s \in Seq(S), NEW t \in Seq(S), NEW A, Len(s) <= Len(t), \A i \in 1..Len(s) : t[i] = s[i]
    PROVE  /\ (\A i \in Len(s) + 1..Len(t) : t[i] \notin A) => Filtered(t, A) = Filtered(s, A)
           /\ (Len(t) = Len(s) + 1 /\ t[Len(t)] \in A) => Filtered(t, A) = Append(Filtered(s, A), t[Len(t)])
<1>1. PICK n \in Nat, m \in Nat : n = Len(s) /\ m = Len(t) /\ n <= m
  OBVIOUS
<1>2. PICK k : Keeping(k, s, A, n) /\ Filtered(s, A) = k[n]
  BY <1>1, FilteredKeeps
<1>3. PICK h : Keeping(h, t, A, m) /\ Filtered(t, A) = h[m]
  BY <1>1, FilteredKeeps
<1>4. /\ k[0] = <<>> /\ h[0] = <<>>
      /\ \A i \in 0..m : i + 1 <= m => h[i + 1] = IF t[i + 1] \in A THEN Append(h[i], t[i + 1]) ELSE h[i]
      /\ \A i \in 0..n : i + 1 <= n => k[i + 1] = IF s[i + 1] \in A THEN Append(k[i], s[i + 1]) ELSE k[i]
  <2>1. \A i \in 0..m : i + 1 <= m => i + 1 \in 0..m /\ i + 1 # 0 /\ (i + 1) - 1 = i
    BY <1>1
  <2>2. \A i \in 0..n : i + 1 <= n => i + 1 \in 0..n /\ i + 1 # 0 /\ (i + 1) - 1 = i
    BY <1>1
  <2>3. 0 \in 0..n /\ 0 \in 0..m
    BY <1>1
  <2> QED BY <1>2, <1>3, <2>1, <2>2, <2>3 DEF Keeping
<1> DEFINE T == {i \in Nat : i <= m => (i <= n => h[i] = k[i]) /\ (i > n /\ (\A j \in n + 1..m : t[j] \notin A) => h[i] = k[n])}
<1>5. 0 \in T
  BY <1>1, <1>4
<1>6. ASSUME NEW i \in T PROVE i + 1 \in T
  <2>1. i \in Nat /\ i + 1 \in Nat
    OBVIOUS
  <2> SUFFICES ASSUME i + 1 <= m
               PROVE  /\ i + 1 <= n => h[i + 1] = k[i + 1]
                      /\ i + 1 > n /\ (\A j \in n + 1..m : t[j] \notin A) => h[i + 1] = k[n]
    BY <2>1
  <2>2. i <= m /\ i \in 0..m /\ h[i + 1] = IF t[i + 1] \in A THEN Append(h[i], t[i + 1]) ELSE h[i]
    BY <1>1, <1>4, <2>1
  <2>3. CASE i + 1 <= n
    <3>1. i \in 0..n /\ i <= n /\ t[i + 1] = s[i + 1] /\ ~(i + 1 > n)
      BY <1>1, <2>1, <2>3
    <3> QED BY <1>4, <1>6, <2>2, <2>3, <3>1
  <2>4. CASE i + 1 > n
    <3>1. i + 1 \in n + 1..m /\ ~(i + 1 <= n) /\ (i = n \/ i > n)
      BY <1>1, <2>1, <2>4
    <3>2. i = n => i <= n
      BY <1>1
    <3>3. (\A j \in n + 1..m : t[j] \notin A) => h[i] = k[n]
      BY <1>1, <1>6, <2>2, <3>1, <3>2
    <3> QED BY <2>2, <3>1, <3>3
  <2> QED BY <1>1, <2>1, <2>3, <2>4
<1>7. T = Nat
  <2> HIDE DEF T
  <2>1. T \in SUBSET Nat
    BY DEF T
  <2> QED BY <1>5, <1>6, <2>1, AllNaturals
<1>8. ASSUME \A j \in n + 1..m : t[j] \notin A PROVE h[m] = k[n]
  <2>1. m \in T /\ m <= m /\ (m <= n => m = n)
    BY <1>1, <1>7
  <2> QED BY <1>1, <1>8, <2>1
<1>9. ASSUME m = n + 1, t[m] \in A PROVE h[m] = Append(k[n], t[m])
  <2>1. n \in T /\ n <= m /\ n <= n /\ n \in 0..m
    BY <1>1, <1>7
  <2>2. h[n] = k[n]
    BY <2>1
  <2> HIDE DEF T
  <2>4. n + 1 = m /\ n + 1 <= m
    BY <1>1, <1>9
  <2>3. h[n + 1] = IF t[n + 1] \in A THEN Append(h[n], t[n + 1]) ELSE h[n]
    <3> HIDE <1>9
    <3> QED BY <1>4, <2>1, <2>4
  <2> QED BY <1>9, <2>2, <2>3, <2>4
<1> QED BY <1>1, <1>2, <1>3, <1>8, <1>9

-----------------------------------------------------------------------------
(* Orders.                                                                  *)

\* R orders S: any two of its elements are comparable, and transitively.
Orders(R, S) ==
    /\ \A x, y \in S : x = y \/ <<x, y>> \in R \/ <<y, x>> \in R
    /\ \A x, y, z \in S : <<x, y>> \in R /\ <<y, z>> \in R => <<x, z>> \in R

\* The first of a set.
FirstIn(x, R, S) == x \in S /\ \A y \in S : x = y \/ <<x, y>> \in R

\* s lists all of S, in the order of R.
Listing(s, R, S, n) ==
    /\ s \in [1..n -> S] /\ (\A x \in S : \E i \in 1..n : s[i] = x)
    /\ \A i, j \in 1..n : i < j => <<s[i], s[j]>> \in R

\* A finite set that R orders has a first element.
LEMMA FirstExists ==
    ASSUME NEW R, NEW S, IsFiniteSet(S), Orders(R, S), NEW Q \in SUBSET S, Q # {}
    PROVE  \E x : FirstIn(x, R, Q)
<1> DEFINE T == {n \in Nat : \A q \in SUBSET S : Cardinality(q) = n /\ q # {} => \E x : FirstIn(x, R, q)}
<1>0. \A q \in SUBSET S : IsFiniteSet(q) /\ Cardinality(q) \in Nat
  BY FS_Subset, FS_CardinalityType
<1>1. 0 \in T
  BY <1>0, FS_EmptySet
<1>2. ASSUME NEW n \in Nat, n \in T PROVE n + 1 \in T
  <2> SUFFICES ASSUME NEW q \in SUBSET S, Cardinality(q) = n + 1, q # {} PROVE \E x : FirstIn(x, R, q)
    OBVIOUS
  <2>1. PICK z : z \in q
    OBVIOUS
  <2>2. PICK r \in SUBSET S : r = q \ {z}
    OBVIOUS
  <2>3. Cardinality(r) = n
    <3>1. Cardinality(r) = Cardinality(q) - 1
      BY <1>0, <2>1, <2>2, FS_RemoveElement
    <3> QED BY <3>1
  <2>4. CASE r = {}
    BY <2>1, <2>2, <2>4 DEF FirstIn
  <2>5. CASE r # {}
    <3>1. PICK x : FirstIn(x, R, r)
      BY <1>2, <2>3, <2>5
    <3>2. x \in S /\ z \in S /\ \A y \in r : y \in S
      BY <2>1, <2>2, <3>1 DEF FirstIn
    <3>3. CASE <<z, x>> \in R
      <4>1. \A y \in q : z = y \/ <<z, y>> \in R
        BY <2>1, <2>2, <3>1, <3>2, <3>3 DEF FirstIn, Orders
      <4> QED BY <2>1, <4>1 DEF FirstIn
    <3>4. CASE z = x \/ <<x, z>> \in R
      BY <2>1, <2>2, <3>1, <3>4 DEF FirstIn
    <3> QED BY <3>2, <3>3, <3>4 DEF Orders
  <2> QED BY <2>4, <2>5
<1>3. T = Nat
  <2> HIDE DEF T
  <2>1. T \in SUBSET Nat
    BY DEF T
  <2> QED BY <1>1, <1>2, <2>1, AllNaturals
<1> QED BY <1>0, <1>3

\* A finite set that R orders can be listed in that order.
LEMMA OrderedListExists ==
    ASSUME NEW R, NEW S, IsFiniteSet(S), Orders(R, S)
    PROVE  \E s : Listing(s, R, S, Cardinality(S))
<1> DEFINE T == {n \in Nat : \A q \in SUBSET S : Cardinality(q) = n => \E s : Listing(s, R, q, n)}
<1>0. \A q \in SUBSET S : IsFiniteSet(q) /\ Cardinality(q) \in Nat
  BY FS_Subset, FS_CardinalityType
<1>1. 0 \in T
  <2> SUFFICES ASSUME NEW q \in SUBSET S, Cardinality(q) = 0 PROVE \E s : Listing(s, R, q, 0)
    OBVIOUS
  <2>1. q = {}
    BY <1>0, FS_EmptySet
  <2>2. 1..0 = {}
    OBVIOUS
  <2>3. [i \in 1..0 |-> i] \in [1..0 -> q]
    BY <2>2
  <2> QED BY <2>1, <2>2, <2>3 DEF Listing
<1>2. ASSUME NEW n \in Nat, n \in T PROVE n + 1 \in T
  <2> SUFFICES ASSUME NEW q \in SUBSET S, Cardinality(q) = n + 1 PROVE \E s : Listing(s, R, q, n + 1)
    OBVIOUS
  <2>1. q # {}
    BY FS_EmptySet
  <2>2. PICK x : FirstIn(x, R, q)
    BY <2>1, FirstExists
  <2>3. PICK r \in SUBSET S : r = q \ {x}
    OBVIOUS
  <2>4. Cardinality(r) = n
    BY <1>0, <2>2, <2>3, FS_RemoveElement DEF FirstIn
  <2>5. PICK t : Listing(t, R, r, n)
    BY <1>2, <2>4
  <2>6. PICK s : s = [i \in 1..(n + 1) |-> IF i = 1 THEN x ELSE t[i - 1]]
    OBVIOUS
  <2>7. \A i \in 1..(n + 1) : i = 1 \/ i - 1 \in 1..n
    OBVIOUS
  <2>8. s[1] = x /\ \A i \in 1..n : i + 1 \in 1..(n + 1) /\ s[i + 1] = t[i]
    BY <2>6
  <2>9. \A i \in 1..(n + 1) : i = 1 \/ (i # 1 /\ i - 1 \in 1..n /\ s[i] = t[i - 1])
    BY <2>6, <2>7
  <2>10. t \in [1..n -> r] /\ x \in q
    BY <2>2, <2>5 DEF Listing, FirstIn
  <2>11. s \in [1..(n + 1) -> q]
    BY <2>3, <2>6, <2>7, <2>10
  <2>12. ASSUME NEW y \in q PROVE \E i \in 1..(n + 1) : s[i] = y
    <3>1. CASE y = x
      BY <2>8, <3>1
    <3>2. CASE y # x
      <4>1. PICK i \in 1..n : t[i] = y
        BY <2>3, <2>5, <3>2 DEF Listing
      <4> QED BY <2>8, <4>1
    <3> QED BY <3>1, <3>2
  <2>13. ASSUME NEW i \in 1..(n + 1), NEW j \in 1..(n + 1), i < j PROVE <<s[i], s[j]>> \in R
    <3>1. j # 1 /\ j - 1 \in 1..n /\ s[j] = t[j - 1] /\ s[j] \in r
      BY <2>9, <2>10, <2>13
    <3>2. CASE i = 1
      BY <2>2, <2>3, <2>8, <3>1, <3>2 DEF FirstIn
    <3>3. CASE i # 1
      <4>1. i - 1 \in 1..n /\ s[i] = t[i - 1] /\ i - 1 < j - 1
        BY <2>9, <2>13, <3>3
      <4> QED BY <2>5, <3>1, <4>1 DEF Listing
    <3> QED BY <3>2, <3>3
  <2> QED BY <2>11, <2>12, <2>13 DEF Listing
<1>3. T = Nat
  <2> HIDE DEF T
  <2>1. T \in SUBSET Nat
    BY DEF T
  <2> QED BY <1>1, <1>2, <2>1, AllNaturals
<1> QED BY <1>0, <1>3

\* The rows of a finite set of naturals that fewer than n precede are at most n.
LEMMA BatchBound ==
    ASSUME NEW P \in SUBSET Nat, IsFiniteSet(P), NEW n \in Nat \ {0}
    PROVE  Cardinality({d \in P : Cardinality({e \in P : e < d}) < n}) <= n
<1> DEFINE Before(d) == {e \in P : e < d}
           B == {d \in P : Cardinality(Before(d)) < n}
           G == {n - Cardinality(Before(d)) : d \in B}
<1>1. \A d \in P : IsFiniteSet(Before(d)) /\ Cardinality(Before(d)) \in Nat
  <2> TAKE d \in P
  <2>1. Before(d) \in SUBSET P
    OBVIOUS
  <2> HIDE DEF Before
  <2> QED BY <2>1, FS_Subset, FS_CardinalityType
<1>2. B \in SUBSET P /\ \A d \in B : d \in Nat /\ Cardinality(Before(d)) < n
  OBVIOUS
<1>3. \A d \in P : \A e \in P : e \in Before(d) <=> e < d
  OBVIOUS
<1>4. \A d \in P : Before(d) \in SUBSET P
  OBVIOUS
<1> SUFFICES Cardinality(B) <= n
  OBVIOUS
<1> HIDE DEF Before, B
<1>5. CASE B = {}
  BY <1>5, FS_EmptySet
<1>6. CASE B # {}
  <2>1. G \in SUBSET Nat /\ G # {}
    <3>1. \A d \in B : n - Cardinality(Before(d)) \in Nat
      BY <1>1, <1>2
    <3> QED BY <1>6, <3>1
  <2>2. PICK m \in B : \A d \in B : n - Cardinality(Before(m)) <= n - Cardinality(Before(d))
    <3>1. PICK x \in G : \A y \in G : x <= y
      <4> HIDE DEF G
      <4> QED BY <2>1, LeastOfSet
    <3> QED BY <3>1
  <2>3. ASSUME NEW d \in B, d > m PROVE FALSE
    <3>1. m \in P /\ d \in P /\ m \in Nat /\ d \in Nat
      BY <1>2
    <3>2. Before(m) \cup {m} \in SUBSET Before(d) /\ m \notin Before(m)
      <4>1. \A e \in Before(m) : e \in P /\ e \in Nat /\ e < m
        BY <1>3, <1>4, <3>1
      <4>2. \A e \in Before(m) : e \in Before(d)
        BY <1>3, <2>3, <3>1, <4>1
      <4>3. m \in Before(d) /\ m \notin Before(m)
        BY <1>3, <2>3, <3>1
      <4> QED BY <4>2, <4>3
    <3>3. Cardinality(Before(m)) >= Cardinality(Before(d))
      BY <1>1, <2>2, <3>1
    <3>4. Cardinality(Before(m) \cup {m}) = Cardinality(Before(m)) + 1
      BY <1>1, <3>1, <3>2, FS_AddElement
    <3>5. Cardinality(Before(m) \cup {m}) <= Cardinality(Before(d))
      BY <1>1, <3>1, <3>2, FS_Subset
    <3> QED BY <1>1, <3>1, <3>3, <3>4, <3>5
  <2>4. B \ {m} \in SUBSET Before(m)
    <3> SUFFICES ASSUME NEW d \in B, d # m PROVE d \in Before(m)
      OBVIOUS
    <3>1. d < m
      BY <1>2, <2>3
    <3> QED BY <1>2, <1>3, <3>1
  <2>5. IsFiniteSet(B \ {m}) /\ Cardinality(B \ {m}) <= Cardinality(Before(m))
    BY <1>1, <1>2, <2>4, FS_Subset
  <2>6. (B \ {m}) \cup {m} = B /\ m \notin B \ {m}
    OBVIOUS
  <2>7. Cardinality(B) = Cardinality(B \ {m}) + 1
    BY <2>5, <2>6, FS_AddElement
  <2>8. Cardinality(B \ {m}) \in Nat
    BY <2>5, FS_CardinalityType
  <2> QED BY <1>1, <1>2, <2>5, <2>7, <2>8
<1> QED BY <1>5, <1>6

\* The rank of a row in an ordered list.
LEMMA RankInList ==
    ASSUME NEW S \in SUBSET Nat, NEW n \in Nat, NEW s \in [1..n -> S],
           \A x \in S : \E i \in 1..n : s[i] = x, \A i, j \in 1..n : i < j => s[i] < s[j]
    PROVE  \A i \in 1..n : Cardinality({k \in S : k < s[i]}) = i - 1
<1> DEFINE T == {m \in Nat : m < n => IsFiniteSet({s[j] : j \in 1..m}) /\ Cardinality({s[j] : j \in 1..m}) = m}
<1>1. 0 \in T
  <2>1. {s[j] : j \in 1..0} = {}
    OBVIOUS
  <2> QED BY <2>1, FS_EmptySet
<1>2. ASSUME NEW m \in T PROVE m + 1 \in T
  <2> SUFFICES ASSUME m + 1 < n
               PROVE  /\ IsFiniteSet({s[j] : j \in 1..(m + 1)})
                      /\ Cardinality({s[j] : j \in 1..(m + 1)}) = m + 1
    OBVIOUS
  <2>1. PICK A : A = {s[j] : j \in 1..m}
    OBVIOUS
  <2>2. IsFiniteSet(A) /\ Cardinality(A) = m /\ m \in Nat
    BY <2>1
  <2>3. {s[j] : j \in 1..(m + 1)} = A \cup {s[m + 1]}
    <3>1. 1..(m + 1) = (1..m) \cup {m + 1}
      BY <2>2
    <3> QED BY <2>1, <3>1
  <2>4. s[m + 1] \notin A
    <3> SUFFICES ASSUME NEW j \in 1..m, s[j] = s[m + 1] PROVE FALSE
      BY <2>1
    <3>1. j \in 1..n /\ m + 1 \in 1..n /\ j < m + 1
      BY <2>2
    <3>2. s[j] < s[m + 1] /\ s[j] \in Nat /\ s[m + 1] \in Nat
      BY <3>1
    <3> QED BY <3>2
  <2>5. IsFiniteSet(A \cup {s[m + 1]}) /\ Cardinality(A \cup {s[m + 1]}) = Cardinality(A) + 1
    BY <2>2, <2>4, FS_AddElement
  <2> QED BY <2>2, <2>3, <2>5
<1>3. T = Nat
  <2> HIDE DEF T
  <2>1. T \in SUBSET Nat
    BY DEF T
  <2> QED BY <1>1, <1>2, <2>1, AllNaturals
<1> TAKE i \in 1..n
<1>4. {k \in S : k < s[i]} = {s[j] : j \in 1..(i - 1)}
  <2>1. ASSUME NEW k \in S, k < s[i] PROVE \E j \in 1..(i - 1) : s[j] = k
    <3>1. PICK j \in 1..n : s[j] = k
      OBVIOUS
    <3>2. ~(i < j) /\ i # j
      <4>1. s[i] \in Nat /\ s[j] \in Nat /\ (i < j => s[i] < s[j])
        OBVIOUS
      <4> QED BY <2>1, <3>1, <4>1
    <3>3. j \in 1..(i - 1)
      BY <3>2
    <3> QED BY <3>1, <3>3
  <2>2. ASSUME NEW j \in 1..(i - 1) PROVE s[j] \in S /\ s[j] < s[i]
    <3>1. j \in 1..n /\ j < i
      OBVIOUS
    <3> QED BY <3>1
  <2> QED BY <2>1, <2>2
<1>5. i - 1 \in Nat /\ i - 1 < n
  OBVIOUS
<1>6. i - 1 \in T
  BY <1>3, <1>5
<1> QED BY <1>4, <1>5, <1>6

\* The rows of a finite set, from the first to the last.
LEMMA NthListed ==
    ASSUME NEW S \in SUBSET Nat, IsFiniteSet(S)
    PROVE  /\ Cardinality(S) \in Nat /\ \A i \in 1..Cardinality(S) : Nth(S, i) \in S
           /\ \A x \in S : \E i \in 1..Cardinality(S) : Nth(S, i) = x
           /\ \A i, j \in 1..Cardinality(S) : i < j => Nth(S, i) < Nth(S, j)
<1>1. PICK n \in Nat : n = Cardinality(S)
  BY FS_CardinalityType
<1> DEFINE R == {x \in S \X S : x[1] < x[2]}
<1>2. \A x, y \in S : <<x, y>> \in R <=> x < y
  <2> TAKE x, y \in S
  <2>1. <<x, y>> \in S \X S /\ <<x, y>>[1] = x /\ <<x, y>>[2] = y
    OBVIOUS
  <2> QED BY <2>1
<1>3. Orders(R, S)
  <2> HIDE DEF R
  <2>1. \A x, y \in S : x = y \/ x < y \/ y < x
    OBVIOUS
  <2>2. \A x, y, z \in S : x < y /\ y < z => x < z
    OBVIOUS
  <2> QED BY <1>2, <2>1, <2>2 DEF Orders
<1>4. PICK s : Listing(s, R, S, n)
  BY <1>1, <1>3, OrderedListExists
<1>5. /\ s \in [1..n -> S] /\ (\A x \in S : \E i \in 1..n : s[i] = x)
      /\ \A i, j \in 1..n : i < j => s[i] < s[j]
  <2>1. s \in [1..n -> S] /\ (\A x \in S : \E i \in 1..n : s[i] = x)
        /\ \A i, j \in 1..n : i < j => <<s[i], s[j]>> \in R
    BY <1>4 DEF Listing
  <2> QED BY <1>2, <2>1
<1>6. \A i \in 1..n : Cardinality({k \in S : k < s[i]}) = i - 1
  BY <1>5, RankInList
<1>7. ASSUME NEW i \in 1..n PROVE Nth(S, i) = s[i]
  <2>1. \A m \in S : Cardinality({k \in S : k < m}) = i - 1 <=> m = s[i]
    <3> TAKE m \in S
    <3>1. PICK j \in 1..n : s[j] = m
      BY <1>5
    <3>2. Cardinality({k \in S : k < m}) = j - 1
      BY <1>6, <3>1
    <3>3. Cardinality({k \in S : k < s[i]}) = i - 1
      BY <1>6
    <3>4. j - 1 = i - 1 => j = i
      OBVIOUS
    <3> QED BY <3>1, <3>2, <3>3, <3>4
  <2>2. s[i] \in S
    BY <1>5
  <2> QED BY <2>1, <2>2 DEF Nth
<1> QED BY <1>1, <1>5, <1>7

\* Two sequences, one after the other, and the last of one.
LEMMA SeqsJoined ==
    ASSUME NEW S, NEW a \in Seq(S), NEW b \in Seq(S)
    PROVE  /\ a \o b \in Seq(S) /\ Len(a \o b) = Len(a) + Len(b)
           /\ \A i \in 1..Len(a) : (a \o b)[i] = a[i]
           /\ \A i \in 1..Len(b) : (a \o b)[Len(a) + i] = b[i]
OBVIOUS
LEMMA NumbersJoined ==
    ASSUME NEW a \in Seq(Nat), NEW b \in Seq(Nat)
    PROVE  /\ Len(a \o b) = Len(a) + Len(b)
           /\ \A i \in 1..Len(a) : (a \o b)[i] = a[i]
           /\ \A i \in 1..Len(b) : (a \o b)[Len(a) + i] = b[i]
<1>1. Len(a) \in Nat /\ Len(b) \in Nat /\ Len(a \o b) = Len(a) + Len(b)
  OBVIOUS
<1>2. \A i \in 1..Len(a) : (a \o b)[i] = a[i]
  OBVIOUS
<1>3. \A i \in 1..Len(b) : (a \o b)[Len(a) + i] = b[i]
  OBVIOUS
<1> QED BY <1>1, <1>2, <1>3
LEMMA OneJoined ==
    ASSUME NEW S, NEW a \in Seq(S), NEW e \in S
    PROVE  Append(a, e) = a \o <<e>>
OBVIOUS
LEMMA ListIsSeq ==
    ASSUME NEW S, NEW n \in Nat, NEW f \in [1..n -> S]
    PROVE  f \in Seq(S) /\ Len(f) = n
OBVIOUS
LEMMA LastOfSeq ==
    ASSUME NEW S, NEW s \in Seq(S), NEW k \in 0..Len(s)
    PROVE  /\ SubSeq(s, Len(s) - k + 1, Len(s)) \in Seq(S) /\ Len(SubSeq(s, Len(s) - k + 1, Len(s))) = k
           /\ \A i \in 1..k : /\ SubSeq(s, Len(s) - k + 1, Len(s))[i] = s[Len(s) - k + i]
                              /\ Len(s) - k + i \in 1..Len(s)
<1>1. PICK n \in Nat : n = Len(s)
  OBVIOUS
<1>2. SubSeq(s, n - k + 1, n) \in Seq(S) /\ Len(SubSeq(s, n - k + 1, n)) = k
  BY <1>1
<1>3. \A i \in 1..k : SubSeq(s, n - k + 1, n)[i] = s[n - k + i] /\ n - k + i \in 1..n
  BY <1>1
<1> QED BY <1>1, <1>2, <1>3
=============================================================================
