----------------------------- MODULE FiniteSums -----------------------------
(***************************************************************************)
(* Sums over finite sets, as SumFunctionOnSet of the community modules      *)
(* computes them: what is added with one more element, and that a part is   *)
(* never more than the whole.  The library's induction theorems take an     *)
(* operator; here each induction is on the least number that violates the   *)
(* claim, which exists because Nat is well-founded.                         *)
(***************************************************************************)
EXTENDS Integers, FiniteSets, Functions, FiniteSetTheorems, WellFoundedInduction, TLAPS

Less == {ab \in Nat \X Nat : ab[1] < ab[2]}

\* A set of naturals has a least element.
LEMMA LeastNumber ==
  ASSUME NEW T \in SUBSET Nat, T # {}
  PROVE  \E n \in T : \A m \in T : n <= m
<1>1. IsWellFoundedOn(Less, Nat)
  BY NatLessThanWellFounded DEF OpToRel, Less
<1>2. PICK n \in T : \A m \in T : ~ (<<m, n>> \in Less)
  BY <1>1, WFMin
<1>3. \A m \in T : <<m, n>> \in Nat \X Nat
  OBVIOUS
<1>4. \A m \in T : ~ (m < n)
  BY <1>2, <1>3 DEF Less
<1> QED
  BY <1>2, <1>4

\* A set of numbers with 0 that holds the successor of each member holds all.
LEMMA Induction ==
  ASSUME NEW P \in SUBSET Nat, 0 \in P, \A n \in P : n + 1 \in P
  PROVE  P = Nat
<1> SUFFICES ASSUME Nat \ P # {} PROVE FALSE
  OBVIOUS
<1>1. Nat \ P \in SUBSET Nat
  OBVIOUS
<1>2. PICK n \in Nat \ P : \A m \in Nat \ P : n <= m
  BY <1>1, LeastNumber
<1>3. n # 0 /\ n - 1 \in Nat
  BY <1>2
<1>4. n - 1 \in P
  BY <1>2, <1>3
<1> QED
  BY <1>2, <1>3, <1>4

Pick(s) == CHOOSE x \in s : TRUE
\* One more step of the fold over f, from the values g has for smaller sets.
Fold(f, g, s) == IF s = {} THEN 0 ELSE f[Pick(s)] + g[s \ {Pick(s)}]
Unrolled(f, S, g) == g = [s \in SUBSET S |-> Fold(f, g, s)]

LEMMA SumIsUnrolled ==
  ASSUME NEW f, NEW S
  PROVE  SumFunctionOnSet(f, S) = (CHOOSE g : Unrolled(f, S, g))[S]
BY Zenon DEF SumFunctionOnSet, FoldFunctionOnSet, MapThenFoldSet, Unrolled, Fold, Pick

LEMMA PickedMember == ASSUME NEW s, s # {} PROVE Pick(s) \in s
BY DEF Pick

\* The subsets a fold over S meets when it has come down to n elements.
UpTo(S, n) == {s \in SUBSET S : Cardinality(s) <= n}
Partial(f, S, n, g) == g = [s \in UpTo(S, n) |-> Fold(f, g, s)]

LEMMA SubsetSizes ==
  ASSUME NEW S, IsFiniteSet(S), NEW s \in SUBSET S
  PROVE  /\ IsFiniteSet(s) /\ Cardinality(s) \in Nat /\ Cardinality(s) <= Cardinality(S)
         /\ Cardinality(s) = 0 <=> s = {}
         /\ s # {} => Cardinality(s \ {Pick(s)}) = Cardinality(s) - 1
<1>1. IsFiniteSet(s) /\ Cardinality(s) \in Nat /\ Cardinality(s) <= Cardinality(S)
  BY FS_Subset, FS_CardinalityType
<1>2. Cardinality(s) = 0 <=> s = {}
  BY <1>1, FS_EmptySet
<1>3. s # {} => Cardinality(s \ {Pick(s)}) = Cardinality(s) - 1
  BY <1>1, PickedMember, FS_RemoveElement
<1> QED
  BY <1>1, <1>2, <1>3

LEMMA PartialFolds ==
  ASSUME NEW f, NEW S, IsFiniteSet(S)
  PROVE  \A n \in Nat : \E g : Partial(f, S, n, g)
<1> DEFINE P == {n \in Nat : \E g : Partial(f, S, n, g)}
<1>1. 0 \in P
  <2> DEFINE g == [s \in UpTo(S, 0) |-> 0]
  <2>1. ASSUME NEW s \in UpTo(S, 0) PROVE s = {}
    <3>1. s \in SUBSET S /\ Cardinality(s) <= 0
      BY DEF UpTo
    <3>2. Cardinality(s) \in Nat /\ (Cardinality(s) = 0 <=> s = {})
      BY <3>1, SubsetSizes
    <3> QED
      BY <3>1, <3>2
  <2>2. \A s \in UpTo(S, 0) : Fold(f, g, s) = 0
    BY <2>1 DEF Fold
  <2>3. g = [s \in UpTo(S, 0) |-> Fold(f, g, s)]
    BY <2>2
  <2> QED
    BY <2>3 DEF Partial
<1>2. ASSUME NEW n \in P PROVE n + 1 \in P
  <2>1. PICK h : Partial(f, S, n, h)
    OBVIOUS
  <2> DEFINE g == [s \in UpTo(S, n + 1) |-> Fold(f, h, s)]
  <2>2. ASSUME NEW s \in UpTo(S, n + 1), s # {}
        PROVE  s \ {Pick(s)} \in UpTo(S, n) /\ s \ {Pick(s)} \in UpTo(S, n + 1)
    BY <2>2, SubsetSizes DEF UpTo
  <2>3. \A s \in UpTo(S, n) : s \in UpTo(S, n + 1) /\ h[s] = Fold(f, h, s)
    <3>1. \A s \in UpTo(S, n) : h[s] = Fold(f, h, s)
      BY <2>1 DEF Partial
    <3>2. ASSUME NEW s \in UpTo(S, n) PROVE s \in UpTo(S, n + 1)
      <4>1. s \in SUBSET S /\ Cardinality(s) <= n /\ Cardinality(s) \in Nat
        BY SubsetSizes DEF UpTo
      <4> QED
        BY <4>1 DEF UpTo
    <3> QED
      BY <3>1, <3>2
  <2>4. \A s \in UpTo(S, n) : g[s] = h[s]
    BY <2>3
  <2>5. \A s \in UpTo(S, n + 1) : Fold(f, g, s) = Fold(f, h, s)
    <3> HIDE DEF g
    <3> QED
      BY <2>2, <2>4 DEF Fold
  <2>6. Partial(f, S, n + 1, g)
    <3>1. g = [s \in UpTo(S, n + 1) |-> Fold(f, g, s)]
      BY <2>5
    <3> QED
      BY <3>1 DEF Partial
  <2> QED
    BY <2>6
<1>3. P = Nat
  BY <1>1, <1>2, Induction
<1> QED
  BY <1>3

LEMMA FoldExists ==
  ASSUME NEW f, NEW S, IsFiniteSet(S)
  PROVE  \E g : Unrolled(f, S, g)
<1>1. Cardinality(S) \in Nat
  BY FS_CardinalityType
<1>2. PICK g : Partial(f, S, Cardinality(S), g)
  BY <1>1, PartialFolds
<1>3. UpTo(S, Cardinality(S)) = SUBSET S
  BY SubsetSizes DEF UpTo
<1> QED
  BY <1>2, <1>3 DEF Partial, Unrolled

\* The fold over a set and the one over a part of it agree.
LEMMA FoldsAgree ==
  ASSUME NEW f, NEW S, NEW T, NEW g, NEW h,
         IsFiniteSet(S), T \subseteq S, Unrolled(f, S, g), Unrolled(f, T, h)
  PROVE  \A s \in SUBSET T : g[s] = h[s]
<1> DEFINE P == {n \in Nat : \A s \in SUBSET T : Cardinality(s) = n => g[s] = h[s]}
<1>1. /\ \A s \in SUBSET T : g[s] = Fold(f, g, s)
      /\ \A s \in SUBSET T : h[s] = Fold(f, h, s)
  BY DEF Unrolled
<1>2. \A s \in SUBSET T :
        /\ Cardinality(s) \in Nat /\ (Cardinality(s) = 0 <=> s = {})
        /\ s # {} => Cardinality(s \ {Pick(s)}) = Cardinality(s) - 1
  BY SubsetSizes
<1>3. 0 \in P
  BY <1>1, <1>2 DEF Fold
<1>4. ASSUME NEW n \in P PROVE n + 1 \in P
  <2> SUFFICES ASSUME NEW s \in SUBSET T, Cardinality(s) = n + 1 PROVE g[s] = h[s]
    OBVIOUS
  <2>1. s # {} /\ s \ {Pick(s)} \in SUBSET T /\ Cardinality(s \ {Pick(s)}) = n
    BY <1>2
  <2>2. g[s \ {Pick(s)}] = h[s \ {Pick(s)}]
    BY <2>1
  <2> QED
    BY <1>1, <2>1, <2>2 DEF Fold
<1>5. P = Nat
  BY <1>3, <1>4, Induction
<1> QED
  BY <1>2, <1>5

LEMMA SumUnrolls ==
  ASSUME NEW f, NEW S, IsFiniteSet(S)
  PROVE  SumFunctionOnSet(f, S) =
           IF S = {} THEN 0 ELSE f[Pick(S)] + SumFunctionOnSet(f, S \ {Pick(S)})
<1> DEFINE R == S \ {Pick(S)}
           g == CHOOSE k : Unrolled(f, S, k)
           h == CHOOSE k : Unrolled(f, R, k)
<1>1. Unrolled(f, S, g)
  BY FoldExists
<1>2. IsFiniteSet(R) /\ R \in SUBSET S
  BY FS_Subset
<1>3. Unrolled(f, R, h)
  BY <1>2, FoldExists
<1>4. SumFunctionOnSet(f, S) = g[S] /\ SumFunctionOnSet(f, R) = h[R]
  BY SumIsUnrolled
<1> HIDE DEF g, h
<1>5. g[R] = h[R]
  <2> HIDE DEF R
  <2>1. \A s \in SUBSET R : g[s] = h[s]
    BY <1>1, <1>2, <1>3, FoldsAgree
  <2> QED
    BY <2>1
<1>6. g[S] = Fold(f, g, S)
  BY <1>1 DEF Unrolled
<1> QED
  BY <1>4, <1>5, <1>6 DEF Fold

-----------------------------------------------------------------------------
(* What the proofs use *)

\* The empty sum is 0, and a sum of naturals is a natural.
THEOREM SumType ==
  ASSUME NEW f, NEW S, IsFiniteSet(S), \A x \in S : f[x] \in Nat
  PROVE  SumFunctionOnSet(f, S) \in Nat /\ (S = {} => SumFunctionOnSet(f, S) = 0)
<1> DEFINE P == {n \in Nat : \A T \in SUBSET S : Cardinality(T) = n => SumFunctionOnSet(f, T) \in Nat}
<1>1. 0 \in P
  <2> SUFFICES ASSUME NEW T \in SUBSET S, Cardinality(T) = 0
               PROVE  SumFunctionOnSet(f, T) \in Nat
    OBVIOUS
  <2>1. T = {} /\ IsFiniteSet(T)
    BY SubsetSizes
  <2>2. SumFunctionOnSet(f, T) = 0
    BY <2>1, SumUnrolls
  <2> QED
    BY <2>2
<1>2. ASSUME NEW n \in P PROVE n + 1 \in P
  <2> SUFFICES ASSUME NEW T \in SUBSET S, Cardinality(T) = n + 1
               PROVE  SumFunctionOnSet(f, T) \in Nat
    OBVIOUS
  <2>1. T # {} /\ IsFiniteSet(T) /\ Cardinality(T \ {Pick(T)}) = n
    BY SubsetSizes
  <2>2. SumFunctionOnSet(f, T \ {Pick(T)}) \in Nat
    BY <2>1
  <2>3. f[Pick(T)] \in Nat
    BY <2>1, PickedMember
  <2>4. SumFunctionOnSet(f, T) = f[Pick(T)] + SumFunctionOnSet(f, T \ {Pick(T)})
    BY <2>1, SumUnrolls
  <2> QED
    BY <2>2, <2>3, <2>4
<1>3. P = Nat
  BY <1>1, <1>2, Induction
<1>4. Cardinality(S) \in Nat
  BY FS_CardinalityType
<1>5. SumFunctionOnSet(f, S) \in Nat
  BY <1>3, <1>4
<1>6. S = {} => SumFunctionOnSet(f, S) = 0
  BY SumUnrolls
<1> QED
  BY <1>5, <1>6

\* One more element adds its value, whichever element the fold takes first.
THEOREM SumAdd ==
  ASSUME NEW f, NEW S, NEW x, IsFiniteSet(S), x \notin S,
         f[x] \in Nat, \A y \in S : f[y] \in Nat
  PROVE  SumFunctionOnSet(f, S \cup {x}) = f[x] + SumFunctionOnSet(f, S)
<1> DEFINE A == S \cup {x}
           Adds(T) == \A y \in A \ T :
                        SumFunctionOnSet(f, T \cup {y}) = f[y] + SumFunctionOnSet(f, T)
           P == {n \in Nat : \A T \in SUBSET A : Cardinality(T) = n => Adds(T)}
<1>1. IsFiniteSet(A) /\ \A y \in A : f[y] \in Nat
  BY FS_AddElement
<1>2. ASSUME NEW T \in SUBSET A
      PROVE  /\ IsFiniteSet(T) /\ Cardinality(T) \in Nat /\ SumFunctionOnSet(f, T) \in Nat
             /\ (Cardinality(T) = 0 <=> T = {})
  BY <1>1, SubsetSizes, SumType
<1>3. ASSUME NEW T \in SUBSET A, NEW y \in A \ T
      PROVE  LET U == T \cup {y} IN
             /\ Pick(U) \in U /\ U \in SUBSET A
             /\ SumFunctionOnSet(f, U) = f[Pick(U)] + SumFunctionOnSet(f, U \ {Pick(U)})
  <2> DEFINE U == T \cup {y}
  <2>1. U # {} /\ U \in SUBSET A
    OBVIOUS
  <2>2. IsFiniteSet(U)
    BY <1>2, <2>1
  <2> HIDE DEF U
  <2>3. Pick(U) \in U /\ SumFunctionOnSet(f, U) = f[Pick(U)] + SumFunctionOnSet(f, U \ {Pick(U)})
    BY <2>1, <2>2, PickedMember, SumUnrolls
  <2> QED
    BY <2>1, <2>3 DEF U
<1>4. ASSUME NEW T \in SUBSET A, NEW y \in A \ T, Pick(T \cup {y}) = y
      PROVE  SumFunctionOnSet(f, T \cup {y}) = f[y] + SumFunctionOnSet(f, T)
  <2>1. (T \cup {y}) \ {y} = T
    OBVIOUS
  <2> QED
    BY <1>3, <1>4, <2>1
<1>5. 0 \in P
  <2> SUFFICES ASSUME NEW T \in SUBSET A, Cardinality(T) = 0, NEW y \in A \ T
               PROVE  SumFunctionOnSet(f, T \cup {y}) = f[y] + SumFunctionOnSet(f, T)
    OBVIOUS
  <2>1. T = {}
    BY <1>2
  <2>2. Pick(T \cup {y}) = y
    BY <1>3, <2>1
  <2> QED
    BY <1>4, <2>2
<1>6. ASSUME NEW n \in P PROVE n + 1 \in P
  <2> SUFFICES ASSUME NEW T \in SUBSET A, Cardinality(T) = n + 1, NEW y \in A \ T
               PROVE  SumFunctionOnSet(f, T \cup {y}) = f[y] + SumFunctionOnSet(f, T)
    OBVIOUS
  <2> DEFINE z == Pick(T \cup {y})
             R == T \ {z}
  <2>1. CASE z = y
    BY <1>4, <2>1
  <2>2. CASE z # y
    <3>1. z \in T
      BY <1>3, <2>2
    <3>2. /\ R \in SUBSET A /\ y \in A \ R /\ z \in A \ R /\ R \cup {z} = T
          /\ (T \cup {y}) \ {z} = R \cup {y}
      BY <2>2, <3>1
    <3>3. Cardinality(R) = n
      <4>1. IsFiniteSet(T)
        BY <1>2
      <4> HIDE DEF z
      <4>2. Cardinality(T \ {z}) = Cardinality(T) - 1
        BY <3>1, <4>1, FS_RemoveElement
      <4> QED
        BY <4>2
    <3>4. Adds(R)
      BY <3>2, <3>3
    <3>5. /\ SumFunctionOnSet(f, R \cup {y}) = f[y] + SumFunctionOnSet(f, R)
          /\ SumFunctionOnSet(f, T) = f[z] + SumFunctionOnSet(f, R)
      BY <3>2, <3>4
    <3>6. SumFunctionOnSet(f, T \cup {y}) = f[z] + SumFunctionOnSet(f, R \cup {y})
      BY <1>3, <3>2
    <3>7. f[y] \in Nat /\ f[z] \in Nat /\ SumFunctionOnSet(f, R) \in Nat
      BY <1>1, <1>2, <3>2
    <3> QED
      BY <3>5, <3>6, <3>7
  <2> QED
    BY <2>1, <2>2
<1>7. P = Nat
  BY <1>5, <1>6, Induction
<1> QED
  BY <1>2, <1>7

\* A sum depends only on the values at its elements.
THEOREM SumSame ==
  ASSUME NEW f, NEW g, NEW S, IsFiniteSet(S), \A x \in S : f[x] = g[x] /\ f[x] \in Nat
  PROVE  SumFunctionOnSet(f, S) = SumFunctionOnSet(g, S)
<1> DEFINE P == {n \in Nat : \A T \in SUBSET S : Cardinality(T) = n =>
                   SumFunctionOnSet(f, T) = SumFunctionOnSet(g, T)}
<1>1. 0 \in P
  <2> SUFFICES ASSUME NEW T \in SUBSET S, Cardinality(T) = 0
               PROVE  SumFunctionOnSet(f, T) = SumFunctionOnSet(g, T)
    OBVIOUS
  <2>1. T = {} /\ IsFiniteSet(T)
    BY SubsetSizes
  <2> QED
    BY <2>1, SumUnrolls
<1>2. ASSUME NEW n \in P PROVE n + 1 \in P
  <2> SUFFICES ASSUME NEW T \in SUBSET S, Cardinality(T) = n + 1
               PROVE  SumFunctionOnSet(f, T) = SumFunctionOnSet(g, T)
    OBVIOUS
  <2>1. T # {} /\ IsFiniteSet(T) /\ Cardinality(T \ {Pick(T)}) = n
    BY SubsetSizes
  <2>2. SumFunctionOnSet(f, T \ {Pick(T)}) = SumFunctionOnSet(g, T \ {Pick(T)})
    BY <2>1
  <2>3. f[Pick(T)] = g[Pick(T)]
    BY <2>1, PickedMember
  <2> QED
    BY <2>1, <2>2, <2>3, SumUnrolls
<1>3. P = Nat
  BY <1>1, <1>2, Induction
<1> QED
  BY <1>3, FS_CardinalityType

\* A part sums to no more than the whole.
THEOREM SumOfPart ==
  ASSUME NEW f, NEW S, NEW T, IsFiniteSet(S), T \subseteq S, \A x \in S : f[x] \in Nat
  PROVE  SumFunctionOnSet(f, T) <= SumFunctionOnSet(f, S)
<1> DEFINE P == {n \in Nat : \A U \in SUBSET (S \ T) : Cardinality(U) = n =>
                   SumFunctionOnSet(f, T) <= SumFunctionOnSet(f, T \cup U)}
<1>1. ASSUME NEW U \in SUBSET S
      PROVE  IsFiniteSet(U) /\ SumFunctionOnSet(f, U) \in Nat
  BY SubsetSizes, SumType
<1>2. IsFiniteSet(S \ T)
  BY FS_Subset
<1>3. 0 \in P
  <2> SUFFICES ASSUME NEW U \in SUBSET (S \ T), Cardinality(U) = 0
               PROVE  SumFunctionOnSet(f, T) <= SumFunctionOnSet(f, T \cup U)
    OBVIOUS
  <2>1. T \cup U = T
    BY <1>2, SubsetSizes
  <2> QED
    BY <1>1, <2>1
<1>4. ASSUME NEW n \in P PROVE n + 1 \in P
  <2> SUFFICES ASSUME NEW U \in SUBSET (S \ T), Cardinality(U) = n + 1
               PROVE  SumFunctionOnSet(f, T) <= SumFunctionOnSet(f, T \cup U)
    OBVIOUS
  <2> DEFINE x == Pick(U)
             R == U \ {x}
  <2>1. U # {} /\ Cardinality(R) = n
    BY <1>2, SubsetSizes
  <2>2. x \in U
    BY <2>1, PickedMember
  <2>3. /\ R \in SUBSET (S \ T) /\ x \notin T \cup R /\ (T \cup R) \cup {x} = T \cup U
        /\ T \cup R \in SUBSET S
    BY <2>2
  <2>4. SumFunctionOnSet(f, T) <= SumFunctionOnSet(f, T \cup R)
    BY <2>1, <2>3
  <2>5. SumFunctionOnSet(f, T \cup U) = f[x] + SumFunctionOnSet(f, T \cup R)
    <3> HIDE DEF R, x
    <3>1. IsFiniteSet(T \cup R) /\ f[x] \in Nat /\ \A y \in T \cup R : f[y] \in Nat
      BY <1>1, <2>2, <2>3
    <3>2. SumFunctionOnSet(f, (T \cup R) \cup {x}) = f[x] + SumFunctionOnSet(f, T \cup R)
      BY <2>3, <3>1, SumAdd
    <3> QED
      BY <2>3, <3>2
  <2>6. /\ f[x] \in Nat /\ SumFunctionOnSet(f, T \cup R) \in Nat
        /\ SumFunctionOnSet(f, T) \in Nat
    BY <1>1, <2>2, <2>3
  <2> QED
    BY <2>4, <2>5, <2>6
<1>5. P = Nat
  BY <1>3, <1>4, Induction
<1>6. S \ T \in SUBSET (S \ T) /\ T \cup (S \ T) = S /\ Cardinality(S \ T) \in Nat
  BY <1>2, FS_CardinalityType
<1> QED
  BY <1>5, <1>6

\* What two sets share is counted once in their union.
THEOREM SumOfUnion ==
  ASSUME NEW f, NEW S, NEW T, IsFiniteSet(S), IsFiniteSet(T),
         \A x \in S \cup T : f[x] \in Nat
  PROVE  SumFunctionOnSet(f, S \cup T) <= SumFunctionOnSet(f, S) + SumFunctionOnSet(f, T)
<1> DEFINE P == {n \in Nat : \A U \in SUBSET T : Cardinality(U) = n =>
                   SumFunctionOnSet(f, S \cup U)
                     <= SumFunctionOnSet(f, S) + SumFunctionOnSet(f, U)}
<1>1. IsFiniteSet(S \cup T)
  BY FS_Union
<1>2. ASSUME NEW U \in SUBSET (S \cup T)
      PROVE  IsFiniteSet(U) /\ SumFunctionOnSet(f, U) \in Nat
  BY <1>1, SubsetSizes, SumType
<1>3. 0 \in P
  <2> SUFFICES ASSUME NEW U \in SUBSET T, Cardinality(U) = 0
               PROVE  SumFunctionOnSet(f, S \cup U)
                        <= SumFunctionOnSet(f, S) + SumFunctionOnSet(f, U)
    OBVIOUS
  <2>1. U = {}
    BY SubsetSizes
  <2>2. S \cup U = S
    BY <2>1
  <2>3. SumFunctionOnSet(f, S) \in Nat /\ SumFunctionOnSet(f, U) \in Nat
    BY <1>2
  <2>4. SumFunctionOnSet(f, S \cup U) = SumFunctionOnSet(f, S)
    BY <2>2, Zenon
  <2> QED
    BY <2>3, <2>4
<1>4. ASSUME NEW n \in P PROVE n + 1 \in P
  <2> SUFFICES ASSUME NEW U \in SUBSET T, Cardinality(U) = n + 1
               PROVE  SumFunctionOnSet(f, S \cup U)
                        <= SumFunctionOnSet(f, S) + SumFunctionOnSet(f, U)
    OBVIOUS
  <2> DEFINE x == Pick(U)
             R == U \ {x}
  <2>1. U # {} /\ Cardinality(R) = n /\ IsFiniteSet(U)
    BY SubsetSizes
  <2>2. x \in U
    BY <2>1, PickedMember
  <2>3. SumFunctionOnSet(f, U) = f[x] + SumFunctionOnSet(f, R)
    BY <2>1, SumUnrolls
  <2> HIDE DEF x
  <2>4. R \in SUBSET T /\ S \cup U = (S \cup R) \cup {x}
    BY <2>2
  <2>5. SumFunctionOnSet(f, S \cup R) <= SumFunctionOnSet(f, S) + SumFunctionOnSet(f, R)
    BY <2>1, <2>4
  <2>6. /\ f[x] \in Nat /\ SumFunctionOnSet(f, S) \in Nat /\ SumFunctionOnSet(f, R) \in Nat
        /\ SumFunctionOnSet(f, S \cup R) \in Nat /\ IsFiniteSet(S \cup R)
    BY <1>2, <2>2
  <2>7. CASE x \in S \cup R
    <3>1. S \cup U = S \cup R
      BY <2>4, <2>7
    <3>2. SumFunctionOnSet(f, S \cup U) = SumFunctionOnSet(f, S \cup R)
      BY <3>1, Zenon
    <3> HIDE DEF R
    <3> QED
      BY <3>2, <2>3, <2>5, <2>6
  <2>8. CASE x \notin S \cup R
    <3> HIDE DEF R
    <3>1. \A y \in S \cup R : f[y] \in Nat
      BY <2>4
    <3>2. SumFunctionOnSet(f, (S \cup R) \cup {x}) = f[x] + SumFunctionOnSet(f, S \cup R)
      BY <2>6, <2>8, <3>1, SumAdd
    <3> QED
      BY <3>2, <2>3, <2>4, <2>5, <2>6
  <2> QED
    BY <2>7, <2>8
<1>5. P = Nat
  BY <1>3, <1>4, Induction
<1> QED
  BY <1>5, FS_CardinalityType
=============================================================================
