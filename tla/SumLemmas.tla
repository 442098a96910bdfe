----------------------------- MODULE SumLemmas -----------------------------
(***************************************************************************)
(* Sums over finite sets, as SumFunctionOnSet and SumFunction compute      *)
(* them, and the induction over finite sets that reasoning about them      *)
(* needs.  The induction is stated for a set of sets rather than for a     *)
(* predicate, and proved from a least element.                             *)
(***************************************************************************)
EXTENDS Integers, FiniteSets, Functions, Folds,
        FiniteSetTheorems, WellFoundedInduction, TLAPS

-----------------------------------------------------------------------------
(* Least and greatest elements, and induction.                             *)

(* A set of naturals with an element has a least one.                      *)
LEMMA Least ==
  ASSUME NEW S \in SUBSET Nat, S # {}
  PROVE  \E m \in S : \A n \in S : m <= n
<1> DEFINE R == OpToRel(<, Nat)
<1>1. IsWellFoundedOn(R, Nat)
  BY NatLessThanWellFounded
<1>2. \A x, y \in Nat : x < y => <<x, y>> \in R
  BY DEF OpToRel
<1> HIDE DEF R
<1>3. PICK m \in S : \A n \in S : ~ (<<n, m>> \in R)
  BY <1>1, WFMin
<1>4. ASSUME NEW n \in S  PROVE m <= n
  <2>1. ~ (n < m)
    BY <1>2, <1>3
  <2> QED BY <2>1
<1> QED BY <1>4

(* And if it is bounded, a greatest one.                                   *)
LEMMA Greatest ==
  ASSUME NEW b \in Nat, NEW S \in SUBSET (0 .. b), S # {}
  PROVE  \E m \in S : \A n \in S : n <= m
<1> DEFINE T == {b - n : n \in S}
<1>1. T \subseteq Nat
  <2>1. \A n \in S : n \in 0 .. b
    OBVIOUS
  <2>2. \A n \in S : b - n \in Nat
    BY <2>1
  <2> QED BY <2>2
<1>2. T # {}
  OBVIOUS
<1>3. PICK k \in T : \A n \in T : k <= n
  <2> HIDE DEF T
  <2> QED BY <1>1, <1>2, Least
<1>4. PICK m \in S : k = b - m
  OBVIOUS
<1>5. ASSUME NEW n \in S  PROVE n <= m
  <2>1. b - n \in T
    OBVIOUS
  <2>2. b - m <= b - n
    BY <1>3, <1>4, <2>1
  <2>3. n \in 0 .. b /\ m \in 0 .. b
    OBVIOUS
  <2> HIDE DEF T
  <2> QED BY <2>2, <2>3
<1> QED BY <1>5

(* Induction over a finite set: what holds of a set T whenever it holds of *)
(* T without any one of its elements holds of every subset.                *)
LEMMA SetInduction ==
  ASSUME NEW S, IsFiniteSet(S), NEW P,
         \A T \in SUBSET S : (\A x \in T : T \ {x} \in P) => T \in P
  PROVE  \A T \in SUBSET S : T \in P
<1> DEFINE Bad == {T \in SUBSET S : T \notin P}
           Sizes == {Cardinality(T) : T \in Bad}
<1>1. \A T \in SUBSET S : IsFiniteSet(T) /\ Cardinality(T) \in Nat
  BY FS_Subset, FS_CardinalityType
<1>2. SUFFICES ASSUME Bad # {}  PROVE FALSE
  OBVIOUS
<1>3. Sizes \in SUBSET Nat /\ Sizes # {}
  BY <1>1, <1>2
<1>4. PICK m \in Sizes : \A n \in Sizes : m <= n
  <2> HIDE DEF Sizes
  <2> QED BY <1>3, Least
<1>5. PICK T \in Bad : Cardinality(T) = m
  OBVIOUS
<1>6. ASSUME NEW x \in T  PROVE T \ {x} \in P
  <2>1. T \ {x} \in SUBSET S /\ Cardinality(T \ {x}) = Cardinality(T) - 1
    BY <1>1, FS_RemoveElement
  <2>2. Cardinality(T) \in Nat
    BY <1>1
  <2>3. T \ {x} \notin P => Cardinality(T \ {x}) \in Sizes
    BY <2>1
  <2> HIDE DEF Sizes
  <2> QED BY <1>4, <1>5, <2>1, <2>2, <2>3
<1> QED BY <1>5, <1>6

-----------------------------------------------------------------------------
(* The equation of a sum.                                                  *)

(* One element of a set, and the recursion of the fold over the subsets.   *)
Some(s) == CHOOSE x \in s : TRUE
Without(s) == s \ {Some(s)}
IsSum(h, f, S) ==
  h = [s \in SUBSET S |-> IF s = {} THEN 0 ELSE f[Some(s)] + h[Without(s)]]

(* A set that is not empty has the element that is chosen.                 *)
LEMMA SomeIn ==
  ASSUME NEW s, s # {}
  PROVE  Some(s) \in s /\ Without(s) \subseteq s /\ Without(s) # s
BY DEF Some, Without

(* A sum is what a solution of the recursion gives.                        *)
LEMMA SumIs ==
  ASSUME NEW f, NEW S
  PROVE  SumFunctionOnSet(f, S) = (CHOOSE h : IsSum(h, f, S))[S]
BY DEF SumFunctionOnSet, FoldFunctionOnSet, MapThenFoldSet, IsSum, Some, Without

(* The recursion at one set.                                               *)
LEMMA SumAt ==
  ASSUME NEW f, NEW S, NEW h, IsSum(h, f, S), NEW s, s \subseteq S
  PROVE  /\ s = {} => h[s] = 0
         /\ s # {} => h[s] = f[Some(s)] + h[Without(s)]
BY DEF IsSum

(* Solutions agree where they are both defined.                            *)
LEMMA SumUnique ==
  ASSUME NEW f, NEW S, NEW T, IsFiniteSet(T), T \subseteq S,
         NEW h, IsSum(h, f, S), NEW k, IsSum(k, f, T)
  PROVE  \A s \in SUBSET T : h[s] = k[s]
<1> DEFINE P == {s \in SUBSET T : h[s] = k[s]}
<1>1. ASSUME NEW s \in SUBSET T, \A x \in s : s \ {x} \in P
      PROVE  s \in P
  <2>1. /\ s = {} => h[s] = 0 /\ k[s] = 0
        /\ s # {} => /\ h[s] = f[Some(s)] + h[Without(s)]
                     /\ k[s] = f[Some(s)] + k[Without(s)]
    <3>1. s \subseteq S /\ s \subseteq T
      OBVIOUS
    <3> HIDE DEF P
    <3> QED BY <3>1, SumAt
  <2>2. s # {} => Without(s) \in P
    BY <1>1, SomeIn DEF Without
  <2> QED BY <2>1, <2>2
<1>2. \A s \in SUBSET T : s \in P
  <2> HIDE DEF P
  <2> QED BY <1>1, SetInduction
<1> QED BY <1>2

(* A solution for a set is one for its subsets.                            *)
LEMMA SumRestrict ==
  ASSUME NEW f, NEW S, NEW T, T \subseteq S, NEW h, IsSum(h, f, S)
  PROVE  IsSum([s \in SUBSET T |-> h[s]], f, T)
<1> DEFINE k == [s \in SUBSET T |-> h[s]]
<1>1. ASSUME NEW s \in SUBSET T
      PROVE  k[s] = IF s = {} THEN 0 ELSE f[Some(s)] + k[Without(s)]
  <2>1. /\ s = {} => h[s] = 0
        /\ s # {} => h[s] = f[Some(s)] + h[Without(s)]
    BY SumAt
  <2>2. s # {} => Without(s) \in SUBSET T
    BY SomeIn
  <2> QED BY <2>1, <2>2
<1>2. k = [s \in SUBSET T |-> k[s]]
  OBVIOUS
<1> HIDE DEF k
<1>3. k = [s \in SUBSET T |-> IF s = {} THEN 0 ELSE f[Some(s)] + k[Without(s)]]
  BY <1>1, <1>2
<1> USE DEF k
<1> QED BY <1>3 DEF IsSum

(* A finite set has a solution.                                            *)
LEMMA SumExists ==
  ASSUME NEW f, NEW S, IsFiniteSet(S)
  PROVE  \E h : IsSum(h, f, S)
<1> DEFINE P == {T \in SUBSET S : \E h : IsSum(h, f, T)}
<1>1. ASSUME NEW T \in SUBSET S, \A x \in T : T \ {x} \in P
      PROVE  T \in P
  <2> DEFINE Of(s) == CHOOSE k : IsSum(k, f, s)
             h == [s \in SUBSET T |-> IF s = {} THEN 0
                                      ELSE f[Some(s)] + Of(Without(s))[Without(s)]]
  <2>1. ASSUME NEW s \in SUBSET T, s # T
        PROVE  IsSum(Of(s), f, s) /\ IsFiniteSet(s)
    <3>1. PICK x \in T : x \notin s
      BY <2>1
    <3>2. PICK j : IsSum(j, f, T \ {x})
      BY <1>1
    <3>3. \E k : IsSum(k, f, s)
      BY <3>1, <3>2, SumRestrict
    <3> QED BY <3>3, FS_Subset
  <2> HIDE DEF Of
  <2>2. \A s \in SUBSET T : s # {} => Without(s) \in SUBSET T /\ Without(s) # T
    BY SomeIn DEF Without
  <2>3. ASSUME NEW s \in SUBSET T, s # T
        PROVE  h[s] = Of(s)[s]
    <3>1. CASE s = {}
      BY <2>1, <2>3, <3>1, SumAt
    <3>2. CASE s # {}
      <4>1. /\ IsSum(Of(s), f, s)
            /\ IsSum(Of(Without(s)), f, Without(s)) /\ IsFiniteSet(Without(s))
            /\ Without(s) \subseteq s
        BY <2>1, <2>2, <2>3, <3>2, SomeIn
      <4>2. Of(s)[s] = f[Some(s)] + Of(s)[Without(s)]
        BY <3>2, <4>1, SumAt
      <4>3. Of(s)[Without(s)] = Of(Without(s))[Without(s)]
        BY <4>1, SumUnique
      <4> QED BY <3>2, <4>2, <4>3
    <3> QED BY <3>1, <3>2
  <2>4. ASSUME NEW s \in SUBSET T
        PROVE  h[s] = IF s = {} THEN 0 ELSE f[Some(s)] + h[Without(s)]
    <3>1. h[s] = IF s = {} THEN 0 ELSE f[Some(s)] + Of(Without(s))[Without(s)]
      OBVIOUS
    <3> HIDE DEF h
    <3> QED BY <2>2, <2>3, <3>1
  <2>5. h = [s \in SUBSET T |-> h[s]]
    OBVIOUS
  <2> HIDE DEF h
  <2>6. h = [s \in SUBSET T |-> IF s = {} THEN 0 ELSE f[Some(s)] + h[Without(s)]]
    BY <2>4, <2>5
  <2>7. IsSum(h, f, T)
    BY <2>6 DEF IsSum
  <2> QED BY <2>7
<1>2. \A T \in SUBSET S : T \in P
  <2> HIDE DEF P
  <2> QED BY <1>1, SetInduction
<1> QED BY <1>2

(* The equation of a sum: nothing, or one element and the rest.            *)
LEMMA SumEquation ==
  ASSUME NEW f, NEW S, IsFiniteSet(S)
  PROVE  /\ S = {} => SumFunctionOnSet(f, S) = 0
         /\ S # {} => SumFunctionOnSet(f, S)
                        = f[Some(S)] + SumFunctionOnSet(f, Without(S))
<1> DEFINE h == CHOOSE h : IsSum(h, f, S)
           k == CHOOSE k : IsSum(k, f, Without(S))
<1>1. IsFiniteSet(Without(S)) /\ Without(S) \subseteq S
  BY FS_RemoveElement DEF Without
<1>2. IsSum(h, f, S)
  BY SumExists
<1>3. IsSum(k, f, Without(S))
  BY <1>1, SumExists
<1>4. SumFunctionOnSet(f, S) = h[S] /\ SumFunctionOnSet(f, Without(S)) = k[Without(S)]
  BY SumIs
<1> HIDE DEF h, k
<1>5. h[Without(S)] = k[Without(S)]
  BY <1>1, <1>2, <1>3, SumUnique
<1>6. /\ S = {} => h[S] = 0
      /\ S # {} => h[S] = f[Some(S)] + h[Without(S)]
  BY <1>2, SumAt
<1> QED BY <1>4, <1>5, <1>6

(* The sum of nothing.                                                     *)
LEMMA SumEmpty ==
  ASSUME NEW f
  PROVE  SumFunctionOnSet(f, {}) = 0
BY SumEquation, FS_EmptySet

(* A sum of naturals is a natural.                                         *)
LEMMA SumType ==
  ASSUME NEW S, IsFiniteSet(S), NEW f, \A x \in S : f[x] \in Nat
  PROVE  SumFunctionOnSet(f, S) \in Nat
<1> DEFINE P == {T \in SUBSET S : SumFunctionOnSet(f, T) \in Nat}
<1>1. ASSUME NEW T \in SUBSET S, \A x \in T : T \ {x} \in P
      PROVE  T \in P
  <2>1. IsFiniteSet(T)
    BY FS_Subset
  <2>2. T # {} => Some(T) \in T /\ Without(T) \in P
    BY <1>1, SomeIn DEF Without
  <2>3. CASE T = {}
    BY <2>3, SumEmpty
  <2>4. CASE T # {}
    <3>1. SumFunctionOnSet(f, T) = f[Some(T)] + SumFunctionOnSet(f, Without(T))
      BY <2>1, <2>4, SumEquation
    <3>2. SumFunctionOnSet(f, Without(T)) \in Nat /\ f[Some(T)] \in Nat
      BY <2>2, <2>4
    <3>3. SumFunctionOnSet(f, T) \in Nat
      BY <3>1, <3>2
    <3> QED BY <3>3
  <2> QED BY <2>3, <2>4
<1>2. \A T \in SUBSET S : T \in P
  <2> HIDE DEF P
  <2> QED BY <1>1, SetInduction
<1> QED BY <1>2

(* Any element may be summed first.                                        *)
LEMMA SumSplit ==
  ASSUME NEW S, IsFiniteSet(S), NEW f, \A x \in S : f[x] \in Nat, NEW a \in S
  PROVE  SumFunctionOnSet(f, S) = f[a] + SumFunctionOnSet(f, S \ {a})
<1> DEFINE P == {T \in SUBSET S : \A x \in T :
                   SumFunctionOnSet(f, T) = f[x] + SumFunctionOnSet(f, T \ {x})}
<1>1. ASSUME NEW T \in SUBSET S, \A x \in T : T \ {x} \in P
      PROVE  T \in P
  <2> SUFFICES ASSUME NEW x \in T
               PROVE  SumFunctionOnSet(f, T) = f[x] + SumFunctionOnSet(f, T \ {x})
    OBVIOUS
  <2> DEFINE y == Some(T)
             U == T \ {x, y}
  <2>1. y \in T /\ Without(T) = T \ {y}
    BY SomeIn DEF Without
  <2>2. /\ IsFiniteSet(T) /\ IsFiniteSet(U) /\ U \subseteq S
        /\ SumFunctionOnSet(f, U) \in Nat /\ f[x] \in Nat /\ f[y] \in Nat
    <3>1. IsFiniteSet(T) /\ IsFiniteSet(U) /\ U \subseteq S
      BY FS_Subset
    <3>2. SumFunctionOnSet(f, U) \in Nat
      BY <3>1, SumType
    <3> QED BY <2>1, <3>1, <3>2
  <2>3. SumFunctionOnSet(f, T) = f[y] + SumFunctionOnSet(f, T \ {y})
    BY <2>1, <2>2, SumEquation
  <2>4. CASE x = y
    BY <2>3, <2>4
  <2>5. CASE x # y
    <3>1. /\ T \ {y} \in P /\ x \in T \ {y} /\ (T \ {y}) \ {x} = U
          /\ T \ {x} \in P /\ y \in T \ {x} /\ (T \ {x}) \ {y} = U
      BY <1>1, <2>1, <2>5
    <3>2. SumFunctionOnSet(f, T \ {y}) = f[x] + SumFunctionOnSet(f, U)
      BY <3>1
    <3>3. SumFunctionOnSet(f, T \ {x}) = f[y] + SumFunctionOnSet(f, U)
      BY <3>1
    <3> HIDE DEF y, U, P
    <3> QED BY <2>2, <2>3, <3>2, <3>3
  <2> QED BY <2>4, <2>5
<1>2. \A T \in SUBSET S : T \in P
  <2> HIDE DEF P
  <2> QED BY <1>1, SetInduction
<1> QED BY <1>2

(* The sum of a set and one element more.                                  *)
LEMMA SumAdd ==
  ASSUME NEW S, IsFiniteSet(S), NEW f, NEW a, a \notin S,
         \A x \in S \cup {a} : f[x] \in Nat
  PROVE  SumFunctionOnSet(f, S \cup {a}) = f[a] + SumFunctionOnSet(f, S)
<1>1. IsFiniteSet(S \cup {a}) /\ (S \cup {a}) \ {a} = S
  BY FS_AddElement
<1>2. SumFunctionOnSet(f, S \cup {a}) = f[a] + SumFunctionOnSet(f, (S \cup {a}) \ {a})
  BY <1>1, SumSplit
<1> QED BY <1>1, <1>2

(* A sum depends only on the values on its set, and grows with them.       *)
LEMMA SumMonotonic ==
  ASSUME NEW S, IsFiniteSet(S), NEW f, NEW g,
         \A x \in S : f[x] \in Nat /\ g[x] \in Nat /\ f[x] <= g[x]
  PROVE  SumFunctionOnSet(f, S) <= SumFunctionOnSet(g, S)
<1> DEFINE P == {T \in SUBSET S : SumFunctionOnSet(f, T) <= SumFunctionOnSet(g, T)}
<1>1. ASSUME NEW T \in SUBSET S, \A x \in T : T \ {x} \in P
      PROVE  T \in P
  <2>1. IsFiniteSet(T) /\ IsFiniteSet(Without(T)) /\ Without(T) \subseteq T
    BY FS_Subset DEF Without
  <2>2. /\ SumFunctionOnSet(f, Without(T)) \in Nat
        /\ SumFunctionOnSet(g, Without(T)) \in Nat
    BY <2>1, SumType
  <2>3. T # {} => Some(T) \in T /\ Without(T) \in P
    BY <1>1, SomeIn DEF Without
  <2>4. SumFunctionOnSet(f, T) <= SumFunctionOnSet(g, T)
    BY <2>1, <2>2, <2>3, SumEquation
  <2> QED BY <2>4
<1>2. \A T \in SUBSET S : T \in P
  <2> HIDE DEF P
  <2> QED BY <1>1, SetInduction
<1> QED BY <1>2

LEMMA SumSame ==
  ASSUME NEW S, IsFiniteSet(S), NEW f, NEW g, \A x \in S : f[x] \in Nat /\ f[x] = g[x]
  PROVE  SumFunctionOnSet(f, S) = SumFunctionOnSet(g, S)
<1>1. SumFunctionOnSet(f, S) \in Nat /\ SumFunctionOnSet(g, S) \in Nat
  BY SumType
<1>2. /\ SumFunctionOnSet(f, S) <= SumFunctionOnSet(g, S)
      /\ SumFunctionOnSet(g, S) <= SumFunctionOnSet(f, S)
  BY SumMonotonic
<1> QED BY <1>1, <1>2

(* One summand changes.                                                    *)
LEMMA SumChange ==
  ASSUME NEW S, IsFiniteSet(S), NEW f, NEW g, NEW a \in S,
         \A x \in S : f[x] \in Nat /\ g[x] \in Nat,
         \A x \in S \ {a} : f[x] = g[x]
  PROVE  SumFunctionOnSet(f, S) + g[a] = SumFunctionOnSet(g, S) + f[a]
<1>1. IsFiniteSet(S \ {a})
  BY FS_Subset
<1>2. SumFunctionOnSet(f, S \ {a}) = SumFunctionOnSet(g, S \ {a})
  BY <1>1, SumSame
<1>3. SumFunctionOnSet(f, S \ {a}) \in Nat
  BY <1>1, SumType
<1>4. /\ SumFunctionOnSet(f, S) = f[a] + SumFunctionOnSet(f, S \ {a})
      /\ SumFunctionOnSet(g, S) = g[a] + SumFunctionOnSet(g, S \ {a})
  BY SumSplit
<1> QED BY <1>2, <1>3, <1>4

(* Nothing sums up to nothing.                                             *)
LEMMA SumZero ==
  ASSUME NEW S, IsFiniteSet(S), NEW f, \A x \in S : f[x] = 0
  PROVE  SumFunctionOnSet(f, S) = 0
<1> DEFINE P == {T \in SUBSET S : SumFunctionOnSet(f, T) = 0}
<1>1. ASSUME NEW T \in SUBSET S, \A x \in T : T \ {x} \in P
      PROVE  T \in P
  <2>1. IsFiniteSet(T)
    BY FS_Subset
  <2>2. T # {} => Some(T) \in T /\ Without(T) \in P
    BY <1>1, SomeIn DEF Without
  <2>3. SumFunctionOnSet(f, T) = 0
    BY <2>1, <2>2, SumEquation
  <2> QED BY <2>3
<1>2. \A T \in SUBSET S : T \in P
  <2> HIDE DEF P
  <2> QED BY <1>1, SetInduction
<1> QED BY <1>2

(* The sum of a union of two sets that share nothing.                      *)
LEMMA SumUnion ==
  ASSUME NEW S, IsFiniteSet(S), NEW T, IsFiniteSet(T), S \cap T = {},
         NEW f, \A x \in S \cup T : f[x] \in Nat
  PROVE  SumFunctionOnSet(f, S \cup T) = SumFunctionOnSet(f, S) + SumFunctionOnSet(f, T)
<1> DEFINE P == {U \in SUBSET T :
                   SumFunctionOnSet(f, S \cup U) = SumFunctionOnSet(f, S) + SumFunctionOnSet(f, U)}
<1>1. SumFunctionOnSet(f, S) \in Nat
  BY SumType
<1>2. ASSUME NEW U \in SUBSET T, \A x \in U : U \ {x} \in P
      PROVE  U \in P
  <2>1. CASE U = {}
    <3>1. S \cup U = S
      BY <2>1
    <3> QED BY <1>1, <2>1, <3>1, SumEmpty
  <2>2. CASE U # {}
    <3>1. PICK x \in U : TRUE
      BY <2>2
    <3>2. /\ IsFiniteSet(U) /\ IsFiniteSet(U \ {x}) /\ IsFiniteSet(S \cup U)
          /\ (S \cup U) \ {x} = S \cup (U \ {x})
      BY <3>1, FS_Subset, FS_Union
    <3>3. /\ SumFunctionOnSet(f, U) = f[x] + SumFunctionOnSet(f, U \ {x})
          /\ SumFunctionOnSet(f, S \cup U) = f[x] + SumFunctionOnSet(f, (S \cup U) \ {x})
      BY <3>1, <3>2, SumSplit
    <3>4. SumFunctionOnSet(f, S \cup (U \ {x}))
            = SumFunctionOnSet(f, S) + SumFunctionOnSet(f, U \ {x})
      BY <1>2, <3>1
    <3>5. SumFunctionOnSet(f, U \ {x}) \in Nat /\ f[x] \in Nat
      BY <3>1, <3>2, SumType
    <3>6. SumFunctionOnSet(f, S \cup U) = f[x] + SumFunctionOnSet(f, S \cup (U \ {x}))
      BY <3>2, <3>3
    <3>7. SumFunctionOnSet(f, S \cup U) = SumFunctionOnSet(f, S) + SumFunctionOnSet(f, U)
      BY ONLY <1>1, <3>3, <3>4, <3>5, <3>6
    <3> QED BY <3>7
  <2> QED BY <2>1, <2>2
<1>3. \A U \in SUBSET T : U \in P
  <2> HIDE DEF P
  <2> QED BY <1>2, SetInduction
<1> QED BY <1>3

(* A sum of sums is the sum over the union of the sets.                    *)
LEMMA SumOfSums ==
  ASSUME NEW I, IsFiniteSet(I), NEW A,
         \A i \in I : IsFiniteSet(A[i]),
         \A i, j \in I : i # j => A[i] \cap A[j] = {},
         NEW f, \A i \in I : \A x \in A[i] : f[x] \in Nat,
         NEW g, \A i \in I : g[i] = SumFunctionOnSet(f, A[i]),
         NEW all, \A x : x \in all <=> \E i \in I : x \in A[i]
  PROVE  IsFiniteSet(all) /\ SumFunctionOnSet(g, I) = SumFunctionOnSet(f, all)
<1> DEFINE All(J) == UNION {A[i] : i \in J}
           P == {J \in SUBSET I :
                   IsFiniteSet(All(J)) /\ SumFunctionOnSet(g, J) = SumFunctionOnSet(f, All(J))}
<1>1. ASSUME NEW J \in SUBSET I, \A i \in J : J \ {i} \in P
      PROVE  J \in P
  <2>1. CASE J = {}
    <3>1. All(J) = {}
      BY <2>1
    <3> QED BY <2>1, <3>1, SumEmpty, FS_EmptySet
  <2>2. CASE J # {}
    <3>1. PICK i \in J : TRUE
      BY <2>2
    <3>2. /\ All(J) = All(J \ {i}) \cup A[i]
          /\ All(J \ {i}) \cap A[i] = {}
          /\ \A x \in All(J \ {i}) \cup A[i] : f[x] \in Nat
      BY <3>1
    <3>3. /\ IsFiniteSet(J)
          /\ IsFiniteSet(A[i])
          /\ IsFiniteSet(All(J \ {i}))
          /\ SumFunctionOnSet(g, J \ {i}) = SumFunctionOnSet(f, All(J \ {i}))
      BY <1>1, <3>1, FS_Subset
    <3>4. \A j \in J : g[j] \in Nat
      BY SumType
    <3> HIDE DEF All, P
    <3>5. SumFunctionOnSet(g, J) = g[i] + SumFunctionOnSet(g, J \ {i})
      BY <3>1, <3>3, <3>4, SumSplit
    <3>6. SumFunctionOnSet(f, All(J)) = SumFunctionOnSet(f, All(J \ {i})) + SumFunctionOnSet(f, A[i])
      <4> DEFINE U == All(J \ {i})
                 V == A[i]
      <4>1. IsFiniteSet(U) /\ IsFiniteSet(V) /\ U \cap V = {} /\ \A x \in U \cup V : f[x] \in Nat
        BY <3>2, <3>3
      <4> HIDE DEF U, V
      <4>2. SumFunctionOnSet(f, U \cup V) = SumFunctionOnSet(f, U) + SumFunctionOnSet(f, V)
        BY ONLY <4>1, SumUnion
      <4> QED BY <3>2, <4>2 DEF U, V
    <3>7. SumFunctionOnSet(f, All(J \ {i})) \in Nat /\ g[i] \in Nat /\ g[i] = SumFunctionOnSet(f, A[i])
      BY <3>1, <3>2, <3>3, <3>4, SumType
    <3>8. IsFiniteSet(All(J \ {i}) \cup A[i])
      BY <3>3, FS_Union
    <3>9. SumFunctionOnSet(g, J \ {i}) = SumFunctionOnSet(f, All(J \ {i}))
      BY <3>3
    <3>10. SumFunctionOnSet(g, J) = SumFunctionOnSet(f, All(J))
      BY ONLY <3>5, <3>6, <3>7, <3>9
    <3> USE DEF P
    <3> QED BY <3>2, <3>8, <3>10
  <2> QED BY <2>1, <2>2
<1>2. \A J \in SUBSET I : J \in P
  <2> HIDE DEF P
  <2> QED BY <1>1, SetInduction
<1>3. all = All(I)
  OBVIOUS
<1> QED BY <1>2, <1>3

(* The sum of one.                                                         *)
LEMMA SumSingle ==
  ASSUME NEW f, NEW a, f[a] \in Nat
  PROVE  SumFunctionOnSet(f, {a}) = f[a]
<1>1. IsFiniteSet({}) /\ a \notin {} /\ {} \cup {a} = {a}
  BY FS_EmptySet
<1>2. \A x \in {} \cup {a} : f[x] \in Nat
  OBVIOUS
<1>3. SumFunctionOnSet(f, {} \cup {a}) = f[a] + SumFunctionOnSet(f, {})
  BY <1>1, <1>2, SumAdd
<1> QED BY <1>1, <1>3, SumEmpty

(* A sum under other names: h renames the elements of S.                   *)
LEMMA SumImage ==
  ASSUME NEW S, IsFiniteSet(S), NEW h, \A i, j \in S : i # j => h[i] # h[j],
         NEW f, \A i \in S : f[i] \in Nat,
         NEW g, \A i \in S : g[h[i]] = f[i],
         NEW T, \A x : x \in T <=> \E i \in S : x = h[i]
  PROVE  IsFiniteSet(T) /\ SumFunctionOnSet(g, T) = SumFunctionOnSet(f, S)
<1> DEFINE A == [i \in S |-> {h[i]}]
<1>1. \A i \in S : IsFiniteSet(A[i])
  BY FS_Singleton
<1>2. \A i, j \in S : i # j => A[i] \cap A[j] = {}
  OBVIOUS
<1>3. \A i \in S : \A x \in A[i] : g[x] \in Nat
  OBVIOUS
<1>4. \A i \in S : f[i] = SumFunctionOnSet(g, A[i])
  <2> SUFFICES ASSUME NEW i \in S  PROVE f[i] = SumFunctionOnSet(g, {h[i]})
    OBVIOUS
  <2>1. g[h[i]] \in Nat
    OBVIOUS
  <2> QED BY <2>1, SumSingle
<1>5. \A x : x \in T <=> \E i \in S : x \in A[i]
  OBVIOUS
<1> HIDE DEF A
<1> QED BY <1>1, <1>2, <1>3, <1>4, <1>5, SumOfSums

(* A fold that takes the elements in an order of its own (c chooses the    *)
(* next one) is a sum as well.                                             *)
LEMMA SumAnyOrder ==
  ASSUME NEW S, IsFiniteSet(S), NEW f, \A x \in S : f[x] \in Nat,
         NEW c, \A s \in SUBSET S : s # {} => c[s] \in s,
         NEW h, \A s \in SUBSET S : h[s] = IF s = {} THEN 0 ELSE h[s \ {c[s]}] + f[c[s]]
  PROVE  h[S] = SumFunctionOnSet(f, S)
<1> DEFINE P == {T \in SUBSET S : h[T] = SumFunctionOnSet(f, T)}
<1>1. ASSUME NEW T \in SUBSET S, \A x \in T : T \ {x} \in P
      PROVE  T \in P
  <2>1. CASE T = {}
    BY <2>1, SumEmpty
  <2>2. CASE T # {}
    <3>1. /\ c[T] \in T /\ T \ {c[T]} \in P /\ IsFiniteSet(T) /\ IsFiniteSet(T \ {c[T]})
          /\ \A x \in T : f[x] \in Nat
          /\ \A x \in T \ {c[T]} : f[x] \in Nat
      BY <1>1, <2>2, FS_Subset
    <3>2. SumFunctionOnSet(f, T) = f[c[T]] + SumFunctionOnSet(f, T \ {c[T]})
      BY <3>1, SumSplit
    <3>3. SumFunctionOnSet(f, T \ {c[T]}) \in Nat /\ f[c[T]] \in Nat
      BY <3>1, SumType
    <3>4. h[T] = h[T \ {c[T]}] + f[c[T]]
      BY <2>2
    <3>5. h[T \ {c[T]}] = SumFunctionOnSet(f, T \ {c[T]})
      BY <3>1
    <3>6. h[T] = SumFunctionOnSet(f, T)
      BY ONLY <3>2, <3>3, <3>4, <3>5
    <3> QED BY <3>6
  <2> QED BY <2>1, <2>2
<1>2. \A T \in SUBSET S : T \in P
  <2> HIDE DEF P
  <2> QED BY <1>1, SetInduction
<1> QED BY <1>2

(* A set has as many elements as ones are summed over it.                  *)
LEMMA SumOfOnes ==
  ASSUME NEW S, IsFiniteSet(S), NEW f, \A x \in S : f[x] = 1
  PROVE  SumFunctionOnSet(f, S) = Cardinality(S)
<1> DEFINE P == {T \in SUBSET S : SumFunctionOnSet(f, T) = Cardinality(T)}
<1>1. ASSUME NEW T \in SUBSET S, \A x \in T : T \ {x} \in P
      PROVE  T \in P
  <2>1. IsFiniteSet(T) /\ Cardinality(T) \in Nat
    BY FS_Subset, FS_CardinalityType
  <2>2. T # {} => Some(T) \in T /\ Without(T) \in P
    BY <1>1, SomeIn DEF Without
  <2>3. T # {} => Cardinality(Without(T)) = Cardinality(T) - 1
    BY <2>1, <2>2, FS_RemoveElement DEF Without
  <2>4. CASE T = {}
    BY <2>4, SumEmpty, FS_EmptySet
  <2>5. CASE T # {}
    <3>1. SumFunctionOnSet(f, T) = f[Some(T)] + SumFunctionOnSet(f, Without(T))
      BY <2>1, <2>5, SumEquation
    <3>2. SumFunctionOnSet(f, Without(T)) = Cardinality(T) - 1 /\ f[Some(T)] = 1
      BY <2>2, <2>3, <2>5
    <3>3. SumFunctionOnSet(f, T) = Cardinality(T)
      BY <2>1, <3>1, <3>2
    <3> QED BY <3>3
  <2> QED BY <2>4, <2>5
<1>2. \A T \in SUBSET S : T \in P
  <2> HIDE DEF P
  <2> QED BY <1>1, SetInduction
<1> QED BY <1>2

(* A sum of values up to b is at most b for each of them.                  *)
LEMMA SumBounded ==
  ASSUME NEW S, IsFiniteSet(S), NEW b \in Nat, NEW f, \A x \in S : f[x] \in Nat /\ f[x] <= b
  PROVE  SumFunctionOnSet(f, S) <= Cardinality(S) * b
<1> DEFINE P == {T \in SUBSET S : SumFunctionOnSet(f, T) <= Cardinality(T) * b}
<1>1. ASSUME NEW T \in SUBSET S, \A x \in T : T \ {x} \in P
      PROVE  T \in P
  <2>1. IsFiniteSet(T) /\ Cardinality(T) \in Nat
    BY FS_Subset, FS_CardinalityType
  <2>2. T # {} => Some(T) \in T /\ Without(T) \in P
    BY <1>1, SomeIn DEF Without
  <2>3. T # {} => Cardinality(Without(T)) = Cardinality(T) - 1
    BY <2>1, <2>2, FS_RemoveElement DEF Without
  <2>4. CASE T = {}
    BY <2>4, SumEmpty, FS_EmptySet
  <2>5. CASE T # {}
    <3>1. SumFunctionOnSet(f, T) = f[Some(T)] + SumFunctionOnSet(f, Without(T))
      BY <2>1, <2>5, SumEquation
    <3>2. SumFunctionOnSet(f, Without(T)) \in Nat
      <4>1. Without(T) \subseteq S /\ IsFiniteSet(Without(T))
        BY <2>1, FS_Subset DEF Without
      <4> QED BY <4>1, SumType
    <3>3. /\ SumFunctionOnSet(f, Without(T)) <= (Cardinality(T) - 1) * b
          /\ f[Some(T)] \in Nat /\ f[Some(T)] <= b
      BY <2>2, <2>3, <2>5
    <3>4. (Cardinality(T) - 1) * b + b = Cardinality(T) * b
      BY <2>1
    <3>5. (Cardinality(T) - 1) * b \in Int /\ Cardinality(T) * b \in Int
      BY <2>1
    <3>6. SumFunctionOnSet(f, T) <= Cardinality(T) * b
      BY <3>1, <3>2, <3>3, <3>4, <3>5
    <3> QED BY <3>6
  <2> QED BY <2>4, <2>5
<1>2. \A T \in SUBSET S : T \in P
  <2> HIDE DEF P
  <2> QED BY <1>1, SetInduction
<1> QED BY <1>2
=============================================================================
