-------------------------------- MODULE Induction --------------------------------
(***************************************************************************)
(* Facts about data of any size, for the proofs of the components: sums    *)
(* over finite sets and functions defined by recursion.  Each is shown by  *)
(* its least counterexample, which the library's theorems on well-founded  *)
(* relations give as a set.                                                *)
(***************************************************************************)
EXTENDS Functions, FiniteSetTheorems, TLAPS

\* A set of subsets of a finite set has one with no smaller one in it.  What is shown of
\* every finite set by adding elements is shown here by contradiction, on such a one.
LEMMA LeastSet ==
  ASSUME NEW S, IsFiniteSet(S), NEW C \in SUBSET (SUBSET S), C # {}
  PROVE  \E T \in C : \A U \in SUBSET T : U # T => U \notin C
<1>1. IsWellFoundedOn(StrictSubsetOrdering(S), FiniteSubsetsOf(S))
  BY FS_StrictSubsetOrderingWellFounded
<1>2. FiniteSubsetsOf(S) = SUBSET S
  BY FS_FiniteSubsetsOfFinite
<1>3. PICK T \in C : \A U \in C : ~(<<U, T>> \in StrictSubsetOrdering(S))
  BY <1>1, <1>2, WFMin
<1> QED
  BY <1>3 DEF StrictSubsetOrdering

\* A set of numbers has a least one.
LEMMA LeastNumber ==
  ASSUME NEW S \in SUBSET Nat, S # {}
  PROVE  \E m \in S : \A k \in S : m <= k
<1>1. PICK n \in S : TRUE
  OBVIOUS
<1> DEFINE C == {0 .. k : k \in {j \in S : j <= n}}
<1>2. PICK T \in C : \A U \in SUBSET T : U # T => U \notin C
  <2>1. IsFiniteSet(0 .. n)
    BY FS_Interval
  <2>2. C \in SUBSET (SUBSET (0 .. n)) /\ C # {}
    BY <1>1
  <2> HIDE DEF C
  <2>3. QED
    BY <2>1, <2>2, LeastSet
<1>3. PICK m \in S : m <= n /\ T = 0 .. m
  BY <1>2
<1>4. ASSUME NEW k \in S, k < m
      PROVE  FALSE
  <2>1. 0 .. k \in C /\ 0 .. k \in SUBSET T /\ 0 .. k # T
    BY <1>3, <1>4
  <2>2. QED
    BY <1>2, <2>1
<1>5. QED
  BY <1>3, <1>4

-----------------------------------------------------------------------------
(* What the library's sum computes: the equation it is defined by has one  *)
(* solution on the subsets of a finite set.                                *)

IsSumOf(g, f, S) ==
  g = [T \in SUBSET S |-> IF T = {} THEN 0
                          ELSE f[CHOOSE x \in T : TRUE] + g[T \ {CHOOSE x \in T : TRUE}]]

\* The definition itself.
LEMMA SumUnfolds == \A f, S : SumFunctionOnSet(f, S) = (CHOOSE g : IsSumOf(g, f, S))[S]
  BY DEF SumFunctionOnSet, FoldFunctionOnSet, MapThenFoldSet, IsSumOf

\* Two solutions agree where both are defined.
LEMMA SumUnique ==
  ASSUME NEW f, NEW S, IsFiniteSet(S), NEW T \in SUBSET S, NEW g, NEW h, IsSumOf(g, f, S), IsSumOf(h, f, T)
  PROVE  \A U \in SUBSET T : g[U] = h[U]
<1> DEFINE C == {U \in SUBSET T : g[U] # h[U]}
<1>1. SUFFICES ASSUME C # {} PROVE FALSE
  OBVIOUS
<1>2. IsFiniteSet(T)
  BY FS_Subset
<1>3. PICK U \in C : \A V \in SUBSET U : V # U => V \notin C
  <2>1. C \in SUBSET (SUBSET T)
    OBVIOUS
  <2> HIDE DEF C
  <2>2. QED
    BY <1>1, <1>2, <2>1, LeastSet
<1>4. CASE U = {}
  BY <1>3, <1>4 DEF IsSumOf
<1>5. CASE U # {}
  <2> DEFINE c == CHOOSE x \in U : TRUE
  <2>1. c \in U
    BY <1>5
  <2>2. U \ {c} \in SUBSET U /\ U \ {c} # U /\ U \ {c} \in SUBSET T
    BY <1>3, <2>1
  <2>3. g[U \ {c}] = h[U \ {c}]
    BY <1>3, <2>2
  <2>4. g[U] = f[c] + g[U \ {c}] /\ h[U] = f[c] + h[U \ {c}]
    BY <1>3, <1>5, <2>2 DEF IsSumOf
  <2>5. QED
    BY <1>3, <2>3, <2>4
<1>6. QED
  BY <1>4, <1>5

\* There is a solution.
LEMMA SumExists ==
  ASSUME NEW f, NEW S, IsFiniteSet(S)
  PROVE  \E g : IsSumOf(g, f, S)
<1> DEFINE C == {U \in SUBSET S : ~ \E g : IsSumOf(g, f, U)}
<1>1. SUFFICES ASSUME C # {} PROVE FALSE
  OBVIOUS
<1>2. PICK T \in C : \A V \in SUBSET T : V # T => V \notin C
  <2>1. C \in SUBSET (SUBSET S)
    OBVIOUS
  <2> HIDE DEF C
  <2>2. QED
    BY <1>1, <2>1, LeastSet
<1>3. IsFiniteSet(T)
  BY <1>2, FS_Subset
<1> DEFINE G(U) == CHOOSE g : IsSumOf(g, f, U)
           c(U) == CHOOSE x \in U : TRUE
           rest(U) == U \ {c(U)}
           g == [U \in SUBSET T |-> IF U = {} THEN 0 ELSE f[c(U)] + G(rest(U))[rest(U)]]
<1>4. \A U \in SUBSET T : U # T => IsSumOf(G(U), f, U)
  BY <1>2
<1>5. \A U \in SUBSET T : U # {} => rest(U) # U /\ rest(U) \in SUBSET U
  OBVIOUS
<1>6. ASSUME NEW U \in SUBSET T, U # T
      PROVE  G(U)[U] = g[U]
  <2>1. CASE U = {}
    <3>1. IsSumOf(G(U), f, U)
      BY <1>4, <1>6
    <3>2. g[U] = 0
      <4> HIDE DEF G
      <4>1. QED
        BY <2>1
    <3>3. QED
      <4> HIDE DEF G, g
      <4>1. QED
        BY <2>1, <3>1, <3>2 DEF IsSumOf
  <2>2. CASE U # {}
    <3>1. IsSumOf(G(U), f, U) /\ IsSumOf(G(rest(U)), f, rest(U))
      BY <1>4, <1>5, <1>6, <2>2
    <3>2. IsFiniteSet(U)
      BY <1>3, FS_Subset
    <3>3. G(U)[rest(U)] = G(rest(U))[rest(U)]
      <4>1. rest(U) \in SUBSET U
        OBVIOUS
      <4> HIDE DEF G, rest
      <4>2. QED
        BY <3>1, <3>2, <4>1, SumUnique
    <3>4. G(U)[U] = f[c(U)] + G(U)[rest(U)]
      <4> HIDE DEF G
      <4>1. QED
        BY <3>1, <2>2 DEF IsSumOf
    <3>5. g[U] = f[c(U)] + G(rest(U))[rest(U)]
      <4> HIDE DEF G, c, rest
      <4>1. QED
        BY <2>2
    <3>6. QED
      <4> HIDE DEF G, c, rest, g
      <4>1. QED
        BY <3>3, <3>4, <3>5
  <2>3. QED
    BY <2>1, <2>2
<1>7. IsSumOf(g, f, T)
  <2>1. \A U \in SUBSET T : U # {} => G(rest(U))[rest(U)] = g[rest(U)]
    <3> HIDE DEF G, g
    <3>1. QED
      BY <1>5, <1>6
  <2>2. g = [U \in SUBSET T |-> IF U = {} THEN 0 ELSE f[c(U)] + g[rest(U)]]
    <3>1. \A U \in SUBSET T : g[U] = IF U = {} THEN 0 ELSE f[c(U)] + G(rest(U))[rest(U)]
      <4> HIDE DEF G, c, rest
      <4>1. QED OBVIOUS
    <3>2. \A U \in SUBSET T : g[U] = IF U = {} THEN 0 ELSE f[c(U)] + g[rest(U)]
      <4> HIDE DEF G, c, rest, g
      <4>1. QED
        BY <2>1, <3>1
    <3>3. g = [U \in SUBSET T |-> g[U]]
      <4> HIDE DEF G, c, rest
      <4>1. QED OBVIOUS
    <3>4. QED
      <4> HIDE DEF G, c, rest, g
      <4>1. QED
        BY <3>2, <3>3
  <2>3. QED
    <3> HIDE DEF g
    <3>1. QED
      BY <2>2 DEF IsSumOf
<1>8. QED
  BY <1>2, <1>7

-----------------------------------------------------------------------------
(* Sums, one element at a time *)

\* So the library's sum is one.
LEMMA SumOf ==
  ASSUME NEW f, NEW S, IsFiniteSet(S)
  PROVE  \E g : IsSumOf(g, f, S) /\ \A T \in SUBSET S : SumFunctionOnSet(f, T) = g[T]
<1>1. PICK g : IsSumOf(g, f, S)
  BY SumExists
<1>2. ASSUME NEW T \in SUBSET S
      PROVE  SumFunctionOnSet(f, T) = g[T]
  <2>1. IsFiniteSet(T)
    BY FS_Subset
  <2>2. IsSumOf(CHOOSE h : IsSumOf(h, f, T), f, T)
    BY <2>1, SumExists
  <2>3. T \in SUBSET T /\ IsSumOf(g, f, S)
    BY <1>1
  <2> DEFINE h == CHOOSE p : IsSumOf(p, f, T)
  <2>4. SumFunctionOnSet(f, T) = h[T]
    BY SumUnfolds
  <2>7. IsSumOf(h, f, T)
    BY <2>2
  <2> HIDE DEF h
  <2>5. \A U \in SUBSET T : g[U] = h[U]
    BY <2>3, <2>7, SumUnique
  <2>6. QED
    BY <2>3, <2>4, <2>5
<1>3. QED
  BY <1>1, <1>2

\* The sum over nothing.
LEMMA SumEmpty == ASSUME NEW f PROVE SumFunctionOnSet(f, {}) = 0
<1>1. PICK g : IsSumOf(g, f, {}) /\ SumFunctionOnSet(f, {}) = g[{}]
  BY SumOf, FS_EmptySet
<1>2. QED
  BY <1>1 DEF IsSumOf

\* The sum takes out the element the library chooses.
LEMMA SumChosen ==
  ASSUME NEW f, NEW S, IsFiniteSet(S), S # {}
  PROVE  \E x \in S : SumFunctionOnSet(f, S) = f[x] + SumFunctionOnSet(f, S \ {x})
<1>1. PICK g : IsSumOf(g, f, S) /\ \A T \in SUBSET S : SumFunctionOnSet(f, T) = g[T]
  BY SumOf
<1> DEFINE x == CHOOSE y \in S : TRUE
<1>2. x \in S /\ S \ {x} \in SUBSET S
  OBVIOUS
<1>3. g[S] = f[x] + g[S \ {x}]
  BY <1>1 DEF IsSumOf
<1>4. QED
  BY <1>1, <1>2, <1>3

\* A sum of integers is one.
LEMMA SumInt ==
  ASSUME NEW f, NEW S, IsFiniteSet(S), \A x \in S : f[x] \in Int
  PROVE  SumFunctionOnSet(f, S) \in Int
<1> DEFINE C == {U \in SUBSET S : SumFunctionOnSet(f, U) \notin Int}
<1>1. SUFFICES ASSUME C # {} PROVE FALSE
  OBVIOUS
<1>2. PICK T \in C : \A V \in SUBSET T : V # T => V \notin C
  <2>1. C \in SUBSET (SUBSET S)
    OBVIOUS
  <2> HIDE DEF C
  <2>2. QED
    BY <1>1, <2>1, LeastSet
<1>3. CASE T = {}
  BY <1>2, <1>3, SumEmpty
<1>4. CASE T # {}
  <2>1. PICK x \in T : SumFunctionOnSet(f, T) = f[x] + SumFunctionOnSet(f, T \ {x})
    BY <1>2, <1>4, SumChosen, FS_Subset
  <2>2. SumFunctionOnSet(f, T \ {x}) \in Int
    BY <1>2
  <2>3. QED
    BY <1>2, <2>1, <2>2
<1>5. QED
  BY <1>3, <1>4

\* The sum takes out any element.
LEMMA SumTakes ==
  ASSUME NEW f, NEW S, IsFiniteSet(S), \A x \in S : f[x] \in Int, NEW x \in S
  PROVE  SumFunctionOnSet(f, S) = f[x] + SumFunctionOnSet(f, S \ {x})
<1> DEFINE Sum(U) == SumFunctionOnSet(f, U)
           C == {U \in SUBSET S : \E y \in U : Sum(U) # f[y] + Sum(U \ {y})}
<1>1. SUFFICES ASSUME C # {} PROVE FALSE
  OBVIOUS
<1>2. PICK T \in C : \A V \in SUBSET T : V # T => V \notin C
  <2>1. C \in SUBSET (SUBSET S)
    OBVIOUS
  <2> HIDE DEF C
  <2>2. QED
    BY <1>1, <2>1, LeastSet
<1>3. PICK y \in T : Sum(T) # f[y] + Sum(T \ {y})
  BY <1>2
<1>4. PICK c \in T : Sum(T) = f[c] + Sum(T \ {c})
  BY <1>2, SumChosen, FS_Subset
<1>5. c # y
  BY <1>3, <1>4
<1>6. Sum(T \ {c}) = f[y] + Sum(T \ {c, y})
  <2>1. T \ {c} \in SUBSET T /\ T \ {c} # T /\ y \in T \ {c} /\ (T \ {c}) \ {y} = T \ {c, y}
    BY <1>5
  <2>2. QED
    BY <1>2, <2>1
<1>7. Sum(T \ {y}) = f[c] + Sum(T \ {c, y})
  <2>1. T \ {y} \in SUBSET T /\ T \ {y} # T /\ c \in T \ {y} /\ (T \ {y}) \ {c} = T \ {c, y}
    BY <1>5
  <2>2. QED
    BY <1>2, <2>1
<1>8. Sum(T \ {c, y}) \in Int
  BY <1>2, SumInt, FS_Subset
<1>9. QED
  <2> HIDE DEF Sum
  <2>1. f[c] \in Int /\ f[y] \in Int
    BY <1>2
  <2>2. QED
    BY <1>3, <1>4, <1>6, <1>7, <1>8, <2>1

\* Only the values that are summed count.
LEMMA SumSame ==
  ASSUME NEW f, NEW g, NEW S, IsFiniteSet(S), \A x \in S : f[x] = g[x] 
  PROVE  SumFunctionOnSet(f, S) = SumFunctionOnSet(g, S)
<1>1. PICK p : IsSumOf(p, f, S) /\ SumFunctionOnSet(f, S) = p[S]
  BY SumOf
<1>2. IsSumOf(p, g, S)
  BY <1>1 DEF IsSumOf
<1>3. IsSumOf(CHOOSE h : IsSumOf(h, g, S), g, S)
  BY <1>2
<1>4. QED
  BY <1>1, <1>2, <1>3, SumUnique, SumUnfolds

\* A sum over two sets that share nothing.
LEMMA SumUnion ==
  ASSUME NEW f, NEW S, IsFiniteSet(S), NEW T, IsFiniteSet(T), S \cap T = {},
         \A x \in S \cup T : f[x] \in Int
  PROVE  SumFunctionOnSet(f, S \cup T) = SumFunctionOnSet(f, S) + SumFunctionOnSet(f, T)
<1> DEFINE Sum(U) == SumFunctionOnSet(f, U)
           C == {U \in SUBSET T : Sum(S \cup U) # Sum(S) + Sum(U)}
<1>1. SUFFICES ASSUME C # {} PROVE FALSE
  OBVIOUS
<1>2. PICK U \in C : \A V \in SUBSET U : V # U => V \notin C
  <2>1. C \in SUBSET (SUBSET T)
    OBVIOUS
  <2> HIDE DEF C
  <2>2. QED
    BY <1>1, <2>1, LeastSet
<1>3. Sum(S) \in Int
  BY SumInt
<1>4. CASE U = {}
  <2>1. Sum(U) = 0
    BY <1>4, SumEmpty
  <2>2. S \cup U = S
    BY <1>4
  <2>3. Sum(S \cup U) # Sum(S) + Sum(U)
    BY <1>2
  <2>4. Sum(S) # Sum(S) + 0
    BY <2>1, <2>2, <2>3
  <2>5. QED
    BY <1>3, <2>4
<1>5. CASE U # {}
  <2>1. PICK x \in U : TRUE
    BY <1>5
  <2>2. U \in SUBSET T /\ IsFiniteSet(U) /\ U \ {x} \in SUBSET U /\ U \ {x} # U
    BY <1>2, <2>1, FS_Subset
  <2>3. Sum(S \cup (U \ {x})) = Sum(S) + Sum(U \ {x})
    BY <1>2, <2>2
  <2>4. Sum(U) = f[x] + Sum(U \ {x})
    <3>1. \A y \in U : f[y] \in Int
      BY <2>2
    <3>2. QED
      BY <2>1, <2>2, <3>1, SumTakes
  <2>5. Sum(S \cup U) = f[x] + Sum(S \cup (U \ {x}))
    <3>1. (\A y \in S \cup U : f[y] \in Int) /\ (S \cup U) \ {x} = S \cup (U \ {x}) /\ x \in S \cup U
      BY <2>1, <2>2
    <3>2. IsFiniteSet(S \cup U)
      BY <2>2, FS_Union
    <3>3. Sum(S \cup U) = f[x] + Sum((S \cup U) \ {x})
      BY <3>1, <3>2, SumTakes
    <3>4. QED
      BY <3>1, <3>3
  <2>6. Sum(U \ {x}) \in Int
    <3>1. (\A y \in U \ {x} : f[y] \in Int) /\ IsFiniteSet(U \ {x})
      BY <2>2, FS_Subset
    <3>2. QED
      BY <3>1, SumInt
  <2>7. f[x] \in Int
    BY <2>1, <2>2
  <2> HIDE DEF Sum
  <2>8. QED
    BY <1>2, <1>3, <2>3, <2>4, <2>5, <2>6, <2>7
<1>6. QED
  BY <1>4, <1>5

\* A sum over one element.
LEMMA SumSingle == ASSUME NEW f, NEW x, f[x] \in Int PROVE SumFunctionOnSet(f, {x}) = f[x]
<1>1. \A y \in {x} : f[y] \in Int
  OBVIOUS
<1>2. IsFiniteSet({x}) /\ x \in {x} /\ {x} \ {x} = {}
  BY FS_Singleton
<1>3. SumFunctionOnSet(f, {x}) = f[x] + SumFunctionOnSet(f, {x} \ {x})
  BY <1>1, <1>2, SumTakes
<1>4. QED
  BY <1>2, <1>3, SumEmpty

\* A sum of natural numbers is one.
LEMMA SumNat ==
  ASSUME NEW f, NEW S, IsFiniteSet(S), \A x \in S : f[x] \in Nat
  PROVE  SumFunctionOnSet(f, S) \in Nat
<1> DEFINE C == {U \in SUBSET S : SumFunctionOnSet(f, U) \notin Nat}
<1>1. SUFFICES ASSUME C # {} PROVE FALSE
  OBVIOUS
<1>2. PICK T \in C : \A V \in SUBSET T : V # T => V \notin C
  <2>1. C \in SUBSET (SUBSET S)
    OBVIOUS
  <2> HIDE DEF C
  <2>2. QED
    BY <1>1, <2>1, LeastSet
<1>3. CASE T = {}
  BY <1>2, <1>3, SumEmpty
<1>4. CASE T # {}
  <2>1. PICK x \in T : SumFunctionOnSet(f, T) = f[x] + SumFunctionOnSet(f, T \ {x})
    BY <1>2, <1>4, SumChosen, FS_Subset
  <2>2. SumFunctionOnSet(f, T \ {x}) \in Nat
    BY <1>2
  <2>3. QED
    BY <1>2, <2>1, <2>2
<1>5. QED
  BY <1>3, <1>4

\* A sum of zeros.
LEMMA SumZero ==
  ASSUME NEW f, NEW S, IsFiniteSet(S), \A x \in S : f[x] = 0
  PROVE  SumFunctionOnSet(f, S) = 0
<1> DEFINE C == {U \in SUBSET S : SumFunctionOnSet(f, U) # 0}
<1>1. SUFFICES ASSUME C # {} PROVE FALSE
  OBVIOUS
<1>2. PICK T \in C : \A V \in SUBSET T : V # T => V \notin C
  <2>1. C \in SUBSET (SUBSET S)
    OBVIOUS
  <2> HIDE DEF C
  <2>2. QED
    BY <1>1, <2>1, LeastSet
<1>3. CASE T = {}
  BY <1>2, <1>3, SumEmpty
<1>4. CASE T # {}
  <2>1. PICK x \in T : SumFunctionOnSet(f, T) = f[x] + SumFunctionOnSet(f, T \ {x})
    BY <1>2, <1>4, SumChosen, FS_Subset
  <2>2. SumFunctionOnSet(f, T \ {x}) = 0
    BY <1>2
  <2>3. QED
    BY <1>2, <2>1, <2>2
<1>5. QED
  BY <1>3, <1>4

-----------------------------------------------------------------------------
(* Functions defined from one number to the next *)

\* What holds at zero, and at a number if it holds at the one before, holds up to N.
LEMMA UpTo ==
  ASSUME NEW N \in Nat, NEW P \in SUBSET (0 .. N), 0 \in P, \A n \in 1 .. N : n - 1 \in P => n \in P
  PROVE  P = 0 .. N
<1> DEFINE B == (0 .. N) \ P
<1>1. SUFFICES ASSUME B # {} PROVE FALSE
  OBVIOUS
<1>2. PICK m \in B : \A k \in B : m <= k
  <2>1. B \in SUBSET Nat
    OBVIOUS
  <2> HIDE DEF B
  <2>2. QED
    BY <1>1, <2>1, LeastNumber
<1>3. m \in 1 .. N
  BY <1>2
<1>4. m - 1 \in P
  BY <1>2, <1>3
<1>5. QED
  BY <1>2, <1>3, <1>4

\* A first value and a step from each value to the next have a function that follows them.
IsStep(step, V, N) == step \in [V \X (1 .. N) -> V]

Follows(g, step, V, base, N) ==
  g \in [0 .. N -> V] /\ g[0] = base /\ \A n \in 1 .. N : g[n] = step[<<g[n - 1], n>>]

LEMMA RecursionExists ==
  ASSUME NEW V, NEW base \in V, NEW N \in Nat, NEW step, IsStep(step, V, N)
  PROVE  \E g : Follows(g, step, V, base, N)
<1>0. step \in [V \X (1 .. N) -> V]
  BY DEF IsStep
<1> DEFINE P == {k \in 0 .. N : \E g \in [0 .. k -> V] : /\ g[0] = base
                                                      /\ \A n \in 1 .. k : g[n] = step[<<g[n - 1], n>>]}
<1>1. 0 \in P
  <2> DEFINE g == [n \in 0 .. 0 |-> base]
  <2>1. g \in [0 .. 0 -> V] /\ g[0] = base /\ 1 .. 0 = {}
    OBVIOUS
  <2> HIDE DEF g
  <2>2. QED
    BY <2>1
<1>2. ASSUME NEW n \in 1 .. N, n - 1 \in P
      PROVE  n \in P
  <2>1. PICK g \in [0 .. n - 1 -> V] : g[0] = base /\ \A i \in 1 .. n - 1 : g[i] = step[<<g[i - 1], i>>]
    BY <1>2
  <2> DEFINE h == [i \in 0 .. n |-> IF i = n THEN step[<<g[n - 1], n>>] ELSE g[i]]
  <2>2. h[n] = step[<<g[n - 1], n>>] /\ \A i \in 0 .. n - 1 : h[i] = g[i]
    OBVIOUS
  <2>3. g[n - 1] \in V /\ step[<<g[n - 1], n>>] \in V
    BY <1>0, <2>1
  <2>4. h \in [0 .. n -> V]
    BY <2>1, <2>3
  <2> HIDE DEF h
  <2>5. ASSUME NEW i \in 1 .. n
        PROVE  h[i] = step[<<h[i - 1], i>>]
    <3>1. CASE i = n
      BY <2>2, <3>1
    <3>2. CASE i # n
      <4>1. i \in 1 .. n - 1 /\ i - 1 \in 0 .. n - 1 /\ i \in 0 .. n - 1
        BY <3>2
      <4>2. QED
        BY <2>1, <2>2, <4>1
    <3>3. QED
      BY <3>1, <3>2
  <2>6. h[0] = base
    BY <2>1, <2>2
  <2>7. QED
    BY <1>2, <2>4, <2>5, <2>6
<1>3. P \in SUBSET (0 .. N)
  OBVIOUS
<1>4. P = 0 .. N
  <2> HIDE DEF P
  <2>1. QED
    BY <1>1, <1>2, <1>3, UpTo
<1>5. N \in P
  BY <1>4
<1>6. QED
  BY <1>5 DEF Follows

\* Two functions that follow the same steps from the same value agree.
SameSteps(g, h, N) == g[0] = h[0] /\ \A n \in 1 .. N : g[n - 1] = h[n - 1] => g[n] = h[n]

LEMMA AgreeUpTo ==
  ASSUME NEW N \in Nat, NEW g, NEW h, SameSteps(g, h, N)
  PROVE  \A n \in 0 .. N : g[n] = h[n]
<1> DEFINE P == {n \in 0 .. N : g[n] = h[n]}
<1>1. 0 \in P /\ \A n \in 1 .. N : n - 1 \in P => n \in P
  BY DEF SameSteps
<1>2. P = 0 .. N
  <2>1. P \in SUBSET (0 .. N)
    OBVIOUS
  <2> HIDE DEF P
  <2>2. QED
    BY <1>1, <2>1, UpTo
<1>3. QED
  BY <1>2

-----------------------------------------------------------------------------
(* The library's folds: a function on the subsets of a set, from each one  *)
(* without an element it chooses.                                          *)

Chooses(c, S) == \A T \in SUBSET S : T # {} => c[T] \in T

FoldsOver(g, c, step, V, base, S) ==
  /\ g \in [SUBSET S -> V] /\ g[{}] = base
  /\ \A T \in SUBSET S : T # {} => g[T] = step[<<g[T \ {c[T]}], c[T]>>]

\* It exists: one more element at a time.
LEMMA FoldExists ==
  ASSUME NEW S, IsFiniteSet(S), NEW c, Chooses(c, S), NEW V, NEW base \in V, NEW step \in [V \X S -> V]
  PROVE  \E g : FoldsOver(g, c, step, V, base, S)
<1> DEFINE N == Cardinality(S)
           W == [SUBSET S -> V]
           next(f) == [T \in SUBSET S |-> IF T = {} THEN base ELSE step[<<f[T \ {c[T]}], c[T]>>]]
           more == [x \in W \X (1 .. N) |-> next(x[1])]
           first == [T \in SUBSET S |-> base]
<1>1. N \in Nat
  BY FS_CardinalityType
<1>2. \A f \in W : next(f) \in W
  BY DEF Chooses
<1>3. first \in W /\ IsStep(more, W, N)
  <2> HIDE DEF next
  <2>1. \A x \in W \X (1 .. N) : next(x[1]) \in W
    BY <1>2
  <2> HIDE DEF W
  <2>2. more \in [W \X (1 .. N) -> W]
    BY <2>1
  <2>3. first \in W
    BY DEF W
  <2>4. QED
    BY <2>2, <2>3 DEF IsStep
<1>4. PICK h : Follows(h, more, W, first, N)
  <2> HIDE DEF W, more, first, N
  <2>1. QED
    BY <1>1, <1>3, RecursionExists
<1>5. h \in [0 .. N -> W] /\ h[0] = first /\ \A n \in 1 .. N : h[n] = next(h[n - 1])
  <2>1. h \in [0 .. N -> W] /\ h[0] = first /\ \A n \in 1 .. N : h[n] = more[<<h[n - 1], n>>]
    <3> HIDE DEF W, more, first, N
    <3>1. QED
      BY <1>4 DEF Follows
  <2>2. \A n \in 1 .. N : <<h[n - 1], n>> \in W \X (1 .. N)
    <3> HIDE DEF W
    <3>1. QED
      BY <1>1, <2>1
  <2>3. \A n \in 1 .. N : h[n] = next(h[n - 1])
    <3> HIDE DEF W, next
    <3>1. QED
      BY <2>1, <2>2
  <2>4. QED
    BY <2>1, <2>3
<1> DEFINE g == [T \in SUBSET S |-> h[Cardinality(T)][T]]
<1>6. \A T \in SUBSET S : IsFiniteSet(T) /\ Cardinality(T) \in 0 .. N
  BY <1>1, FS_Subset, FS_CardinalityType
<1>7. g \in [SUBSET S -> V]
  <2>1. \A T \in SUBSET S : h[Cardinality(T)] \in W
    <3> HIDE DEF W, N
    <3>1. QED
      BY <1>5, <1>6
  <2>2. \A T \in SUBSET S : h[Cardinality(T)][T] \in V
    BY <2>1
  <2>3. QED
    BY <2>2
<1>8. g[{}] = base
  <2>1. Cardinality({}) = 0 /\ {} \in SUBSET S
    BY FS_EmptySet
  <2>2. first[{}] = base
    OBVIOUS
  <2>3. g[{}] = h[0][{}]
    BY <2>1
  <2>4. QED
    BY <1>5, <2>2, <2>3
<1>9. ASSUME NEW T \in SUBSET S, T # {}
      PROVE  g[T] = step[<<g[T \ {c[T]}], c[T]>>]
  <2> DEFINE U == T \ {c[T]}
             n == Cardinality(T)
  <2>1. c[T] \in T /\ U \in SUBSET S
    BY <1>9 DEF Chooses
  <2>2. Cardinality(U) = n - 1 /\ n \in 1 .. N
    <3>1. Cardinality(U) = n - 1 /\ n \in 0 .. N
      BY <1>6, <2>1, FS_RemoveElement
    <3>2. Cardinality(U) \in Nat
      BY <1>6, <2>1
    <3>3. QED
      BY <1>1, <3>1, <3>2
  <2>3. g[T] = h[n][T] /\ g[U] = h[n - 1][U]
    <3>1. g[U] = h[Cardinality(U)][U]
      BY <2>1
    <3>2. QED
      BY <2>2, <3>1
  <2>4. h[n][T] = next(h[n - 1])[T]
    <3> HIDE DEF next, n
    <3>1. QED
      BY <1>5, <2>2
  <2>5. next(h[n - 1])[T] = step[<<h[n - 1][U], c[T]>>]
    <3> HIDE DEF n
    <3>1. QED
      BY <1>9
  <2>6. QED
    <3> HIDE DEF g, next, n, U
    <3>1. g[T] = step[<<g[U], c[T]>>]
      BY <2>3, <2>4, <2>5
    <3>2. QED
      BY <3>1 DEF U
<1>10. QED
  <2> HIDE DEF g
  <2>1. QED
    BY <1>7, <1>8, <1>9 DEF FoldsOver
=============================================================================
