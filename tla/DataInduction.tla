--------------------------- MODULE DataInduction ---------------------------
(***************************************************************************)
(* Induction over data, for the proofs about what loops compute: the       *)
(* scores of storage nodes (src/storage/behavior.cpp) and the values of    *)
(* transactions (CTransaction::GetValueOut, CheckTxInputs).                *)
(*                                                                         *)
(* What an induction proves is said by a set here, the set of the numbers  *)
(* that have the property, and not by an operator: such statements are     *)
(* first-order.                                                            *)
(***************************************************************************)
EXTENDS Integers, Functions, FiniteSetTheorems, TLAPS

\* A set of naturals that is not empty has a least element.
LEMMA LeastNatural ==
    ASSUME NEW T \in SUBSET Nat, T # {}
    PROVE  \E x \in T : \A y \in T : x <= y
<1> DEFINE R == OpToRel(<, Nat)
<1>1. \E x \in T : \A y \in T : ~ (<<y, x>> \in R)
  BY NatLessThanWellFounded, WFMin
<1>2. \A x, y \in Nat : y < x => <<y, x>> \in R
  BY DEF OpToRel
<1> HIDE DEF R
<1>3. \A x, y \in Nat : ~ (y < x) => x <= y
  OBVIOUS
<1> QED BY <1>1, <1>2, <1>3

\* Induction over the naturals.
LEMMA NatSetInduction ==
    ASSUME NEW S, 0 \in S, \A n \in Nat : n \in S => n + 1 \in S
    PROVE  Nat \subseteq S
<1> DEFINE T == Nat \ S
<1> SUFFICES ASSUME T # {} PROVE FALSE
  OBVIOUS
<1>1. PICK x \in T : \A y \in T : x <= y
  BY LeastNatural
<1>2. x # 0 /\ x - 1 \in Nat /\ x - 1 \notin T
  BY <1>1
<1> QED BY <1>2

\* Induction over the steps of a loop of n rounds.
LEMMA LoopInduction ==
    ASSUME NEW n \in Nat, NEW S, 0 \in S, \A k \in 1..n : k - 1 \in S => k \in S
    PROVE  0..n \subseteq S
<1> DEFINE T == {k \in Nat : k <= n => k \in S}
<1>1. \A k \in Nat : k \in T => k + 1 \in T
  <2> SUFFICES ASSUME NEW k \in Nat, k \in T, k + 1 <= n PROVE k + 1 \in S
    OBVIOUS
  <2>1. k + 1 \in 1..n /\ (k + 1) - 1 = k /\ k \in S
    OBVIOUS
  <2> QED BY <2>1
<1>2. 0 \in T
  OBVIOUS
<1> HIDE DEF T
<1>3. Nat \subseteq T
  BY <1>1, <1>2, NatSetInduction
<1> QED BY <1>3 DEF T

\* A loop of n rounds over a state of X: what each round does to the state,
\* and what the states after 0, 1, .. n rounds are.
Rounds(n, X) == [1..n -> [X -> X]]
Runs(g, n, X, base, F) ==
    /\ g \in [0..n -> X]
    /\ g[0] = base
    /\ \A k \in 1..n : g[k] = F[k][g[k - 1]]

\* Such a loop has a history: the recursion that describes it has a
\* solution, whatever each round does to the state.
LEMMA LoopExists ==
    ASSUME NEW n \in Nat, NEW X, NEW base \in X, NEW F \in Rounds(n, X)
    PROVE  \E g : Runs(g, n, X, base, F)
<1> DEFINE Upto(m) == {g \in [0..n -> X] :
                          g[0] = base /\ \A k \in 1..m : g[k] = F[k][g[k - 1]]}
           S == {m \in 0..n : Upto(m) # {}}
<1>0. F \in [1..n -> [X -> X]]
  BY DEF Rounds
<1>1. 0 \in S
  <2>1. [k \in 0..n |-> base] \in Upto(0)
    OBVIOUS
  <2> QED BY <2>1
<1>2. ASSUME NEW m \in 1..n, m - 1 \in S PROVE m \in S
  <2>1. PICK g \in [0..n -> X] : g[0] = base /\ \A k \in 1..m - 1 : g[k] = F[k][g[k - 1]]
    BY <1>2
  <2> DEFINE f == [g EXCEPT ![m] = F[m][g[m - 1]]]
  <2>2. F[m] \in [X -> X] /\ g[m - 1] \in X
    BY <1>0
  <2>3. f \in [0..n -> X] /\ f[m] = F[m][g[m - 1]] /\ \A k \in 0..n : k # m => f[k] = g[k]
    BY <2>2
  <2>4. f[0] = base /\ f[m - 1] = g[m - 1]
    BY <2>1, <2>3
  <2> HIDE DEF f
  <2>5. ASSUME NEW k \in 1..m PROVE f[k] = F[k][f[k - 1]]
    <3>1. CASE k = m
      BY <2>3, <2>4, <3>1
    <3>2. CASE k # m
      <4>1. k \in 1..m - 1 /\ f[k] = g[k] /\ f[k - 1] = g[k - 1]
        BY <2>3, <3>2
      <4> QED BY <2>1, <4>1
    <3> QED BY <3>1, <3>2
  <2>6. f \in Upto(m)
    BY <2>3, <2>4, <2>5
  <2> QED BY <2>6
<1> HIDE DEF S
<1>3. \A m \in 1..n : m - 1 \in S => m \in S
  BY <1>2
<1>4. 0..n \subseteq S
  BY <1>1, <1>3, LoopInduction
<1>5. n \in S
  BY <1>4
<1>6. PICK g : g \in Upto(n)
  BY <1>5 DEF S
<1> QED BY <1>6 DEF Runs

-----------------------------------------------------------------------------
(* Sums over finite sets: SumFunctionOnSet of module Functions, which takes  *)
(* the elements one by one.                                                  *)

Any(s) == CHOOSE x \in s : TRUE

\* g is the sum of f over every subset of S.
Adds(g, f, S) ==
    g = [s \in SUBSET S |-> IF s = {} THEN 0 ELSE f[Any(s)] + g[s \ {Any(s)}]]

\* The element taken first leaves a smaller set.
LEMMA TakeOne ==
    ASSUME NEW s, IsFiniteSet(s), s # {}
    PROVE  /\ Any(s) \in s
           /\ IsFiniteSet(s \ {Any(s)})
           /\ Cardinality(s) \in Nat \ {0}
           /\ Cardinality(s \ {Any(s)}) = Cardinality(s) - 1
<1>1. Any(s) \in s
  BY DEF Any
<1>2. Cardinality(s) \in Nat /\ Cardinality(s) # 0
  BY FS_CardinalityType, FS_EmptySet
<1> QED
  BY <1>1, <1>2, FS_RemoveElement

\* The sum can be computed: in round k for the subsets of k elements.
LEMMA AddsExists ==
    ASSUME NEW S, IsFiniteSet(S), NEW f, \A x \in S : f[x] \in Nat
    PROVE  \E g \in [SUBSET S -> Nat] : Adds(g, f, S)
<1>1. PICK n \in Nat : n = Cardinality(S)
  BY FS_CardinalityType
<1>2. PICK X : X = [SUBSET S -> Nat]
  OBVIOUS
<1>3. PICK base \in X : base = [s \in SUBSET S |-> 0]
  BY <1>2
<1>4. ASSUME NEW s \in SUBSET S
      PROVE  /\ IsFiniteSet(s) /\ Cardinality(s) \in 0..n
             /\ s = {} <=> Cardinality(s) = 0
             /\ s # {} => /\ Any(s) \in s /\ f[Any(s)] \in Nat
                          /\ s \ {Any(s)} \in SUBSET S
                          /\ Cardinality(s \ {Any(s)}) = Cardinality(s) - 1
  <2>1. IsFiniteSet(s) /\ Cardinality(s) \in Nat /\ Cardinality(s) <= n
    BY <1>1, FS_Subset, FS_CardinalityType
  <2>2. s = {} <=> Cardinality(s) = 0
    BY <2>1, FS_EmptySet
  <2> QED
    BY <2>1, <2>2, TakeOne
<1> DEFINE Round(k, g) == [s \in SUBSET S |->
               IF Cardinality(s) = k THEN f[Any(s)] + g[s \ {Any(s)}] ELSE g[s]]
<1>5. ASSUME NEW k \in 1..n, NEW g \in X PROVE Round(k, g) \in X
  <2> SUFFICES ASSUME NEW s \in SUBSET S
               PROVE (IF Cardinality(s) = k THEN f[Any(s)] + g[s \ {Any(s)}] ELSE g[s]) \in Nat
    BY <1>2
  <2>1. CASE Cardinality(s) = k
    BY <1>2, <1>4, <2>1
  <2> QED
    BY <1>2, <2>1
<1>6. PICK F : F = [k \in 1..n |-> [g \in X |-> Round(k, g)]]
  OBVIOUS
<1>7. F \in Rounds(n, X)
  BY <1>5, <1>6 DEF Rounds
<1>8. PICK G : Runs(G, n, X, base, F)
  BY <1>7, LoopExists
<1>9. ASSUME NEW k \in 1..n, NEW s \in SUBSET S
      PROVE  G[k][s] = IF Cardinality(s) = k THEN f[Any(s)] + G[k - 1][s \ {Any(s)}]
                       ELSE G[k - 1][s]
  <2>1. G[k - 1] \in X /\ G[k] = F[k][G[k - 1]]
    BY <1>8 DEF Runs
  <2>2. G[k] = Round(k, G[k - 1])
    BY <1>6, <2>1
  <2> QED
    BY <2>2
<1>10. ASSUME NEW s \in SUBSET S
       PROVE  G[n][s] = G[Cardinality(s)][s]
  <2>1. PICK c \in 0..n : c = Cardinality(s)
    BY <1>4
  <2> DEFINE T == {k \in 0..n : k >= c => G[k][s] = G[c][s]}
  <2>2. 0 \in T
    BY <2>1
  <2>3. ASSUME NEW k \in 1..n, k - 1 \in T PROVE k \in T
    <3>1. CASE k > c
      <4>0. Cardinality(s) # k
        BY <2>1, <3>1
      <4>1. G[k][s] = G[k - 1][s]
        BY <1>9, <4>0, Zenon
      <4>2. k - 1 \in 0..n /\ k - 1 >= c
        BY <2>1, <3>1
      <4> QED
        BY <2>3, <4>1, <4>2
    <3>2. CASE k = c
      BY <3>2
    <3> QED
      BY <2>1, <3>1, <3>2
  <2>4. \A k \in 1..n : k - 1 \in T => k \in T
    BY <2>3
  <2> HIDE DEF T
  <2>5. n \in T
    BY <2>2, <2>4, LoopInduction
  <2> QED
    BY <2>1, <2>5 DEF T
<1>11. PICK H : H = G[n]
  OBVIOUS
<1>12. H \in [SUBSET S -> Nat]
  BY <1>2, <1>8, <1>11 DEF Runs
<1>13. ASSUME NEW s \in SUBSET S
       PROVE  H[s] = IF s = {} THEN 0 ELSE f[Any(s)] + H[s \ {Any(s)}]
  <2>1. CASE s = {}
    <3>1. H[s] = G[0][s]
      BY <1>4, <1>10, <1>11, <2>1
    <3> QED
      BY <1>3, <1>8, <2>1, <3>1 DEF Runs
  <2>2. CASE s # {}
    <3>1. PICK c \in 1..n : c = Cardinality(s)
      <4>1. Cardinality(s) \in 0..n /\ Cardinality(s) # 0
        BY <1>4, <2>2
      <4> QED
        BY <4>1
    <3>2. PICK r \in SUBSET S : r = s \ {Any(s)} /\ Cardinality(r) = c - 1
      BY <1>4, <2>2, <3>1
    <3>3. G[c][s] = f[Any(s)] + G[c - 1][r]
      BY <1>9, <3>1, <3>2
    <3>4. H[s] = G[c][s] /\ H[r] = G[c - 1][r]
      BY <1>10, <1>11, <3>1, <3>2
    <3> QED
      BY <2>2, <3>2, <3>3, <3>4
  <2> QED
    BY <2>1, <2>2
<1> QED
  BY <1>12, <1>13 DEF Adds

\* Two sums of f agree on the sets they share.
LEMMA AddsAgree ==
    ASSUME NEW f, NEW S, IsFiniteSet(S), NEW T, NEW g, NEW h, Adds(g, f, S), Adds(h, f, T),
           NEW r \in SUBSET S, r \in SUBSET T
    PROVE  g[r] = h[r]
<1> DEFINE K == {k \in Nat : \A s \in SUBSET S : s \in SUBSET T /\ Cardinality(s) = k => g[s] = h[s]}
<1>1. ASSUME NEW s \in SUBSET S, s \in SUBSET T
      PROVE  /\ s = {} => g[s] = 0 /\ h[s] = 0
             /\ s # {} => /\ g[s] = f[Any(s)] + g[s \ {Any(s)}]
                          /\ h[s] = f[Any(s)] + h[s \ {Any(s)}]
  BY <1>1 DEF Adds
<1>2. ASSUME NEW s \in SUBSET S
      PROVE  IsFiniteSet(s) /\ (s = {} <=> Cardinality(s) = 0)
  BY FS_Subset, FS_EmptySet
<1>3. 0 \in K
  BY <1>1, <1>2
<1>4. ASSUME NEW k \in Nat, k \in K PROVE k + 1 \in K
  <2> SUFFICES ASSUME NEW s \in SUBSET S, s \in SUBSET T, Cardinality(s) = k + 1
               PROVE  g[s] = h[s]
    OBVIOUS
  <2>1. s # {} /\ IsFiniteSet(s)
    BY <1>2
  <2>2. PICK q : q = s \ {Any(s)}
    OBVIOUS
  <2>3. q \in SUBSET S /\ q \in SUBSET T /\ Cardinality(q) = k
    <3>1. Cardinality(q) = Cardinality(s) - 1
      BY <2>1, <2>2, TakeOne
    <3> QED
      BY <2>2, <3>1
  <2>4. g[q] = h[q]
    BY <1>4, <2>3
  <2> QED
    BY <1>1, <2>1, <2>2, <2>4
<1>5. \A k \in Nat : k \in K => k + 1 \in K
  BY <1>4
<1> HIDE DEF K
<1>6. Nat \subseteq K
  BY <1>3, <1>5, NatSetInduction
<1>7. Cardinality(r) \in K
  BY <1>2, <1>6, FS_CardinalityType
<1> QED
  BY <1>7 DEF K

\* SumFunctionOnSet is such a sum.
LEMMA SumIsAdds ==
    ASSUME NEW S, IsFiniteSet(S), NEW f, \A x \in S : f[x] \in Nat
    PROVE  \E g \in [SUBSET S -> Nat] : Adds(g, f, S) /\ SumFunctionOnSet(f, S) = g[S]
<1>1. PICK g \in [SUBSET S -> Nat] : Adds(g, f, S)
  BY AddsExists
<1>2. PICK t : t = CHOOSE q : Adds(q, f, S)
  OBVIOUS
<1>3. Adds(t, f, S)
  BY <1>1, <1>2
<1>4. SumFunctionOnSet(f, S) = t[S]
  BY <1>2 DEF SumFunctionOnSet, FoldFunctionOnSet, MapThenFoldSet, Adds, Any
<1>5. t[S] = g[S]
  BY <1>1, <1>3, AddsAgree
<1> QED
  BY <1>1, <1>4, <1>5

\* The sum over no elements is 0; a sum of naturals is a natural; and the
\* element that is taken first adds its value.
LEMMA SumTake ==
    ASSUME NEW S, IsFiniteSet(S), NEW f, \A x \in S : f[x] \in Nat
    PROVE  /\ SumFunctionOnSet(f, S) \in Nat
           /\ S = {} => SumFunctionOnSet(f, S) = 0
           /\ S # {} => SumFunctionOnSet(f, S) =
                          f[Any(S)] + SumFunctionOnSet(f, S \ {Any(S)})
<1>1. PICK g \in [SUBSET S -> Nat] : Adds(g, f, S) /\ SumFunctionOnSet(f, S) = g[S]
  BY SumIsAdds
<1>2. S = {} => g[S] = 0
  BY <1>1 DEF Adds
<1>3. ASSUME S # {}
      PROVE  g[S] = f[Any(S)] + SumFunctionOnSet(f, S \ {Any(S)})
  <2>1. PICK r : r = S \ {Any(S)}
    OBVIOUS
  <2>2. IsFiniteSet(r) /\ r \in SUBSET S /\ \A x \in r : f[x] \in Nat
    BY <1>3, <2>1, TakeOne
  <2>3. PICK h \in [SUBSET r -> Nat] : Adds(h, f, r) /\ SumFunctionOnSet(f, r) = h[r]
    BY <2>2, SumIsAdds
  <2>4. g[r] = h[r]
    BY <1>1, <2>2, <2>3, AddsAgree
  <2>5. g[S] = f[Any(S)] + g[r]
    BY <1>1, <1>3, <2>1 DEF Adds
  <2> QED
    BY <2>1, <2>3, <2>4, <2>5
<1> QED
  BY <1>1, <1>2, <1>3

\* Any element adds its value: the order in which they are taken is immaterial.
LEMMA SumAdd ==
    ASSUME NEW S, IsFiniteSet(S), NEW f, NEW x, x \notin S, \A y \in S \cup {x} : f[y] \in Nat
    PROVE  SumFunctionOnSet(f, S \cup {x}) = f[x] + SumFunctionOnSet(f, S)
<1>1. PICK U : U = S \cup {x}
  OBVIOUS
<1>2. IsFiniteSet(U) /\ \A y \in U : f[y] \in Nat
  BY <1>1, FS_AddElement
<1> DEFINE Sum(s) == SumFunctionOnSet(f, s)
           K == {k \in Nat : \A s \in SUBSET U : \A y \in U :
                   y \notin s /\ Cardinality(s) = k => Sum(s \cup {y}) = f[y] + Sum(s)}
<1>3. ASSUME NEW s \in SUBSET U
      PROVE  /\ IsFiniteSet(s) /\ Sum(s) \in Nat
             /\ s # {} => /\ Any(s) \in s /\ Sum(s) = f[Any(s)] + Sum(s \ {Any(s)})
                          /\ s \ {Any(s)} \in SUBSET U
  <2>1. IsFiniteSet(s) /\ \A y \in s : f[y] \in Nat
    BY <1>2, FS_Subset
  <2> QED
    BY <2>1, SumTake, TakeOne
<1> HIDE DEF Sum
<1>4. ASSUME NEW s \in SUBSET U, NEW y \in U, y \notin s, Any(s \cup {y}) = y
      PROVE  Sum(s \cup {y}) = f[y] + Sum(s)
  <2>1. PICK T \in SUBSET U : T = s \cup {y} /\ T # {} /\ T \ {y} = s
    BY <1>4
  <2> QED
    BY <1>3, <1>4, <2>1
<1>5. 0 \in K
  <2> SUFFICES ASSUME NEW s \in SUBSET U, NEW y \in U, y \notin s, Cardinality(s) = 0
               PROVE  Sum(s \cup {y}) = f[y] + Sum(s)
    OBVIOUS
  <2>1. s = {}
    BY <1>3, FS_EmptySet
  <2>2. Any(s \cup {y}) = y
    BY <2>1 DEF Any
  <2> QED
    BY <1>4, <2>2
<1>6. ASSUME NEW k \in Nat, k \in K PROVE k + 1 \in K
  <2> SUFFICES ASSUME NEW s \in SUBSET U, NEW y \in U, y \notin s, Cardinality(s) = k + 1
               PROVE  Sum(s \cup {y}) = f[y] + Sum(s)
    OBVIOUS
  <2>1. CASE Any(s \cup {y}) = y
    BY <1>4, <2>1
  <2>2. CASE Any(s \cup {y}) # y
    <3>1. PICK T \in SUBSET U : T = s \cup {y}
      OBVIOUS
    <3>2. PICK a : a = Any(T)
      OBVIOUS
    <3>3. a \in T /\ a # y /\ Sum(T) = f[a] + Sum(T \ {a})
      BY <1>3, <2>2, <3>1, <3>2
    <3>4. PICK r \in SUBSET U : r = s \ {a}
      OBVIOUS
    <3>5. a \in s /\ a \in U /\ a \notin r /\ y \notin r /\ T \ {a} = r \cup {y} /\ s = r \cup {a}
      BY <3>1, <3>3, <3>4
    <3>6. Cardinality(r) = k
      <4>1. Cardinality(r) = Cardinality(s) - 1
        BY <1>3, <3>4, <3>5, FS_RemoveElement
      <4> QED
        BY <4>1
    <3>7. Sum(r \cup {y}) = f[y] + Sum(r) /\ Sum(r \cup {a}) = f[a] + Sum(r)
      BY <1>6, <3>5, <3>6
    <3>8. Sum(r) \in Nat /\ f[a] \in Nat /\ f[y] \in Nat
      BY <1>2, <1>3, <3>5
    <3>9. Sum(T) = f[a] + (f[y] + Sum(r)) /\ Sum(s) = f[a] + Sum(r)
      BY <3>3, <3>5, <3>7
    <3> QED
      BY <3>1, <3>8, <3>9
  <2> QED
    BY <2>1, <2>2
<1>7. \A k \in Nat : k \in K => k + 1 \in K
  BY <1>6
<1> HIDE DEF K
<1>8. Nat \subseteq K
  BY <1>5, <1>7, NatSetInduction
<1>9. Cardinality(S) \in K /\ S \in SUBSET U /\ x \in U
  BY <1>1, <1>8, FS_CardinalityType
<1>10. Sum(S \cup {x}) = f[x] + Sum(S)
  BY <1>9 DEF K
<1> QED
  BY <1>10 DEF Sum

\* The sum over two sets without a common element.
LEMMA SumUnion ==
    ASSUME NEW S, IsFiniteSet(S), NEW T, IsFiniteSet(T), S \cap T = {},
           NEW f, \A y \in S \cup T : f[y] \in Nat
    PROVE  SumFunctionOnSet(f, S \cup T) = SumFunctionOnSet(f, S) + SumFunctionOnSet(f, T)
<1> DEFINE Sum(s) == SumFunctionOnSet(f, s)
           K == {k \in Nat : \A s \in SUBSET T : Cardinality(s) = k => Sum(S \cup s) = Sum(S) + Sum(s)}
<1>1. ASSUME NEW s \in SUBSET T
      PROVE  IsFiniteSet(s) /\ IsFiniteSet(S \cup s) /\ Sum(s) \in Nat /\ \A y \in S \cup s : f[y] \in Nat
  <2>1. IsFiniteSet(s)
    BY FS_Subset
  <2> QED
    BY <2>1, FS_Union, SumTake
<1>2. Sum(S) \in Nat /\ Sum({}) = 0
  BY FS_EmptySet, SumTake
<1>3. 0 \in K
  <2> SUFFICES ASSUME NEW s \in SUBSET T, Cardinality(s) = 0
               PROVE  Sum(S \cup s) = Sum(S) + Sum(s)
    OBVIOUS
  <2>1. s = {} /\ S \cup s = S
    BY <1>1, FS_EmptySet
  <2> HIDE DEF Sum
  <2> QED
    BY <1>2, <2>1
<1>4. ASSUME NEW k \in Nat, k \in K PROVE k + 1 \in K
  <2> SUFFICES ASSUME NEW s \in SUBSET T, Cardinality(s) = k + 1
               PROVE  Sum(S \cup s) = Sum(S) + Sum(s)
    OBVIOUS
  <2>1. IsFiniteSet(s) /\ s # {}
    <3>1. Cardinality(s) # 0
      OBVIOUS
    <3> QED
      BY <1>1, <3>1, FS_EmptySet
  <2>2. PICK x \in s : TRUE
    BY <2>1
  <2>3. PICK r \in SUBSET T : r = s \ {x}
    OBVIOUS
  <2>4. Cardinality(r) = k
    <3>1. Cardinality(r) = Cardinality(s) - 1
      BY <2>1, <2>3, FS_RemoveElement
    <3> QED
      BY <3>1
  <2>5. Sum(S \cup r) = Sum(S) + Sum(r)
    BY <1>4, <2>4
  <2>6. PICK P : P = S \cup r
    OBVIOUS
  <2>7. x \notin r /\ x \notin P /\ s = r \cup {x} /\ S \cup s = P \cup {x} /\ f[x] \in Nat
    BY <2>3, <2>6
  <2>8. Sum(P \cup {x}) = f[x] + Sum(P)
    BY <1>1, <2>6, <2>7, SumAdd
  <2>9. Sum(r \cup {x}) = f[x] + Sum(r)
    BY <1>1, <2>7, SumAdd
  <2>10. Sum(r) \in Nat
    BY <1>1
  <2> HIDE DEF Sum
  <2>11. Sum(S \cup s) = f[x] + (Sum(S) + Sum(r)) /\ Sum(s) = f[x] + Sum(r)
    BY <2>5, <2>6, <2>7, <2>8, <2>9
  <2> QED
    BY <1>2, <2>7, <2>10, <2>11
<1>5. \A k \in Nat : k \in K => k + 1 \in K
  BY <1>4
<1> HIDE DEF K
<1>6. Cardinality(T) \in K
  BY <1>3, <1>5, NatSetInduction, FS_CardinalityType
<1> QED
  BY <1>6 DEF K

\* A sum over more elements is no smaller.
LEMMA SumMonotone ==
    ASSUME NEW T, IsFiniteSet(T), NEW S \in SUBSET T, NEW f, \A y \in T : f[y] \in Nat
    PROVE  SumFunctionOnSet(f, S) <= SumFunctionOnSet(f, T)
<1>1. PICK R : R = T \ S
  OBVIOUS
<1>2. IsFiniteSet(S) /\ IsFiniteSet(R) /\ S \cap R = {} /\ S \cup R = T
  BY <1>1, FS_Subset, FS_Difference
<1>3. SumFunctionOnSet(f, T) = SumFunctionOnSet(f, S) + SumFunctionOnSet(f, R)
  BY <1>2, SumUnion
<1>4. SumFunctionOnSet(f, S) \in Nat /\ SumFunctionOnSet(f, R) \in Nat
  BY <1>2, SumTake
<1> QED
  BY <1>3, <1>4

=============================================================================
