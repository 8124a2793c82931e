---------------------------- MODULE LoopsAndSums ----------------------------
(***************************************************************************)
(* What the proofs about loops, sums and least elements need. The provers  *)
(* have induction only for sets of numbers, so a recursive function is     *)
(* shown to exist, and then to have a property, by the least number at     *)
(* which it would fail; so are sums.                                       *)
(***************************************************************************)
EXTENDS Integers, FiniteSets, Functions, FiniteSetTheorems, WellFoundedInduction, TLAPS
-----------------------------------------------------------------------------
(* Loops and least elements.                                               *)

\* A set of numbers has a least one.
LEMMA LeastOf ==
    ASSUME NEW S \in SUBSET Nat, S # {}
    PROVE  \E m \in S : \A n \in S : m <= n
<1>1. IsWellFoundedOn({p \in Nat \X Nat : p[1] < p[2]}, Nat)
  BY NatLessThanWellFounded DEF OpToRel
<1>2. \E m \in S : \A n \in S : ~ (<<n, m>> \in {p \in Nat \X Nat : p[1] < p[2]})
  BY <1>1, WFMin
<1>3. PICK m \in S : \A n \in S : ~ (<<n, m>> \in {p \in Nat \X Nat : p[1] < p[2]})
  BY <1>2
<1>4. \A n \in S : ~ (n < m)
  BY <1>3
<1> QED BY <1>4

\* What holds of 0 and passes from each number to the next is all numbers.
LEMMA Induction ==
    ASSUME NEW S, 0 \in S, \A i \in Nat : i \in S => i + 1 \in S
    PROVE  Nat \subseteq S
<1> SUFFICES ASSUME Nat \ S # {} PROVE FALSE
  OBVIOUS
<1>1. PICK m \in Nat \ S : \A n \in Nat \ S : m <= n
  BY LeastOf
<1>2. m # 0 /\ m - 1 \in Nat
  BY <1>1
<1>3. m - 1 \in S
  BY <1>1, <1>2
<1> QED BY <1>1, <1>2, <1>3

\* f is a loop that begins with e and does n steps.
Loops(f, e, step, n) == f[0] = e /\ \A i \in 1 .. n : f[i] = step[i][f[i - 1]]

LEMMA LoopExists ==
    ASSUME NEW S, NEW e \in S, NEW n \in Nat, NEW step \in [Nat -> [S -> S]]
    PROVE  \E f \in [0 .. n -> S] : Loops(f, e, step, n)
<1> DEFINE Runs(f, k) == f[0] = e /\ \A i \in 1 .. k : f[i] = step[i][f[i - 1]]
           T == {k \in Nat : \E f \in [0 .. k -> S] : Runs(f, k)}
<1>1. 0 \in T
  <2>1. [i \in 0 .. 0 |-> e] \in [0 .. 0 -> S] /\ Runs([i \in 0 .. 0 |-> e], 0)
    OBVIOUS
  <2> QED BY <2>1
<1>2. ASSUME NEW k \in Nat, k \in T
      PROVE  k + 1 \in T
  <2>1. PICK f \in [0 .. k -> S] : Runs(f, k)
    BY <1>2
  <2> DEFINE g == [i \in 0 .. k + 1 |-> IF i = k + 1 THEN step[k + 1][f[k]] ELSE f[i]]
  <2>2. g \in [0 .. k + 1 -> S]
    OBVIOUS
  <2>3. g[0] = e
    BY <2>1
  <2>4. ASSUME NEW i \in 1 .. k + 1
        PROVE  g[i] = step[i][g[i - 1]]
    <3>1. CASE i = k + 1
      BY <3>1
    <3>2. CASE i # k + 1
      <4>1. i \in 1 .. k /\ i - 1 \in 0 .. k /\ i - 1 # k + 1 /\ i \in 0 .. k
        BY <3>2
      <4> QED BY <2>1, <3>2, <4>1
    <3> QED BY <3>1, <3>2
  <2>5. Runs(g, k + 1)
    BY <2>3, <2>4
  <2> HIDE DEF Runs, g
  <2> QED BY <2>2, <2>5
<1>3. n \in T
  BY <1>1, <1>2, Induction
<1> QED BY <1>3 DEF Loops

\* A set with one element less.
LEMMA OneLess ==
    ASSUME NEW S, IsFiniteSet(S), NEW x \in S, NEW n, Cardinality(S) = n
    PROVE  n \in Nat \ {0} /\ IsFiniteSet(S \ {x}) /\ Cardinality(S \ {x}) = n - 1
<1>1. IsFiniteSet(S \ {x}) /\ Cardinality(S \ {x}) = IF x \in S THEN Cardinality(S) - 1 ELSE Cardinality(S)
  BY FS_RemoveElement
<1>2. Cardinality(S \ {x}) \in Nat /\ Cardinality(S) \in Nat
  BY <1>1, FS_CardinalityType
<1> QED BY <1>1, <1>2

\* Induction over the subsets of a finite set.
LEMMA FiniteInduction ==
    ASSUME NEW S, IsFiniteSet(S), NEW T, {} \in T,
           \A U \in SUBSET S : U \in T => \A x \in S \ U : U \union {x} \in T
    PROVE  S \in T
<1> DEFINE N == {n \in Nat : \A U \in SUBSET S : Cardinality(U) = n => U \in T}
<1>1. 0 \in N
  <2> SUFFICES ASSUME NEW U \in SUBSET S, Cardinality(U) = 0
               PROVE  U \in T
    OBVIOUS
  <2> QED BY FS_Subset, FS_EmptySet
<1>2. ASSUME NEW n \in Nat, n \in N
      PROVE  n + 1 \in N
  <2> SUFFICES ASSUME NEW U \in SUBSET S, Cardinality(U) = n + 1
               PROVE  U \in T
    OBVIOUS
  <2>1. IsFiniteSet(U) /\ U # {}
    BY FS_Subset, FS_EmptySet
  <2>2. PICK x \in U : TRUE
    BY <2>1
  <2>3. Cardinality(U \ {x}) = n
    BY <2>1, OneLess
  <2>4. U \ {x} \in T /\ U = (U \ {x}) \union {x} /\ x \in S \ (U \ {x})
    BY <1>2, <2>3
  <2> QED BY <2>4
<1>3. Nat \subseteq N
  <2> HIDE DEF N
  <2> QED BY <1>1, <1>2, Induction
<1>4. Cardinality(S) \in Nat
  BY FS_CardinalityType
<1> QED BY <1>3, <1>4

\* A total order, as a set of pairs, has a least element in every finite set.
LEMMA FiniteLeast ==
    ASSUME NEW S, IsFiniteSet(S), S # {}, NEW R,
           \A x, y \in S : <<x, y>> \in R \/ <<y, x>> \in R,
           \A x, y, z \in S : <<x, y>> \in R /\ <<y, z>> \in R => <<x, z>> \in R
    PROVE  \E m \in S : \A x \in S : <<m, x>> \in R
<1> DEFINE T == {U \in SUBSET S : U # {} => \E m \in U : \A x \in U : <<m, x>> \in R}
<1>1. {} \in T
  OBVIOUS
<1>2. ASSUME NEW U \in SUBSET S, U \in T, NEW x \in S \ U
      PROVE  U \union {x} \in T
  <2>1. CASE U = {}
    BY <2>1
  <2>2. CASE U # {}
    <3>1. PICK m \in U : \A y \in U : <<m, y>> \in R
      BY <1>2, <2>2
    <3>2. CASE <<m, x>> \in R
      BY <3>1, <3>2
    <3>3. CASE <<x, m>> \in R
      <4>1. \A y \in U \union {x} : <<x, y>> \in R
        BY <3>1, <3>3
      <4> QED BY <4>1
    <3> QED BY <3>2, <3>3
  <2> QED BY <2>1, <2>2
<1>3. S \in T
  <2> HIDE DEF T
  <2> QED BY <1>1, <1>2, FiniteInduction
<1> QED BY <1>3
-----------------------------------------------------------------------------
(* Sums.                                                                   *)

One(U) == CHOOSE x \in U : TRUE

\* g is what the fold that sums f computes on the sets of D.
SumsOf(g, f, D) == g = [U \in D |-> IF U = {} THEN 0 ELSE f[One(U)] + g[U \ {One(U)}]]

\* The sums of a function over the subsets of a finite set, as a fold takes them.
LEMMA SumExists ==
    ASSUME NEW S, IsFiniteSet(S), NEW f
    PROVE  \E g : SumsOf(g, f, SUBSET S)
<1> DEFINE D(n) == {U \in SUBSET S : Cardinality(U) <= n}
           N == {n \in Nat : \E g : SumsOf(g, f, D(n))}
<1>0. \A U \in SUBSET S : IsFiniteSet(U) /\ Cardinality(U) \in Nat
  BY FS_Subset, FS_CardinalityType
<1>1. 0 \in N
  <2>1. \A U \in D(0) : U = {}
    <3> TAKE U \in D(0)
    <3>1. Cardinality(U) = 0 /\ IsFiniteSet(U)
      BY <1>0
    <3> QED BY <3>1, FS_EmptySet
  <2> DEFINE g == [U \in D(0) |-> 0]
  <2>2. g = [U \in D(0) |-> IF U = {} THEN 0 ELSE f[One(U)] + g[U \ {One(U)}]]
    <3> HIDE DEF D
    <3> QED BY <2>1
  <2>3. SumsOf(g, f, D(0))
    BY <2>2 DEF SumsOf
  <2> HIDE DEF D, g
  <2> QED BY <2>3
<1>2. ASSUME NEW n \in Nat, n \in N
      PROVE  n + 1 \in N
  <2>1. PICK g : SumsOf(g, f, D(n))
    BY <1>2
  <2> DEFINE h == [U \in D(n + 1) |->
                      IF U \in D(n) THEN g[U] ELSE f[One(U)] + g[U \ {One(U)}]]
  <2>2. ASSUME NEW U \in D(n + 1), U # {}
        PROVE  U \ {One(U)} \in D(n) /\ U \ {One(U)} \in D(n + 1)
    <3>1. One(U) \in U
      BY <2>2 DEF One
    <3>2. Cardinality(U \ {One(U)}) = Cardinality(U) - 1
      BY <1>0, <3>1, FS_RemoveElement
    <3>3. Cardinality(U) \in Nat /\ Cardinality(U) <= n + 1 /\ U \ {One(U)} \in SUBSET S
      BY <1>0
    <3> QED BY <3>2, <3>3
  <2>3. D(n) \subseteq D(n + 1) /\ {} \in D(n)
    <3>1. Cardinality({}) = 0 /\ {} \in SUBSET S
      BY FS_EmptySet
    <3>2. D(n) \subseteq D(n + 1)
      BY <1>0
    <3> QED BY <3>1, <3>2
  <2>4. ASSUME NEW U \in D(n + 1)
        PROVE  h[U] = IF U = {} THEN 0 ELSE f[One(U)] + h[U \ {One(U)}]
    <3> HIDE DEF D
    <3>1. CASE U = {}
      BY <2>1, <2>3, <3>1 DEF SumsOf
    <3>2. CASE U # {} /\ U \in D(n)
      BY <2>1, <2>2, <2>3, <3>2 DEF SumsOf
    <3>3. CASE U # {} /\ U \notin D(n)
      BY <2>2, <2>3, <3>3
    <3> QED BY <3>1, <3>2, <3>3
  <2>5. SumsOf(h, f, D(n + 1))
    <3> HIDE DEF D
    <3> QED BY <2>4 DEF SumsOf
  <2> HIDE DEF D, h
  <2> QED BY <2>5
<1>3. Nat \subseteq N
  <2> HIDE DEF N
  <2> QED BY <1>1, <1>2, Induction
<1>4. Cardinality(S) \in Nat
  BY FS_CardinalityType
<1>5. D(Cardinality(S)) = SUBSET S
  BY FS_Subset
<1> QED BY <1>3, <1>4, <1>5

\* The fold itself.
LEMMA SumIsFold ==
    ASSUME NEW S, IsFiniteSet(S), NEW f
    PROVE  \E g : SumsOf(g, f, SUBSET S) /\ SumFunctionOnSet(f, S) = g[S]
<1> DEFINE g == CHOOSE g : SumsOf(g, f, SUBSET S)
<1>1. SumsOf(g, f, SUBSET S)
  <2>1. \E h : SumsOf(h, f, SUBSET S)
    BY SumExists
  <2> QED BY <2>1
<1>2. SumFunctionOnSet(f, S) = g[S]
  BY DEF SumFunctionOnSet, FoldFunctionOnSet, MapThenFoldSet, SumsOf, One
<1> QED BY <1>1, <1>2

IntOn(f, S) == \A x \in S : f[x] \in Int

\* Sums are numbers, whatever set the function that has them was made for, and depend on
\* nothing but the terms.
LEMMA SumsAgree ==
    ASSUME NEW S, IsFiniteSet(S), NEW f, NEW e, IntOn(f, S), \A x \in S : f[x] = e[x],
           NEW D, NEW E, SUBSET S \subseteq D, SUBSET S \subseteq E,
           NEW g, SumsOf(g, f, D), NEW h, SumsOf(h, e, E)
    PROVE  g[S] \in Int /\ g[S] = h[S]
<1> DEFINE N == {n \in Nat : \A U \in SUBSET S : Cardinality(U) = n => g[U] \in Int /\ g[U] = h[U]}
<1>0. \A U \in SUBSET S : IsFiniteSet(U) /\ Cardinality(U) \in Nat
  BY FS_Subset, FS_CardinalityType
<1>a. ASSUME NEW U \in SUBSET S
      PROVE  /\ g[U] = IF U = {} THEN 0 ELSE f[One(U)] + g[U \ {One(U)}]
             /\ h[U] = IF U = {} THEN 0 ELSE e[One(U)] + h[U \ {One(U)}]
  BY DEF SumsOf
<1>1. 0 \in N
  <2>1. ASSUME NEW U \in SUBSET S, Cardinality(U) = 0
        PROVE  U = {}
    BY <1>0, <2>1, FS_EmptySet
  <2>2. ASSUME NEW U \in SUBSET S, Cardinality(U) = 0
        PROVE  g[U] = 0 /\ h[U] = 0
    BY <1>a, <2>1, <2>2
  <2> QED BY <2>2
<1>2. ASSUME NEW n \in Nat, n \in N
      PROVE  n + 1 \in N
  <2> SUFFICES ASSUME NEW U \in SUBSET S, Cardinality(U) = n + 1
               PROVE  g[U] \in Int /\ g[U] = h[U]
    OBVIOUS
  <2>1. U # {} /\ IsFiniteSet(U)
    BY <1>0, FS_EmptySet
  <2>2. One(U) \in U
    BY <2>1 DEF One
  <2>3. U \ {One(U)} \in SUBSET S /\ Cardinality(U \ {One(U)}) = n
    BY <2>1, <2>2, OneLess
  <2>4. g[U \ {One(U)}] \in Int /\ g[U \ {One(U)}] = h[U \ {One(U)}]
    BY <1>2, <2>3
  <2>5. f[One(U)] \in Int /\ f[One(U)] = e[One(U)]
    BY <2>2 DEF IntOn
  <2>6. g[U] = f[One(U)] + g[U \ {One(U)}] /\ h[U] = e[One(U)] + h[U \ {One(U)}]
    BY <1>a, <2>1
  <2> QED BY <2>4, <2>5, <2>6
<1>3. Nat \subseteq N
  <2> HIDE DEF N
  <2> QED BY <1>1, <1>2, Induction
<1> QED BY <1>0, <1>3

\* A sum is that of its terms.
LEMMA SumSame ==
    ASSUME NEW S, IsFiniteSet(S), NEW f, NEW e, IntOn(f, S), \A x \in S : f[x] = e[x]
    PROVE  SumFunctionOnSet(f, S) \in Int /\ SumFunctionOnSet(f, S) = SumFunctionOnSet(e, S)
<1>1. PICK g : SumsOf(g, f, SUBSET S) /\ SumFunctionOnSet(f, S) = g[S]
  BY SumIsFold
<1>2. PICK h : SumsOf(h, e, SUBSET S) /\ SumFunctionOnSet(e, S) = h[S]
  BY SumIsFold
<1>3. g[S] \in Int /\ g[S] = h[S]
  BY <1>1, <1>2, SumsAgree
<1> QED BY <1>1, <1>2, <1>3

\* Sums with no term, without one term and with one term more.
LEMMA SumEmpty ==
    ASSUME NEW f
    PROVE  SumFunctionOnSet(f, {}) = 0
<1>1. PICK g : SumsOf(g, f, SUBSET {}) /\ SumFunctionOnSet(f, {}) = g[{}]
  BY SumIsFold, FS_EmptySet
<1> QED BY <1>1 DEF SumsOf

LEMMA SumWithout ==
    ASSUME NEW S, IsFiniteSet(S), NEW f, IntOn(f, S), NEW x \in S
    PROVE  /\ SumFunctionOnSet(f, S \ {x}) \in Int
           /\ SumFunctionOnSet(f, S) = f[x] + SumFunctionOnSet(f, S \ {x})
<1>1. PICK g : SumsOf(g, f, SUBSET S) /\ SumFunctionOnSet(f, S) = g[S]
  BY SumIsFold
<1> DEFINE N == {n \in Nat : \A U \in SUBSET S : Cardinality(U) = n =>
                                \A y \in U : g[U] = f[y] + g[U \ {y}]}
<1>0. \A U \in SUBSET S : IsFiniteSet(U) /\ Cardinality(U) \in Nat
  BY FS_Subset, FS_CardinalityType
<1>a. ASSUME NEW U \in SUBSET S
      PROVE  /\ g[U] = IF U = {} THEN 0 ELSE f[One(U)] + g[U \ {One(U)}]
             /\ g[U] \in Int
  <2>1. g[U] = IF U = {} THEN 0 ELSE f[One(U)] + g[U \ {One(U)}]
    BY <1>1 DEF SumsOf
  <2>2. g[U] \in Int
    BY <1>0, <1>1, SumsAgree DEF IntOn
  <2> QED BY <2>1, <2>2
<1>2. 0 \in N
  <2>1. ASSUME NEW U \in SUBSET S, Cardinality(U) = 0
        PROVE  U = {}
    BY <1>0, <2>1, FS_EmptySet
  <2> QED BY <2>1
<1>3. ASSUME NEW n \in Nat, n \in N
      PROVE  n + 1 \in N
  <2> SUFFICES ASSUME NEW U \in SUBSET S, Cardinality(U) = n + 1, NEW y \in U
               PROVE  g[U] = f[y] + g[U \ {y}]
    OBVIOUS
  <2> DEFINE c == One(U)
  <2>1. c \in U /\ IsFiniteSet(U)
    BY <1>0 DEF One
  <2>2. g[U] = f[c] + g[U \ {c}]
    BY <1>a
  <2> HIDE DEF c
  <2>3. CASE y = c
    BY <2>2, <2>3
  <2>4. CASE y # c
    <3>1. /\ U \ {c} \in SUBSET S /\ Cardinality(U \ {c}) = n
          /\ U \ {y} \in SUBSET S /\ Cardinality(U \ {y}) = n
      BY <2>1, OneLess
    <3>2. g[U \ {c}] = f[y] + g[(U \ {c}) \ {y}]
      BY <1>3, <2>4, <3>1
    <3>3. g[U \ {y}] = f[c] + g[(U \ {y}) \ {c}]
      BY <1>3, <2>1, <2>4, <3>1
    <3>4. (U \ {y}) \ {c} = (U \ {c}) \ {y} /\ (U \ {y}) \ {c} \in SUBSET S
      OBVIOUS
    <3>5. g[(U \ {y}) \ {c}] \in Int /\ f[c] \in Int /\ f[y] \in Int
      BY <1>a, <2>1, <3>4 DEF IntOn
    <3> DEFINE rest == g[(U \ {y}) \ {c}]
    <3>6. g[U \ {c}] = f[y] + rest /\ g[U \ {y}] = f[c] + rest
      BY <3>2, <3>3, <3>4
    <3>7. rest \in Int
      BY <3>5
    <3> HIDE DEF rest
    <3> QED BY <2>2, <3>5, <3>6, <3>7
  <2> QED BY <2>3, <2>4
<1>4. Nat \subseteq N
  <2> HIDE DEF N
  <2> QED BY <1>2, <1>3, Induction
<1>5. g[S] = f[x] + g[S \ {x}]
  BY <1>0, <1>4
<1>6. PICK h : SumsOf(h, f, SUBSET (S \ {x})) /\ SumFunctionOnSet(f, S \ {x}) = h[S \ {x}]
  BY SumIsFold, FS_RemoveElement
<1>7. g[S \ {x}] \in Int /\ g[S \ {x}] = h[S \ {x}]
  <2>1. IsFiniteSet(S \ {x}) /\ IntOn(f, S \ {x}) /\ SUBSET (S \ {x}) \subseteq SUBSET S
    BY FS_RemoveElement DEF IntOn
  <2>2. SUBSET (S \ {x}) \subseteq SUBSET (S \ {x}) /\ \A y \in S \ {x} : f[y] = f[y]
    OBVIOUS
  <2>3. SumsOf(g, f, SUBSET S) /\ SumsOf(h, f, SUBSET (S \ {x}))
    BY <1>1, <1>6
  <2> HIDE DEF N
  <2> QED BY <2>1, <2>2, <2>3, SumsAgree
<1> QED BY <1>1, <1>5, <1>6, <1>7

LEMMA SumWith ==
    ASSUME NEW S, IsFiniteSet(S), NEW f, NEW x, x \notin S, IntOn(f, S \union {x})
    PROVE  /\ SumFunctionOnSet(f, S) \in Int
           /\ SumFunctionOnSet(f, S \union {x}) = f[x] + SumFunctionOnSet(f, S)
<1>1. IsFiniteSet(S \union {x}) /\ (S \union {x}) \ {x} = S
  BY FS_AddElement
<1> QED BY <1>1, SumWithout

\* One term changes.
LEMMA SumChange ==
    ASSUME NEW S, IsFiniteSet(S), NEW f, NEW e, IntOn(f, S), IntOn(e, S), NEW x \in S,
           \A y \in S \ {x} : f[y] = e[y]
    PROVE  /\ SumFunctionOnSet(f, S) \in Int
           /\ SumFunctionOnSet(e, S) = SumFunctionOnSet(f, S) + e[x] - f[x]
<1>1. IsFiniteSet(S \ {x}) /\ IntOn(f, S \ {x})
  BY FS_RemoveElement DEF IntOn
<1>2. SumFunctionOnSet(f, S \ {x}) = SumFunctionOnSet(e, S \ {x})
  BY <1>1, SumSame
<1>3. /\ SumFunctionOnSet(f, S \ {x}) \in Int
      /\ SumFunctionOnSet(f, S) = f[x] + SumFunctionOnSet(f, S \ {x})
      /\ SumFunctionOnSet(e, S) = e[x] + SumFunctionOnSet(e, S \ {x})
  BY SumWithout
<1>4. f[x] \in Int /\ e[x] \in Int
  BY DEF IntOn
<1> QED BY <1>2, <1>3, <1>4

\* A larger term by term is larger in sum.
LEMMA SumLess ==
    ASSUME NEW S, IsFiniteSet(S), NEW f, NEW e, IntOn(f, S), IntOn(e, S), \A x \in S : f[x] <= e[x]
    PROVE  SumFunctionOnSet(f, S) <= SumFunctionOnSet(e, S)
<1> DEFINE T == {U \in SUBSET S : SumFunctionOnSet(f, U) <= SumFunctionOnSet(e, U)}
<1>1. {} \in T
  BY SumEmpty
<1>2. ASSUME NEW U \in SUBSET S, U \in T, NEW x \in S \ U
      PROVE  U \union {x} \in T
  <2>1. IsFiniteSet(U)
    BY FS_Subset
  <2>2. IntOn(f, U \union {x}) /\ IntOn(e, U \union {x})
    BY DEF IntOn
  <2>3. /\ SumFunctionOnSet(f, U) \in Int
        /\ SumFunctionOnSet(e, U) \in Int
        /\ SumFunctionOnSet(f, U \union {x}) = f[x] + SumFunctionOnSet(f, U)
        /\ SumFunctionOnSet(e, U \union {x}) = e[x] + SumFunctionOnSet(e, U)
    BY <2>1, <2>2, SumWith
  <2>4. f[x] <= e[x] /\ f[x] \in Int /\ e[x] \in Int
    BY DEF IntOn
  <2> QED BY <1>2, <2>3, <2>4
<1>3. S \in T
  <2> HIDE DEF T
  <2> QED BY <1>1, <1>2, FiniteInduction
<1> QED BY <1>3

\* Sums of natural numbers, of zeros, and over a union.
LEMMA SumNat ==
    ASSUME NEW S, IsFiniteSet(S), NEW f, \A x \in S : f[x] \in Nat
    PROVE  SumFunctionOnSet(f, S) \in Nat
<1> DEFINE T == {U \in SUBSET S : SumFunctionOnSet(f, U) \in Nat}
<1>1. {} \in T
  BY SumEmpty
<1>2. ASSUME NEW U \in SUBSET S, U \in T, NEW x \in S \ U
      PROVE  U \union {x} \in T
  <2>1. IsFiniteSet(U) /\ IntOn(f, U \union {x})
    BY FS_Subset DEF IntOn
  <2>2. SumFunctionOnSet(f, U \union {x}) = f[x] + SumFunctionOnSet(f, U)
    BY <2>1, SumWith
  <2> QED BY <1>2, <2>2
<1>3. S \in T
  <2> HIDE DEF T
  <2> QED BY <1>1, <1>2, FiniteInduction
<1> QED BY <1>3

LEMMA SumZero ==
    ASSUME NEW S, IsFiniteSet(S), NEW f, \A x \in S : f[x] = 0
    PROVE  SumFunctionOnSet(f, S) = 0
<1> DEFINE T == {U \in SUBSET S : SumFunctionOnSet(f, U) = 0}
<1>1. {} \in T
  BY SumEmpty
<1>2. ASSUME NEW U \in SUBSET S, U \in T, NEW x \in S \ U
      PROVE  U \union {x} \in T
  <2>1. IsFiniteSet(U) /\ IntOn(f, U \union {x})
    BY FS_Subset DEF IntOn
  <2>2. SumFunctionOnSet(f, U \union {x}) = f[x] + SumFunctionOnSet(f, U)
    BY <2>1, SumWith
  <2> QED BY <1>2, <2>2
<1>3. S \in T
  <2> HIDE DEF T
  <2> QED BY <1>1, <1>2, FiniteInduction
<1> QED BY <1>3

LEMMA SumUnion ==
    ASSUME NEW S, IsFiniteSet(S), NEW R, IsFiniteSet(R), S \cap R = {}, NEW f, IntOn(f, S \union R)
    PROVE  /\ SumFunctionOnSet(f, S) \in Int /\ SumFunctionOnSet(f, R) \in Int
           /\ SumFunctionOnSet(f, S \union R) = SumFunctionOnSet(f, S) + SumFunctionOnSet(f, R)
<1> DEFINE T == {U \in SUBSET R : SumFunctionOnSet(f, S \union U)
                                      = SumFunctionOnSet(f, S) + SumFunctionOnSet(f, U)}
<1>0. SumFunctionOnSet(f, S) \in Int /\ \A U \in SUBSET R : SumFunctionOnSet(f, U) \in Int
  <2>1. \A U \in SUBSET R : IsFiniteSet(U) /\ IntOn(f, U) /\ IntOn(f, S)
    BY FS_Subset DEF IntOn
  <2> QED BY <2>1, SumSame
<1>1. {} \in T
  BY <1>0, SumEmpty
<1>2. ASSUME NEW U \in SUBSET R, U \in T, NEW x \in R \ U
      PROVE  U \union {x} \in T
  <2>1. /\ IsFiniteSet(U) /\ IntOn(f, U \union {x}) /\ IntOn(f, (S \union U) \union {x})
        /\ x \notin S \union U /\ S \union (U \union {x}) = (S \union U) \union {x}
    BY FS_Subset DEF IntOn
  <2>2. IsFiniteSet(S \union U)
    BY <2>1, FS_Union
  <2>3. SumFunctionOnSet(f, U \union {x}) = f[x] + SumFunctionOnSet(f, U)
    BY <2>1, SumWith
  <2> DEFINE W == S \union U
  <2>4. SumFunctionOnSet(f, W \union {x}) = f[x] + SumFunctionOnSet(f, W)
    <3>1. IsFiniteSet(W) /\ x \notin W /\ IntOn(f, W \union {x})
      BY <2>1, <2>2
    <3> HIDE DEF W
    <3> QED BY <3>1, SumWith
  <2>5. f[x] \in Int
    BY DEF IntOn
  <2>6. SumFunctionOnSet(f, W) = SumFunctionOnSet(f, S) + SumFunctionOnSet(f, U)
    BY <1>2
  <2>7. SumFunctionOnSet(f, W \union {x}) = SumFunctionOnSet(f, S) + SumFunctionOnSet(f, U \union {x})
    BY <1>0, <2>3, <2>4, <2>5, <2>6
  <2> QED BY <2>1, <2>7
<1>3. R \in T
  <2> HIDE DEF T
  <2> QED BY <1>1, <1>2, FiniteInduction
<1> QED BY <1>0, <1>3
-----------------------------------------------------------------------------
(* Fractions.                                                              *)

\* Products keep the order.
LEMMA Products ==
    ASSUME NEW a \in Int, NEW b \in Int, NEW k \in Nat \ {0}
    PROVE  (a <= b <=> a * k <= b * k) /\ (a = b <=> a * k = b * k)
  OBVIOUS

LEMMA Assoc ==
    ASSUME NEW a \in Int, NEW b \in Int, NEW k \in Int
    PROVE  (a * b) * k = (a * k) * b /\ a * b \in Int /\ a * b = b * a
  OBVIOUS

\* Being the larger fraction is transitive, and so is being an equal one.
LEMMA Cross ==
    ASSUME NEW a1 \in Int, NEW a2 \in Int, NEW a3 \in Int,
           NEW n1 \in Nat \ {0}, NEW n2 \in Nat \ {0}, NEW n3 \in Nat \ {0},
           a1 * n2 >= a2 * n1, a2 * n3 >= a3 * n2
    PROVE  /\ a1 * n3 >= a3 * n1
           /\ a1 * n3 = a3 * n1 => a1 * n2 = a2 * n1 /\ a2 * n3 = a3 * n2
<1> DEFINE x == a1 * n3
           y == a3 * n1
           u == a1 * n2
           v == a2 * n1
           w == a2 * n3
           z == a3 * n2
<1>1. u * n3 = x * n2 /\ v * n3 = w * n1 /\ z * n1 = y * n2
  OBVIOUS
<1>2. x \in Int /\ y \in Int /\ u \in Int /\ v \in Int /\ w \in Int /\ z \in Int
  OBVIOUS
<1> HIDE DEF x, y, u, v, w, z
<1>3. v <= u /\ z <= w
  BY DEF x, y, u, v, w, z
<1>4. v * n3 <= u * n3 /\ z * n1 <= w * n1
  BY <1>2, <1>3, Products
<1>5. y * n2 <= x * n2
  <2>1. y * n2 \in Int /\ v * n3 \in Int /\ u * n3 \in Int /\ w * n1 \in Int
    BY <1>2
  <2>2. y * n2 <= v * n3 /\ v * n3 <= x * n2
    BY <1>1, <1>4
  <2> DEFINE k == y * n2
             l == v * n3
             m == x * n2
  <2>3. k \in Int /\ l \in Int /\ m \in Int
    BY <1>2
  <2>4. k <= l /\ l <= m
    BY <2>2
  <2> HIDE DEF k, l, m
  <2>5. k <= m
    BY <2>3, <2>4
  <2> QED BY <2>5 DEF k, m
<1>6. y <= x
  BY <1>2, <1>5, Products
<1>7. ASSUME x = y
      PROVE  u = v /\ w = z
  <2>1. v * n3 = u * n3 /\ z * n1 = w * n1
    BY <1>1, <1>4, <1>7, <1>2, Assoc
  <2> QED BY <1>2, <2>1, Products
<1> QED BY <1>6, <1>7 DEF x, y, u, v, w, z
-----------------------------------------------------------------------------
(* Remainders.                                                             *)

LEMMA DivMod ==
    ASSUME NEW a \in Int, NEW w \in Nat \ {0}
    PROVE  a = w * (a \div w) + (a % w) /\ a % w \in 0 .. w - 1 /\ a \div w \in Int
  OBVIOUS

LEMMA ModUnique ==
    ASSUME NEW w \in Nat \ {0}, NEW k \in Int, NEW r \in 0 .. w - 1, NEW l \in Int, NEW s \in 0 .. w - 1,
           w * k + r = w * l + s
    PROVE  r = s
  OBVIOUS

LEMMA ModSame ==
    ASSUME NEW w \in Nat \ {0}, NEW a \in Int, NEW b \in Int, NEW k \in Int, b = a + w * k
    PROVE  b % w = a % w
<1> DEFINE q == a \div w
           r == a % w
           t == b \div w
           s == b % w
<1>1. /\ a = w * q + r /\ r \in 0 .. w - 1 /\ q \in Int
      /\ b = w * t + s /\ s \in 0 .. w - 1 /\ t \in Int
  BY DivMod
<1> HIDE DEF q, r, t, s
<1>2. w * (q + k) + r = w * t + s
  <2>1. w * (q + k) = w * q + w * k
    BY <1>1
  <2> QED BY <1>1, <2>1
<1>3. q + k \in Int
  BY <1>1
<1> DEFINE z == q + k
<1> HIDE DEF z
<1>4. z \in Int /\ w * z + r = w * t + s
  BY <1>2, <1>3 DEF z
<1> QED BY <1>1, <1>4, ModUnique DEF r, s

\* Numbers that both change by b, as numbers below w, keep their difference.
LEMMA ModShift ==
    ASSUME NEW w \in Nat \ {0}, NEW a \in Int, NEW c \in Int, NEW b \in Int
    PROVE  /\ (a + b) % w \in 0 .. w - 1 /\ (c + b) % w \in 0 .. w - 1
           /\ (((a + b) % w) - ((c + b) % w)) % w = (a - c) % w
<1> DEFINE x == a + b
           y == c + b
           r == x % w
           s == y % w
           q == x \div w
           t == y \div w
<1>1. /\ x = w * q + r /\ r \in 0 .. w - 1 /\ q \in Int
      /\ y = w * t + s /\ s \in 0 .. w - 1 /\ t \in Int
  <2>1. x \in Int /\ y \in Int
    OBVIOUS
  <2> HIDE DEF x, y
  <2> QED BY <2>1, DivMod
<1>2. x \in Int /\ y \in Int /\ x - y = a - c
  OBVIOUS
<1> HIDE DEF q, r, t, s, x, y
<1>3. w * (q - t) = w * q - w * t
  BY <1>1
<1> DEFINE d == r - s
           k == q - t
<1>4. d \in Int /\ k \in Int /\ x - y = d + w * k
  BY <1>1, <1>2, <1>3
<1>5. x - y \in Int
  BY <1>2
<1> DEFINE e == x - y
<1> HIDE DEF d, k, e
<1>6. e % w = d % w
  BY <1>4, <1>5, ModSame DEF e
<1> QED BY <1>1, <1>2, <1>6 DEF d, e, x, y, r, s

LEMMA ModTwice ==
    ASSUME NEW w \in Nat \ {0}, NEW a \in Int
    PROVE  a % w \in 0 .. w - 1 /\ (a % w) % w = a % w
<1>1. a % w \in 0 .. w - 1
  BY DivMod
<1> DEFINE r == a % w
<1> HIDE DEF r
<1>2. ASSUME r \in 0 .. w - 1
      PROVE  r % w = r
  BY <1>2
<1> QED BY <1>1, <1>2 DEF r

\* What is the remainder of a sum stays it when both change by the same number.
Congruent(w, x, k, a) == k \in Int /\ a \in 0 .. w - 1 /\ a = x % w
SameGap(w, a, k, b, l) == l \in Int /\ b \in 0 .. w - 1 /\ (b - l) % w = (a - k) % w

\* A sum and a total that agree modulo w still agree when a term and the total change alike.
LEMMA ModBalance ==
    ASSUME NEW w \in Nat \ {0}, NEW x \in Int, NEW k, NEW l, NEW a, NEW b,
           Congruent(w, x, k, a), SameGap(w, a, k, b, l), NEW y, y = x + l - k
    PROVE  y % w = b
<1> DEFINE q == x \div w
           c == b - l
           d == a - k
           s == c \div w
           t == d \div w
           r == c % w
<1>0. k \in Int /\ l \in Int /\ a \in 0 .. w - 1 /\ b \in 0 .. w - 1
  BY DEF Congruent, SameGap
<1>1. x = w * q + a /\ q \in Int
  BY DivMod DEF Congruent
<1>2. c \in Int /\ d \in Int
  BY <1>0
<1>3. c = w * s + r /\ d = w * t + r /\ s \in Int /\ t \in Int /\ r \in Int
  <2> HIDE DEF c, d
  <2>0. c = w * (c \div w) + (c % w) /\ c \div w \in Int /\ c % w \in 0 .. w - 1
    BY <1>2, DivMod
  <2>1. c = w * (c \div w) + (c % w) /\ c \div w \in Int /\ c % w \in Int
    BY <2>0
  <2>2. d = w * (d \div w) + (d % w) /\ d \div w \in Int
    BY <1>2, DivMod
  <2>3. c % w = d % w
    BY DEF c, d, SameGap
  <2> QED BY <2>1, <2>2, <2>3
<1> HIDE DEF q, s, t, r
<1>4. a - k = w * t + r /\ b - l = w * s + r
  BY <1>3
<1> HIDE DEF c, d
<1> DEFINE z == (q + t) - s
           u == w * q
           v == w * s
           e == w * t
<1>5. w * z = (u + e) - v /\ u \in Int /\ v \in Int /\ e \in Int /\ z \in Int
  BY <1>1, <1>3
<1>6. x = u + a /\ a - k = e + r /\ b - l = v + r /\ a \in Int /\ b \in Int
  BY <1>0, <1>1, <1>4
<1> HIDE DEF z, u, v, e
<1>7. y = b + w * z
  BY <1>0, <1>3, <1>5, <1>6
<1>8. y \in Int /\ b \in Int
  BY <1>0
<1>9. y % w = b % w
  BY <1>5, <1>7, <1>8, ModSame
<1>10. b % w = b
  BY <1>0
<1> QED BY <1>9, <1>10
=============================================================================
