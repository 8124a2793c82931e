------------------------- MODULE ThreadCacheProofs --------------------------
(***************************************************************************)
(* ThreadCache keeps track of every object, for any threads, arenas, bins  *)
(* and objects.  The first lemmas are what the loops of the code compute.  *)
(***************************************************************************)
EXTENDS ThreadCache, LoopsAndSums, SequenceTheorems
-----------------------------------------------------------------------------
(* What the operators return. *)

Shifts(f, n, k) ==
    f[0] = n /\ (\A i \in 1 .. k : f[i] = f[i - 1] \div 2) /\ ShiftRight(n, k) = f[k]

LEMMA ShiftLoop ==
    ASSUME NEW n \in Nat, NEW k \in Nat
    PROVE  \E f : Shifts(f, n, k)
<1> DEFINE Shifted(f) == f = [i \in 0 .. k |-> IF i = 0 THEN n ELSE f[i - 1] \div 2]
           halve == [i \in Nat |-> [m \in Nat |-> m \div 2]]
<1>1. halve \in [Nat -> [Nat -> Nat]]
  OBVIOUS
<1>2. PICK f \in [0 .. k -> Nat] : Loops(f, n, halve, k)
  <2> HIDE DEF halve
  <2> QED BY <1>1, LoopExists
<1>3. \A i \in 1 .. k : f[i] = f[i - 1] \div 2
  <2> TAKE i \in 1 .. k
  <2>1. i \in Nat /\ i - 1 \in 0 .. k /\ f[i - 1] \in Nat
    OBVIOUS
  <2>2. halve[i][f[i - 1]] = f[i - 1] \div 2
    BY <2>1
  <2> QED BY <1>2, <2>2 DEF Loops
<1>4. Shifted(f)
  BY <1>2, <1>3 DEF Loops
<1> DEFINE g == CHOOSE g : Shifted(g)
<1>5. Shifted(g)
  <2> HIDE DEF Shifted
  <2> QED BY <1>4
<1>6. ShiftRight(n, k) = g[k]
  BY DEF ShiftRight
<1> HIDE DEF g
<1>7. g[0] = n /\ \A i \in 1 .. k : g[i] = g[i - 1] \div 2
  BY <1>5
<1> QED BY <1>6, <1>7 DEF Shifts

\* A shift halves, and never makes a number larger.
LEMMA ShiftRightHalves ==
    ASSUME NEW n \in Nat, NEW k \in Nat
    PROVE  /\ ShiftRight(n, k) \in 0 .. n
           /\ ShiftRight(n, k + 1) = ShiftRight(n, k) \div 2
           /\ ShiftRight(n, 0) = n
<1>1. PICK f : Shifts(f, n, k)
  BY ShiftLoop
<1>2. PICK g : Shifts(g, n, k + 1)
  <2>1. k + 1 \in Nat
    OBVIOUS
  <2> QED BY <2>1, ShiftLoop
<1>3. PICK h : Shifts(h, n, 0)
  <2>1. 0 \in Nat
    OBVIOUS
  <2> QED BY <2>1, ShiftLoop
<1> DEFINE T == {i \in Nat : i <= k => f[i] = g[i] /\ f[i] \in 0 .. n}
<1>4. 0 \in T
  BY <1>1, <1>2 DEF Shifts
<1>5. ASSUME NEW i \in Nat, i \in T
      PROVE  i + 1 \in T
  <2>1. CASE i + 1 <= k
    <3>1. f[i + 1] = f[i] \div 2 /\ g[i + 1] = g[i] \div 2
      BY <1>1, <1>2, <2>1 DEF Shifts
    <3>2. f[i] = g[i] /\ f[i] \in 0 .. n
      BY <1>5, <2>1
    <3>3. f[i] \div 2 \in 0 .. n
      BY <3>2
    <3> QED BY <3>1, <3>2, <3>3
  <2>2. CASE ~ (i + 1 <= k)
    BY <2>2
  <2> QED BY <2>1, <2>2
<1>6. k \in T
  BY <1>4, <1>5, Induction
<1>7. g[k + 1] = g[k] \div 2
  BY <1>2 DEF Shifts
<1> QED BY <1>1, <1>2, <1>3, <1>6, <1>7 DEF Shifts

\* A pass keeps, in their order, the objects of other arenas than the first one's: fewer than it
\* looks at, each one once.
LEMMA DeferredLoop ==
    ASSUME NEW avail \in Seq(Objects), NEW n \in 1 .. Len(avail)
    PROVE  \E f : /\ f[0] = <<>>
                  /\ \A i \in 1 .. n : f[i] = IF avail[i].arena = avail[1].arena THEN f[i - 1]
                                              ELSE Append(f[i - 1], avail[i])
                  /\ Deferred(avail, n) = f[n]
<1> DEFINE Kept(f) == f = [i \in 0 .. n |->
                              IF i = 0 THEN <<>>
                              ELSE IF avail[i].arena = avail[1].arena THEN f[i - 1]
                              ELSE Append(f[i - 1], avail[i])]
           Object(i) == IF i \in 1 .. n THEN avail[i] ELSE avail[1]
           step == [i \in Nat |-> [s \in Seq(Objects) |->
                       IF Object(i).arena = avail[1].arena THEN s ELSE Append(s, Object(i))]]
<1>1. step \in [Nat -> [Seq(Objects) -> Seq(Objects)]]
  <2>1. \A i \in Nat : Object(i) \in Objects
    OBVIOUS
  <2> HIDE DEF Object
  <2> QED BY <2>1
<1>2. <<>> \in Seq(Objects) /\ n \in Nat
  OBVIOUS
<1>3. PICK f \in [0 .. n -> Seq(Objects)] : Loops(f, <<>>, step, n)
  <2> HIDE DEF step
  <2> QED BY <1>1, <1>2, LoopExists
<1>4. \A i \in 1 .. n : f[i] = IF avail[i].arena = avail[1].arena THEN f[i - 1]
                               ELSE Append(f[i - 1], avail[i])
  <2> TAKE i \in 1 .. n
  <2>1. i \in Nat /\ i - 1 \in 0 .. n /\ f[i - 1] \in Seq(Objects) /\ Object(i) = avail[i]
    OBVIOUS
  <2> HIDE DEF Object
  <2>2. step[i][f[i - 1]] = IF avail[i].arena = avail[1].arena THEN f[i - 1]
                            ELSE Append(f[i - 1], avail[i])
    BY <2>1
  <2> QED BY <1>3, <2>2 DEF Loops
<1>5. Kept(f)
  <2>1. \A i \in 0 .. n : f[i] = IF i = 0 THEN <<>>
                                 ELSE IF avail[i].arena = avail[1].arena THEN f[i - 1]
                                 ELSE Append(f[i - 1], avail[i])
    <3>1. f[0] = <<>>
      BY <1>3 DEF Loops
    <3>2. ASSUME NEW i \in 0 .. n, i # 0
          PROVE  i \in 1 .. n
      BY <3>2
    <3> HIDE DEF Object, step
    <3> QED BY <1>4, <3>1, <3>2
  <2>2. DOMAIN f = 0 .. n
    BY <1>3
  <2> QED BY <2>1, <2>2
<1> DEFINE g == CHOOSE g : Kept(g)
<1>6. Kept(g)
  <2> HIDE DEF Kept
  <2> QED BY <1>5
<1>7. Deferred(avail, n) = g[n]
  BY DEF Deferred
<1> HIDE DEF g
<1>8. g[0] = <<>> /\ \A i \in 1 .. n : g[i] = IF avail[i].arena = avail[1].arena THEN g[i - 1]
                                              ELSE Append(g[i - 1], avail[i])
  <2>1. 0 \in 0 .. n
    BY <1>2
  <2>2. ASSUME NEW i \in 1 .. n
        PROVE  i \in 0 .. n /\ i # 0
    OBVIOUS
  <2> QED BY <1>6, <2>1, <2>2
<1> QED BY <1>7, <1>8

\* IsInjective for sequences.
Distinct(s) == \A i, j \in 1 .. Len(s) : s[i] = s[j] => i = j

LEMMA DistinctAppend ==
    ASSUME NEW S, NEW s \in Seq(S), Distinct(s), NEW x \in S, \A i \in 1 .. Len(s) : s[i] # x
    PROVE  /\ Append(s, x) \in Seq(S) /\ Len(Append(s, x)) = Len(s) + 1
           /\ Distinct(Append(s, x))
           /\ \A i \in 1 .. Len(s) : Append(s, x)[i] = s[i]
           /\ Append(s, x)[Len(s) + 1] = x
<1>1. /\ Append(s, x) \in Seq(S) /\ Len(Append(s, x)) = Len(s) + 1 /\ Len(s) \in Nat
      /\ \A i \in 1 .. Len(s) : Append(s, x)[i] = s[i]
      /\ Append(s, x)[Len(s) + 1] = x
  OBVIOUS
<1>2. \A i \in 1 .. Len(s) + 1 : i = Len(s) + 1 \/ i \in 1 .. Len(s)
  BY <1>1
<1>3. Distinct(Append(s, x))
  BY <1>1, <1>2 DEF Distinct
<1> QED BY <1>1, <1>3

\* What a pass has deferred of the first i objects.
DeferredOf(s, avail, i) ==
    /\ s \in Seq(Objects) /\ Len(s) <= i /\ (i > 0 => Len(s) < i)
    /\ Distinct(s)
    /\ \A j \in 1 .. Len(s) : \E k \in 1 .. i : s[j] = avail[k]
    /\ \A k \in 1 .. i : avail[k].arena # avail[1].arena => \E j \in 1 .. Len(s) : s[j] = avail[k]

LEMMA DeferredKeeps ==
    ASSUME NEW avail \in Seq(Objects), Distinct(avail), NEW n \in 1 .. Len(avail)
    PROVE  DeferredOf(Deferred(avail, n), avail, n)
<1>1. PICK f : /\ f[0] = <<>>
               /\ \A i \in 1 .. n : f[i] = IF avail[i].arena = avail[1].arena THEN f[i - 1]
                                           ELSE Append(f[i - 1], avail[i])
               /\ Deferred(avail, n) = f[n]
  BY DeferredLoop
<1> DEFINE T == {i \in Nat : i <= n => DeferredOf(f[i], avail, i)}
<1>2. 0 \in T
  <2>1. /\ <<>> \in Seq(Objects) /\ Len(<<>>) = 0 /\ 1 .. 0 = {}
    OBVIOUS
  <2>2. DeferredOf(<<>>, avail, 0)
    BY <2>1 DEF DeferredOf, Distinct
  <2> QED BY <1>1, <2>2
<1>3. ASSUME NEW i \in Nat, i \in T
      PROVE  i + 1 \in T
  <2> SUFFICES ASSUME i + 1 <= n PROVE DeferredOf(f[i + 1], avail, i + 1)
    OBVIOUS
  <2> DEFINE s == f[i]
  <2>1. DeferredOf(s, avail, i) /\ i + 1 \in 1 .. n /\ i + 1 \in 1 .. Len(avail) /\ avail[i + 1] \in Objects
    BY <1>3
  <2>2. f[i + 1] = IF avail[i + 1].arena = avail[1].arena THEN s ELSE Append(s, avail[i + 1])
    <3>1. (i + 1) - 1 = i
      OBVIOUS
    <3> QED BY <1>1, <2>1, <3>1
  <2> HIDE DEF s
  <2>3. \A k \in 1 .. i + 1 : k = i + 1 \/ k \in 1 .. i
    OBVIOUS
  <2>4. CASE avail[i + 1].arena = avail[1].arena
    <3>1. DeferredOf(s, avail, i + 1)
      BY <2>1, <2>3, <2>4 DEF DeferredOf
    <3> QED BY <2>2, <2>4, <3>1
  <2>5. CASE avail[i + 1].arena # avail[1].arena
    <3>1. i # 0
      BY <2>5
    <3>2. \A j \in 1 .. Len(s) : s[j] # avail[i + 1]
      <4>1. \A k \in 1 .. i : avail[k] # avail[i + 1]
        BY <2>1 DEF Distinct
      <4> QED BY <2>1, <4>1 DEF DeferredOf
    <3> DEFINE r == Append(s, avail[i + 1])
    <3>3. /\ r \in Seq(Objects) /\ Len(r) = Len(s) + 1 /\ Distinct(r) /\ Len(s) \in Nat
          /\ \A j \in 1 .. Len(s) : r[j] = s[j]
          /\ r[Len(s) + 1] = avail[i + 1]
      BY <2>1, <3>2, DistinctAppend DEF DeferredOf
    <3> HIDE DEF r
    <3>4. Len(r) < i + 1
      BY <2>1, <3>1, <3>3 DEF DeferredOf
    <3>5. ASSUME NEW j \in 1 .. Len(r)
          PROVE  \E k \in 1 .. i + 1 : r[j] = avail[k]
      <4>1. CASE j = Len(s) + 1
        BY <3>3, <4>1
      <4>2. CASE j # Len(s) + 1
        <5>1. j \in 1 .. Len(s)
          BY <3>3, <4>2
        <5>2. PICK k \in 1 .. i : s[j] = avail[k]
          BY <2>1, <5>1 DEF DeferredOf
        <5> QED BY <3>3, <5>1, <5>2
      <4> QED BY <4>1, <4>2
    <3>6. ASSUME NEW k \in 1 .. i + 1, avail[k].arena # avail[1].arena
          PROVE  \E j \in 1 .. Len(r) : r[j] = avail[k]
      <4>1. CASE k = i + 1
        BY <3>3, <4>1
      <4>2. CASE k \in 1 .. i
        <5>1. PICK j \in 1 .. Len(s) : s[j] = avail[k]
          BY <2>1, <3>6, <4>2 DEF DeferredOf
        <5>2. j \in 1 .. Len(r) /\ r[j] = avail[k]
          BY <3>3, <5>1
        <5> QED BY <5>2
      <4> QED BY <2>3, <4>1, <4>2
    <3>7. DeferredOf(r, avail, i + 1)
      BY <3>3, <3>4, <3>5, <3>6 DEF DeferredOf
    <3> QED BY <2>2, <2>5, <3>7 DEF r
  <2> QED BY <2>4, <2>5
<1>4. n \in Nat /\ n <= n
  OBVIOUS
<1>5. n \in T
  <2> HIDE DEF T
  <2> QED BY <1>2, <1>3, <1>4, Induction
<1> QED BY <1>1, <1>4, <1>5

LEMMA FirstIsIn ==
    ASSUME Configured, NEW os \in SUBSET Objects, os # {}
    PROVE  First(os) \in os
<1> DEFINE numbers == {o.n : o \in os}
<1>1. numbers \in SUBSET Nat /\ numbers # {}
  BY DEF Configured
<1>2. PICK m \in numbers : \A n \in numbers : m <= n
  <2> HIDE DEF numbers
  <2> QED BY <1>1, LeastOf
<1>3. \E o \in os : \A p \in os : o.n <= p.n
  BY <1>2
<1> QED BY <1>3 DEF First

\* A run gives up to k of its free regions, each one once.
LowestLoops(f, os, k) ==
    /\ f[0] = <<>>
    /\ \A i \in 1 .. k : f[i] = IF os \subseteq Range(f[i - 1]) THEN f[i - 1]
                                ELSE Append(f[i - 1], First(os \ Range(f[i - 1])))
    /\ Lowest(os, k) = f[k]

LEMMA LowestLoop ==
    ASSUME Configured, NEW os \in SUBSET Objects, NEW k \in Nat
    PROVE  \E f : LowestLoops(f, os, k)
<1> DEFINE More(s) == IF os \subseteq Range(s) THEN s ELSE Append(s, First(os \ Range(s)))
           Taken(f) == f = [i \in 0 .. k |-> IF i = 0 THEN <<>> ELSE More(f[i - 1])]
           step == [i \in Nat |-> [s \in Seq(os) |-> More(s)]]
<1>1. ASSUME NEW s \in Seq(os)
      PROVE  More(s) \in Seq(os)
  <2>1. CASE os \subseteq Range(s)
    BY <2>1
  <2>2. CASE ~ (os \subseteq Range(s))
    <3>1. First(os \ Range(s)) \in os
      <4>1. os \ Range(s) \in SUBSET Objects /\ os \ Range(s) # {}
        BY <2>2
      <4> QED BY <4>1, FirstIsIn
    <3> QED BY <2>2, <3>1
  <2> QED BY <2>1, <2>2
<1>2. step \in [Nat -> [Seq(os) -> Seq(os)]]
  <2> HIDE DEF More
  <2> QED BY <1>1
<1>3. PICK f \in [0 .. k -> Seq(os)] : Loops(f, <<>>, step, k)
  <2>1. <<>> \in Seq(os)
    OBVIOUS
  <2> HIDE DEF step
  <2> QED BY <1>2, <2>1, LoopExists
<1>4. Taken(f)
  <2>1. f[0] = <<>> /\ DOMAIN f = 0 .. k
    BY <1>3 DEF Loops
  <2>2. ASSUME NEW i \in 0 .. k, i # 0
        PROVE  f[i] = More(f[i - 1])
    <3>1. i \in 1 .. k /\ i \in Nat /\ i - 1 \in 0 .. k /\ f[i - 1] \in Seq(os)
      BY <2>2
    <3>2. f[i] = step[i][f[i - 1]]
      BY <1>3, <3>1 DEF Loops
    <3> HIDE DEF More
    <3> QED BY <3>1, <3>2
  <2> HIDE DEF More
  <2> QED BY <2>1, <2>2
<1> DEFINE g == CHOOSE g : Taken(g)
<1>5. Taken(g)
  <2> HIDE DEF Taken
  <2> QED BY <1>4
<1>6. Lowest(os, k) = g[k]
  BY DEF Lowest
<1> HIDE DEF g
<1>7. g[0] = <<>> /\ \A i \in 1 .. k : g[i] = More(g[i - 1])
  <2>1. 0 \in 0 .. k
    OBVIOUS
  <2>2. ASSUME NEW i \in 1 .. k
        PROVE  i \in 0 .. k /\ i # 0
    OBVIOUS
  <2> HIDE DEF More
  <2> QED BY <1>5, <2>1, <2>2
<1> QED BY <1>6, <1>7 DEF LowestLoops

LEMMA LowestDistinct ==
    ASSUME Configured, NEW os \in SUBSET Objects, NEW k \in Nat
    PROVE  /\ Lowest(os, k) \in Seq(os) /\ Len(Lowest(os, k)) <= k
           /\ Distinct(Lowest(os, k))
<1>1. PICK f : LowestLoops(f, os, k)
  BY LowestLoop
<1> DEFINE Good(s, i) == s \in Seq(os) /\ Len(s) <= i /\ Distinct(s)
           T == {i \in Nat : i <= k => Good(f[i], i)}
<1>2. 0 \in T
  <2>1. /\ <<>> \in Seq(os) /\ Len(<<>>) = 0 /\ 1 .. 0 = {}
    OBVIOUS
  <2>2. Good(<<>>, 0)
    BY <2>1 DEF Distinct
  <2>3. f[0] = <<>>
    BY <1>1 DEF LowestLoops
  <2> HIDE DEF Good
  <2> QED BY <2>2, <2>3
<1>3. ASSUME NEW i \in Nat, i \in T
      PROVE  i + 1 \in T
  <2> SUFFICES ASSUME i + 1 <= k PROVE Good(f[i + 1], i + 1)
    OBVIOUS
  <2> DEFINE s == f[i]
  <2>1. Good(s, i)
    BY <1>3
  <2>2. f[i + 1] = IF os \subseteq Range(s) THEN s ELSE Append(s, First(os \ Range(s)))
    <3>1. (i + 1) - 1 = i /\ i + 1 \in 1 .. k
      OBVIOUS
    <3> QED BY <1>1, <3>1 DEF LowestLoops
  <2> HIDE DEF s
  <2>3. CASE os \subseteq Range(s)
    BY <2>1, <2>2, <2>3
  <2>4. CASE ~ (os \subseteq Range(s))
    <3> DEFINE x == First(os \ Range(s))
    <3>1. x \in os \ Range(s)
      <4>1. os \ Range(s) \in SUBSET Objects /\ os \ Range(s) # {}
        BY <2>4
      <4> QED BY <4>1, FirstIsIn
    <3> HIDE DEF x
    <3>2. \A j \in 1 .. Len(s) : s[j] # x
      BY <2>1, <3>1 DEF Range
    <3>3. Append(s, x) \in Seq(os) /\ Len(Append(s, x)) = Len(s) + 1 /\ Distinct(Append(s, x))
      BY <2>1, <3>1, <3>2, DistinctAppend
    <3>4. f[i + 1] = Append(s, x)
      BY <2>2, <2>4 DEF x
    <3> QED BY <2>1, <3>3, <3>4
  <2> QED BY <2>3, <2>4
<1>4. k \in T
  <2> HIDE DEF T
  <2> QED BY <1>2, <1>3, Induction
<1> QED BY <1>1, <1>4 DEF LowestLoops
-----------------------------------------------------------------------------
(* Stacks. *)

LEMMA StackRange ==
    ASSUME NEW s \in Seq(Objects)
    PROVE  /\ \A x : x \in Range(s) <=> \E i \in 1 .. Len(s) : s[i] = x
           /\ Range(s) \subseteq Objects
           /\ Distinct(s) <=> IsInjective(s)
<1>1. DOMAIN s = 1 .. Len(s) /\ \A i \in 1 .. Len(s) : s[i] \in Objects
  OBVIOUS
<1>2. Range(s) = {s[i] : i \in 1 .. Len(s)}
  BY <1>1 DEF Range
<1>3. Distinct(s) <=> IsInjective(s)
  BY <1>1 DEF Distinct, IsInjective
<1>4. \A x : x \in Range(s) <=> \E i \in 1 .. Len(s) : s[i] = x
  BY <1>2
<1>5. Range(s) \subseteq Objects
  BY <1>1, <1>2
<1> QED BY <1>3, <1>4, <1>5

\* What a pass leaves of a stack, and where it is.
LEMMA PassSplits ==
    ASSUME NEW avail \in Seq(Objects), Distinct(avail), NEW n \in 1 .. Len(avail)
    PROVE  LET d == Deferred(avail, n)
               rest == d \o SubSeq(avail, n + 1, Len(avail))
           IN  /\ rest \in Seq(Objects) /\ Distinct(rest)
               /\ Len(d) \in 0 .. n - 1 /\ Len(rest) = Len(d) + (Len(avail) - n)
               /\ Range(rest) = Range(avail) \ Passed(avail, n)
               /\ Passed(avail, n) \subseteq Range(avail)
               /\ \A o \in Passed(avail, n) : o.arena = avail[1].arena
<1> DEFINE d == Deferred(avail, n)
           tail == SubSeq(avail, n + 1, Len(avail))
           rest == d \o tail
<1>1. DeferredOf(d, avail, n)
  BY DeferredKeeps
<1>2. d \in Seq(Objects) /\ Distinct(d) /\ Len(d) \in 0 .. n - 1
  BY <1>1 DEF DeferredOf
<1>3. /\ tail \in Seq(Objects) /\ Len(tail) = Len(avail) - n
      /\ \A i \in 1 .. Len(tail) : tail[i] = avail[n + i] /\ n + i \in n + 1 .. Len(avail)
  OBVIOUS
<1> HIDE DEF d, tail
<1>4. /\ rest \in Seq(Objects) /\ Len(rest) = Len(d) + Len(tail)
      /\ \A i \in 1 .. Len(d) : i \in 1 .. Len(rest) /\ rest[i] = d[i]
      /\ \A i \in 1 .. Len(tail) : Len(d) + i \in 1 .. Len(rest) /\ rest[Len(d) + i] = tail[i]
      /\ \A i \in 1 .. Len(rest) : i \in 1 .. Len(d) \/ i - Len(d) \in 1 .. Len(tail)
      /\ \A i \in 1 .. Len(rest) : i - Len(d) \in 1 .. Len(tail) => rest[i] = tail[i - Len(d)]
  <2>1. /\ d \in Seq(Objects) /\ tail \in Seq(Objects) /\ Len(d) \in Nat /\ Len(tail) \in Nat
        /\ rest \in Seq(Objects) /\ Len(rest) = Len(d) + Len(tail)
    <3>1. d \in Seq(Objects) /\ tail \in Seq(Objects)
      BY <1>2, <1>3
    <3> QED BY <3>1
  <2>2. \A i \in 1 .. Len(d) + Len(tail) : rest[i] = IF i <= Len(d) THEN d[i] ELSE tail[i - Len(d)]
    BY <2>1, Zenon, ConcatProperties
  <2> HIDE DEF rest
  <2>3. ASSUME NEW i \in 1 .. Len(d)
        PROVE  i \in 1 .. Len(rest) /\ rest[i] = d[i]
    BY <2>1, <2>2
  <2>4. ASSUME NEW i \in 1 .. Len(tail)
        PROVE  Len(d) + i \in 1 .. Len(rest) /\ rest[Len(d) + i] = tail[i]
    <3>1. /\ Len(d) + i \in 1 .. Len(d) + Len(tail) /\ ~ (Len(d) + i <= Len(d))
          /\ (Len(d) + i) - Len(d) = i
      BY <2>1
    <3> QED BY <2>1, <2>2, <3>1
  <2>5. ASSUME NEW i \in 1 .. Len(rest)
        PROVE  /\ i \in 1 .. Len(d) \/ i - Len(d) \in 1 .. Len(tail)
               /\ i - Len(d) \in 1 .. Len(tail) => rest[i] = tail[i - Len(d)]
    <3>1. i \in 1 .. Len(d) + Len(tail) /\ i \in Int
      BY <2>1
    <3>2. rest[i] = IF i <= Len(d) THEN d[i] ELSE tail[i - Len(d)]
      BY <2>2, <3>1
    <3> QED BY <2>1, <3>1, <3>2
  <2> QED BY <2>1, <2>3, <2>4, <2>5
<1> HIDE DEF rest
<1>5. \A j \in 1 .. Len(d) : \E k \in 1 .. n : d[j] = avail[k]
  BY <1>1 DEF DeferredOf
<1>6. ASSUME NEW i \in 1 .. Len(rest), NEW j \in 1 .. Len(rest), rest[i] = rest[j]
      PROVE  i = j
  <2>1. ASSUME NEW x \in 1 .. Len(d), NEW y \in 1 .. Len(tail)
        PROVE  d[x] # tail[y]
    <3>1. PICK k \in 1 .. n : d[x] = avail[k]
      BY <1>5
    <3>2. k \in 1 .. Len(avail) /\ n + y \in 1 .. Len(avail) /\ k # n + y
      BY <1>3
    <3> QED BY <1>3, <3>1, <3>2 DEF Distinct
  <2>2. CASE i \in 1 .. Len(d) /\ j \in 1 .. Len(d)
    BY <1>2, <1>4, <1>6, <2>2 DEF Distinct
  <2>3. CASE i - Len(d) \in 1 .. Len(tail) /\ j - Len(d) \in 1 .. Len(tail)
    <3>1. avail[n + (i - Len(d))] = avail[n + (j - Len(d))]
      BY <1>3, <1>4, <1>6, <2>3
    <3>2. n + (i - Len(d)) \in 1 .. Len(avail) /\ n + (j - Len(d)) \in 1 .. Len(avail)
      BY <1>3, <2>3
    <3>3. n + (i - Len(d)) = n + (j - Len(d))
      BY <3>1, <3>2 DEF Distinct
    <3> QED BY <1>2, <3>3
  <2>4. CASE i \in 1 .. Len(d) /\ j - Len(d) \in 1 .. Len(tail)
    BY <1>4, <1>6, <2>1, <2>4
  <2>5. CASE j \in 1 .. Len(d) /\ i - Len(d) \in 1 .. Len(tail)
    BY <1>4, <1>6, <2>1, <2>5
  <2> QED BY <1>4, <2>2, <2>3, <2>4, <2>5
<1>7. Passed(avail, n) = {avail[i] : i \in 1 .. n} \ Range(d)
  BY DEF Passed, d
<1>8. Passed(avail, n) \subseteq Range(avail)
  BY <1>7, StackRange
<1>9. \A x : x \in Range(rest) <=> (\E j \in 1 .. Len(d) : d[j] = x) \/ (\E j \in 1 .. Len(tail) : tail[j] = x)
  <2>1. ASSUME NEW x, x \in Range(rest)
        PROVE  (\E j \in 1 .. Len(d) : d[j] = x) \/ (\E j \in 1 .. Len(tail) : tail[j] = x)
    <3>1. PICK i \in 1 .. Len(rest) : rest[i] = x
      BY <1>4, <2>1, StackRange
    <3> QED BY <1>4, <3>1
  <2>2. ASSUME NEW j \in 1 .. Len(d)
        PROVE  d[j] \in Range(rest)
    BY <1>4, StackRange
  <2>3. ASSUME NEW j \in 1 .. Len(tail)
        PROVE  tail[j] \in Range(rest)
    BY <1>4, StackRange
  <2> QED BY <2>1, <2>2, <2>3
<1>10. ASSUME NEW x \in Range(rest)
       PROVE  x \in Range(avail) \ Passed(avail, n)
  <2>1. CASE \E j \in 1 .. Len(d) : d[j] = x
    <3>1. x \in Range(d)
      BY <1>2, <2>1, StackRange
    <3>2. x \in Range(avail)
      BY <1>5, <2>1, StackRange
    <3> QED BY <1>7, <3>1, <3>2
  <2>2. CASE \E j \in 1 .. Len(tail) : tail[j] = x
    <3>1. PICK j \in 1 .. Len(tail) : tail[j] = x
      BY <2>2
    <3>2. x = avail[n + j] /\ n + j \in n + 1 .. Len(avail) /\ n + j \in 1 .. Len(avail)
      BY <1>3, <3>1
    <3>3. \A k \in 1 .. n : avail[k] # x
      <4>1. \A k \in 1 .. n : k \in 1 .. Len(avail) /\ k # n + j
        BY <3>2
      <4> QED BY <3>2, <4>1 DEF Distinct
    <3>4. x \in Range(avail)
      BY <3>2, StackRange
    <3> QED BY <1>7, <3>3, <3>4
  <2> QED BY <1>9, <2>1, <2>2
<1>11. ASSUME NEW x \in Range(avail), x \notin Passed(avail, n)
       PROVE  x \in Range(rest)
  <2>1. PICK i \in 1 .. Len(avail) : avail[i] = x
    BY StackRange
  <2>2. CASE i \in 1 .. n
    <3>1. x \in Range(d)
      BY <1>7, <1>11, <2>1, <2>2
    <3> QED BY <1>2, <1>9, <3>1, StackRange
  <2>3. CASE i \notin 1 .. n
    <3>1. i - n \in 1 .. Len(tail) /\ n + (i - n) = i
      BY <1>3, <2>3
    <3> QED BY <1>3, <1>9, <2>1, <3>1
  <2> QED BY <2>2, <2>3
<1>12. ASSUME NEW o \in Passed(avail, n)
       PROVE  o.arena = avail[1].arena
  <2>1. PICK k \in 1 .. n : avail[k] = o
    BY <1>7
  <2>2. CASE avail[k].arena # avail[1].arena
    <3>1. PICK j \in 1 .. Len(d) : d[j] = avail[k]
      BY <1>1, <2>2 DEF DeferredOf
    <3>2. o \in Range(d)
      BY <1>2, <2>1, <3>1, StackRange
    <3> QED BY <1>7, <3>2
  <2> QED BY <2>1, <2>2
<1>13. Range(rest) = Range(avail) \ Passed(avail, n)
  BY <1>10, <1>11
<1>14. Distinct(rest)
  BY <1>6 DEF Distinct
<1>15. Len(rest) = Len(d) + (Len(avail) - n)
  BY <1>3, <1>4
<1> QED BY <1>2, <1>4, <1>8, <1>12, <1>13, <1>14, <1>15 DEF rest, d, tail
-----------------------------------------------------------------------------
(* Caches, and the flush a thread is in. *)

Bin == [avail : Seq(Objects), low : Int, div : Nat \ {0}]
Cache == [bins : [Bins -> Bin], ev : Int, next : Bins]
Ends == {"null", "disabled", "purgatory"}
Work == [b : 0 .. NHBins, n : Nat, then : {"idle", "push", "gc"} \union Ends,
         o : SUBSET Objects, ret : SUBSET Objects]

\* A bin's stack holds objects of the bin, each once, and no more than there is room for.
Orderly(x, b) ==
    /\ Distinct(x.avail) /\ Len(x.avail) <= CachedMax[b]
    /\ \A i \in 1 .. Len(x.avail) : x.avail[i].bin = b
    /\ b <= NBins => ShiftRight(CachedMax[b], x.div) >= 1

OrderlyCache(c) == c \in Cache /\ \A b \in Bins : Orderly(c.bins[b], b)
Settled(c, B) == \A b \in B : c.bins[b].low <= Len(c.bins[b].avail)
Stacked(c) == UNION {Range(c.bins[b].avail) : b \in Bins}

\* The flush w goes with the cache c: there is enough to flush, and what is in hand is what the
\* end of the flush takes care of.
Fits(w, c) ==
    /\ w \in Work
    /\ w.n = 0 => w = Idle /\ Settled(c, Bins)
    /\ w.n > 0 => /\ w.b \in Bins /\ w.n <= Len(c.bins[w.b].avail)
                  /\ w.then # "idle" /\ Settled(c, Bins \ {w.b})
                  /\ w.then = "push" => w.ret = {} /\ \E x \in Objects : w.o = {x} /\ x.bin = w.b
                  /\ w.then # "push" => w.o = {}
                  /\ w.then \in Ends => w.ret = {}

Hand(w) == w.o \union w.ret

LEMMA InStack ==
    ASSUME NEW c \in Cache
    PROVE  /\ \A x : x \in Stacked(c) <=> \E b \in Bins : x \in Range(c.bins[b].avail)
           /\ Stacked(c) \subseteq Objects
           /\ \A b \in Bins : /\ c.bins[b] \in Bin
                              /\ c.bins[b].avail \in Seq(Objects)
                              /\ Len(c.bins[b].avail) \in Nat
                              /\ Range(c.bins[b].avail) \subseteq Stacked(c)
<1>1. \A b \in Bins : /\ c.bins[b] \in Bin /\ c.bins[b].avail \in Seq(Objects)
                      /\ Len(c.bins[b].avail) \in Nat
  BY DEF Cache, Bin
<1>2. \A b \in Bins : Range(c.bins[b].avail) \subseteq Objects
  BY <1>1, StackRange
<1> QED BY <1>1, <1>2 DEF Stacked

\* An object's bin tells which stack it is in.
LEMMA InItsBin ==
    ASSUME NEW c, OrderlyCache(c), NEW b \in Bins
    PROVE  \A x \in Range(c.bins[b].avail) : x.bin = b
<1>1. c.bins[b].avail \in Seq(Objects)
  BY InStack DEF OrderlyCache
<1> QED BY <1>1, StackRange DEF OrderlyCache, Orderly

\* A change of one stack of a cache.
LEMMA StackChanged ==
    ASSUME NEW c, OrderlyCache(c), NEW b \in Bins, NEW x \in Bin, Orderly(x, b),
           NEW d \in Cache, d.bins[b] = x, \A k \in Bins : k # b => d.bins[k] = c.bins[k]
    PROVE  /\ OrderlyCache(d)
           /\ Stacked(d) = (Stacked(c) \ Range(c.bins[b].avail)) \union Range(x.avail)
<1>1. d.bins[b] = x /\ \A k \in Bins : k # b => d.bins[k] = c.bins[k]
  OBVIOUS
<1>2. OrderlyCache(d)
  <2>1. ASSUME NEW k \in Bins
        PROVE  Orderly(d.bins[k], k)
    BY <1>1 DEF OrderlyCache
  <2> QED BY <2>1 DEF OrderlyCache
<1>3. c \in Cache
  BY DEF OrderlyCache
<1>4. ASSUME NEW o, o \in Stacked(d)
      PROVE  o \in (Stacked(c) \ Range(c.bins[b].avail)) \union Range(x.avail)
  <2>1. PICK k \in Bins : o \in Range(d.bins[k].avail)
    BY <1>4, InStack
  <2>2. CASE k = b
    BY <1>1, <2>1, <2>2
  <2>3. CASE k # b
    <3>1. o \in Range(c.bins[k].avail) /\ o.bin = k
      BY <1>1, <2>1, <2>3, InItsBin
    <3>2. o \notin Range(c.bins[b].avail)
      BY <2>3, <3>1, InItsBin
    <3> QED BY <1>3, <3>1, <3>2, InStack
  <2> QED BY <2>2, <2>3
<1>5. ASSUME NEW o \in Stacked(c), o \notin Range(c.bins[b].avail)
      PROVE  o \in Stacked(d)
  <2>1. PICK k \in Bins : o \in Range(c.bins[k].avail)
    BY <1>3, InStack
  <2>2. k # b
    BY <1>5, <2>1
  <2> QED BY <1>1, <2>1, <2>2, InStack
<1>6. Range(x.avail) \subseteq Stacked(d)
  BY <1>1, InStack
<1> QED BY <1>1, <1>2, <1>4, <1>5, <1>6

LEMMA NewCacheOrderly ==
    ASSUME Configured
    PROVE  /\ OrderlyCache(NewCache) /\ Settled(NewCache, Bins) /\ Stacked(NewCache) = {}
           /\ \A b \in Bins : NewCache.bins[b].avail = <<>>
<1>1. EmptyBin \in Bin /\ EmptyBin.avail = <<>> /\ EmptyBin.low = 0 /\ EmptyBin.div = 1
  BY DEF EmptyBin, Bin
<1>2. /\ NewCache \in Cache /\ \A b \in Bins : NewCache.bins[b] = EmptyBin
  <2>1. 1 \in Bins
    BY DEF Configured, Bins
  <2> QED BY <1>1, <2>1 DEF NewCache, Cache
<1>3. ASSUME NEW b \in Bins
      PROVE  Orderly(EmptyBin, b)
  <2>1. CachedMax[b] \in Nat /\ (b <= NBins => CachedMax[b] >= 2)
    BY DEF Configured, Bins
  <2>2. ShiftRight(CachedMax[b], 1) = CachedMax[b] \div 2
    <3>1. 0 \in Nat /\ 0 + 1 = 1
      OBVIOUS
    <3>2. /\ ShiftRight(CachedMax[b], 0 + 1) = ShiftRight(CachedMax[b], 0) \div 2
          /\ ShiftRight(CachedMax[b], 0) = CachedMax[b]
      BY <2>1, <3>1, ShiftRightHalves
    <3> QED BY <3>1, <3>2
  <2>3. b <= NBins => ShiftRight(CachedMax[b], 1) >= 1
    BY <2>1, <2>2
  <2>4. Len(<<>>) = 0 /\ 1 .. 0 = {}
    OBVIOUS
  <2> QED BY <1>1, <2>1, <2>3, <2>4 DEF Orderly, Distinct
<1>4. OrderlyCache(NewCache)
  BY <1>2, <1>3 DEF OrderlyCache
<1>5. Len(<<>>) = 0 /\ Range(<<>>) = {}
  BY DEF Range
<1>6. Settled(NewCache, Bins)
  BY <1>1, <1>2, <1>5 DEF Settled
<1>7. Stacked(NewCache) = {}
  BY <1>1, <1>2, <1>5 DEF Stacked
<1> QED BY <1>1, <1>2, <1>4, <1>6, <1>7

\* Collecting moves no object, and leaves how much a bin fills at one at least.
LEMMA CollectedKeeps ==
    ASSUME Configured, NEW c, OrderlyCache(c), Settled(c, Bins \ {c.next})
    PROVE  /\ OrderlyCache(Collected(c)) /\ Settled(Collected(c), Bins)
           /\ Stacked(Collected(c)) = Stacked(c)
<1> DEFINE b == c.next
           bin == c.bins[b]
           div == IF bin.low > 0
                  THEN IF ShiftRight(CachedMax[b], bin.div + 1) >= 1 THEN bin.div + 1 ELSE bin.div
                  ELSE IF bin.low < 0 /\ bin.div > 1 THEN bin.div - 1 ELSE bin.div
           x == [bin EXCEPT !.div = div, !.low = Len(bin.avail)]
           d == Collected(c)
<1>1. /\ c \in Cache /\ b \in Bins /\ bin \in Bin /\ Orderly(bin, b)
      /\ bin.avail \in Seq(Objects) /\ bin.low \in Int /\ bin.div \in Nat \ {0}
      /\ Len(bin.avail) \in Nat
  BY DEF OrderlyCache, Cache, Bin
<1>2. CachedMax[b] \in Nat
  BY <1>1 DEF Configured
<1> HIDE DEF b
<1>3. div \in Nat \ {0}
  BY <1>1
<1>4. b <= NBins => ShiftRight(CachedMax[b], div) >= 1
  <2> SUFFICES ASSUME b <= NBins PROVE ShiftRight(CachedMax[b], div) >= 1
    OBVIOUS
  <2>1. ShiftRight(CachedMax[b], bin.div) >= 1
    BY <1>1 DEF Orderly
  <2>2. CASE div = bin.div
    BY <2>1, <2>2
  <2>3. CASE div = bin.div + 1 /\ bin.div + 1 # bin.div /\ div # bin.div - 1
    BY <2>3
  <2>4. CASE div = bin.div - 1 /\ bin.div > 1
    <3>1. bin.div - 1 \in Nat /\ (bin.div - 1) + 1 = bin.div
      BY <1>1, <2>4
    <3>2. /\ ShiftRight(CachedMax[b], (bin.div - 1) + 1) = ShiftRight(CachedMax[b], bin.div - 1) \div 2
          /\ ShiftRight(CachedMax[b], bin.div - 1) \in 0 .. CachedMax[b]
      BY <1>2, <3>1, ShiftRightHalves
    <3>3. ShiftRight(CachedMax[b], bin.div - 1) \in Nat
      BY <1>2, <3>2
    <3>4. ShiftRight(CachedMax[b], bin.div - 1) >= 1
      BY <2>1, <3>1, <3>2, <3>3
    <3> QED BY <2>4, <3>4
  <2> QED BY <1>1, <2>2, <2>3, <2>4
<1> HIDE DEF div
<1>5. /\ x \in Bin /\ x.avail = bin.avail /\ x.low = Len(bin.avail) /\ x.div = div
  <2>1. bin \in Bin /\ Len(bin.avail) \in Int
    BY <1>1
  <2> HIDE DEF bin
  <2> QED BY <1>3, <2>1 DEF Bin
<1>6. Orderly(x, b)
  BY <1>1, <1>4, <1>5 DEF Orderly
<1>7. d.bins = [c.bins EXCEPT ![b] = x] /\ d \in Cache
  <2>1. d = [bins |-> [c.bins EXCEPT ![b] = x], ev |-> 0, next |-> IF b = NHBins THEN 1 ELSE b + 1]
    <3>1. [c.bins EXCEPT ![b].div = div, ![b].low = Len(bin.avail)] = [c.bins EXCEPT ![b] = x]
      BY <1>1 DEF Cache, Bin
    <3> QED BY <3>1 DEF Collected, b, div
  <2>2. [c.bins EXCEPT ![b] = x] \in [Bins -> Bin]
    BY <1>1, <1>5 DEF Cache
  <2>3. (IF b = NHBins THEN 1 ELSE b + 1) \in Bins
    BY <1>1 DEF Bins, Configured
  <2> HIDE DEF d, x
  <2> QED BY <2>1, <2>2, <2>3 DEF Cache
<1> HIDE DEF x, d
<1>8. /\ OrderlyCache(d) /\ d.bins[b] = x
      /\ \A k \in Bins : k # b => d.bins[k] = c.bins[k]
      /\ Stacked(d) = (Stacked(c) \ Range(bin.avail)) \union Range(x.avail)
  <2>1. d.bins[b] = x /\ \A k \in Bins : k # b => d.bins[k] = c.bins[k]
    BY <1>1, <1>7 DEF Cache
  <2>2. b \in Bins /\ x \in Bin /\ d \in Cache
    BY <1>1, <1>5, <1>7
  <2>3. /\ OrderlyCache(d)
        /\ Stacked(d) = (Stacked(c) \ Range(c.bins[b].avail)) \union Range(x.avail)
    BY <1>6, <2>1, <2>2, StackChanged
  <2> QED BY <2>1, <2>3
<1>9. Stacked(d) = Stacked(c)
  <2>1. Range(bin.avail) \subseteq Stacked(c)
    BY <1>1, InStack
  <2> QED BY <1>5, <1>8, <2>1
<1>10. Settled(d, Bins)
  <2>1. ASSUME NEW k \in Bins
        PROVE  d.bins[k].low <= Len(d.bins[k].avail)
    <3>1. CASE k = b
      BY <1>1, <1>5, <1>8, <3>1
    <3>2. CASE k # b
      BY <1>8, <3>2 DEF Settled, b
    <3> QED BY <3>1, <3>2
  <2> QED BY <2>1 DEF Settled
<1> QED BY <1>8, <1>9, <1>10 DEF d

LEMMA SameBins ==
    ASSUME NEW c, OrderlyCache(c), NEW k \in Cache, k.bins = c.bins
    PROVE  OrderlyCache(k) /\ Stacked(k) = Stacked(c) /\ \A B : Settled(k, B) <=> Settled(c, B)
  BY DEF OrderlyCache, Stacked, Settled

LEMMA IdleFits ==
    ASSUME Configured, NEW c, Settled(c, Bins)
    PROVE  Fits(Idle, c) /\ Hand(Idle) = {}
<1>1. Idle \in Work
  BY DEF Idle, Work, Ends, Configured
<1> QED BY <1>1 DEF Fits, Hand, Idle

LEMMA SurplusFits ==
    ASSUME NEW x \in Bin, x.low <= Len(x.avail)
    PROVE  Surplus(x) \in 0 .. Len(x.avail)
<1>1. x.low \in Int /\ Len(x.avail) \in Nat
  BY DEF Bin
<1>2. x.low > 0 => x.low - x.low \div 4 \in 0 .. Len(x.avail)
  BY <1>1
<1> QED BY <1>1, <1>2 DEF Surplus

\* After an operation on the cache c the thread has a cache with the same objects, and the
\* program has the object of the operation unless a flush comes first.
LEMMA EventKeeps ==
    ASSUME Configured, NEW t \in Threads, NEW c, OrderlyCache(c), Settled(c, Bins),
           NEW others, NEW ret \in SUBSET Objects, Event(t, c, others, ret)
    PROVE  \E d, w : /\ cache' = [cache EXCEPT ![t] = d] /\ work' = [work EXCEPT ![t] = w]
                     /\ OrderlyCache(d) /\ Fits(w, d) /\ Stacked(d) = Stacked(c)
                     /\ \/ live' = others \union ret /\ Hand(w) = {}
                        \/ live' = others /\ Hand(w) = ret
<1> DEFINE k == [c EXCEPT !.ev = @ + 1]
           n == Surplus(k.bins[k.next])
           w == [b |-> k.next, n |-> n, then |-> "gc", o |-> {}, ret |-> ret]
<1>1. c \in Cache /\ k \in Cache /\ k.bins = c.bins /\ k.next \in Bins
  BY DEF OrderlyCache, Cache
<1>2. OrderlyCache(k) /\ Stacked(k) = Stacked(c) /\ Settled(k, Bins)
  <2> HIDE DEF k
  <2> QED BY <1>1, SameBins
<1>3. CASE k.ev = GcIncr /\ n > 0
  <2>1. cache' = [cache EXCEPT ![t] = k] /\ work' = [work EXCEPT ![t] = w] /\ live' = others
    BY <1>3 DEF Event
  <2> HIDE DEF k
  <2>2. n \in 0 .. Len(k.bins[k.next].avail) /\ Len(k.bins[k.next].avail) \in Nat
    <3>1. k.bins[k.next] \in Bin /\ k.bins[k.next].low <= Len(k.bins[k.next].avail)
      BY <1>1, <1>2, InStack DEF Settled
    <3> QED BY <1>1, <3>1, SurplusFits, InStack
  <2> HIDE DEF n
  <2>3. w \in Work
    BY <1>1, <2>2 DEF Work, Bins
  <2>4. Fits(w, k)
    BY <1>1, <1>2, <1>3, <2>2, <2>3 DEF Fits, Settled, Ends
  <2>5. Hand(w) = ret
    BY DEF Hand
  <2> QED BY <1>2, <2>1, <2>4, <2>5
<1>4. CASE ~ (k.ev = GcIncr /\ n > 0)
  <2> DEFINE d == IF k.ev = GcIncr THEN Collected(k) ELSE k
  <2>1. /\ cache' = [cache EXCEPT ![t] = d] /\ work' = [work EXCEPT ![t] = Idle]
        /\ live' = others \union ret
    BY <1>4 DEF Event
  <2> HIDE DEF k
  <2>2. OrderlyCache(Collected(k)) /\ Settled(Collected(k), Bins) /\ Stacked(Collected(k)) = Stacked(k)
    <3>1. Settled(k, Bins \ {k.next})
      BY <1>2 DEF Settled
    <3> QED BY <1>2, <3>1, CollectedKeeps
  <2>3. OrderlyCache(d) /\ Settled(d, Bins) /\ Stacked(d) = Stacked(c)
    BY <1>2, <2>2
  <2> HIDE DEF d
  <2>4. Fits(Idle, d) /\ Hand(Idle) = {}
    BY <2>3, IdleFits
  <2> QED BY <2>1, <2>3, <2>4
<1> QED BY <1>3, <1>4

\* Destroying goes on with a stack that has objects, and ends the cache when there is none.
LEMMA DestroyKeeps ==
    ASSUME Configured, NEW t \in Threads, NEW c, OrderlyCache(c), Settled(c, Bins),
           NEW final \in Ends, Destroy(t, c, final)
    PROVE  \E d, w : /\ cache' = [cache EXCEPT ![t] = d] /\ work' = [work EXCEPT ![t] = w]
                     /\ OrderlyCache(d) /\ Fits(w, d) /\ Stacked(d) = Stacked(c) /\ Hand(w) = {}
                     /\ \/ /\ w = Idle /\ \A b \in Bins : d.bins[b].avail = <<>>
                           /\ tsd' = [tsd EXCEPT ![t] = final] /\ armed' = [armed EXCEPT ![t] = TRUE]
                        \/ UNCHANGED <<tsd, armed>>
<1>1. c \in Cache
  BY DEF OrderlyCache
<1>2. CASE ToDestroy(c) = {}
  <2>1. \A b \in Bins : c.bins[b].avail = <<>>
    BY <1>2 DEF ToDestroy
  <2>2. Stacked(c) = {}
    <3>1. Range(<<>>) = {}
      BY DEF Range
    <3> QED BY <2>1, <3>1 DEF Stacked
  <2>3. /\ OrderlyCache(NewCache) /\ Settled(NewCache, Bins) /\ Stacked(NewCache) = Stacked(c)
        /\ \A b \in Bins : NewCache.bins[b].avail = <<>>
    BY <2>2, NewCacheOrderly
  <2>4. Fits(Idle, NewCache) /\ Hand(Idle) = {}
    BY <2>3, IdleFits
  <2>5. /\ cache' = [cache EXCEPT ![t] = NewCache] /\ work' = [work EXCEPT ![t] = Idle]
        /\ tsd' = [tsd EXCEPT ![t] = final] /\ armed' = [armed EXCEPT ![t] = TRUE]
    BY <1>2 DEF Destroy
  <2> QED BY <2>3, <2>4, <2>5
<1>3. CASE ToDestroy(c) # {}
  <2> DEFINE b == Min(ToDestroy(c))
             w == [b |-> b, n |-> Len(c.bins[b].avail), then |-> final, o |-> {}, ret |-> {}]
  <2>1. cache' = [cache EXCEPT ![t] = c] /\ work' = [work EXCEPT ![t] = w] /\ UNCHANGED <<tsd, armed>>
    BY <1>3 DEF Destroy
  <2>2. b \in ToDestroy(c)
    <3>1. ToDestroy(c) \in SUBSET Nat
      BY DEF ToDestroy, Bins
    <3>2. \E m \in ToDestroy(c) : \A n \in ToDestroy(c) : m <= n
      BY <1>3, <3>1, LeastOf
    <3> QED BY <3>2 DEF Min
  <2> HIDE DEF b
  <2>3. b \in Bins /\ c.bins[b].avail # <<>>
    BY <2>2 DEF ToDestroy
  <2>4. Len(c.bins[b].avail) \in Nat /\ Len(c.bins[b].avail) # 0
    <3>1. c.bins[b].avail \in Seq(Objects)
      BY <1>1, <2>3, InStack
    <3> QED BY <2>3, <3>1
  <2>5. w \in Work
    BY <2>3, <2>4 DEF Work, Bins
  <2>6. Fits(w, c)
    BY <2>3, <2>4, <2>5 DEF Fits, Settled, Ends
  <2>7. Hand(w) = {}
    BY DEF Hand
  <2> HIDE DEF w
  <2> QED BY <2>1, <2>6, <2>7
<1> QED BY <1>2, <1>3

LEMMA PushedKeeps ==
    ASSUME Configured, NEW c, OrderlyCache(c), Settled(c, Bins), NEW b \in Bins, NEW o \in Objects,
           o.bin = b, o \notin Stacked(c), Len(c.bins[b].avail) < CachedMax[b]
    PROVE  /\ OrderlyCache(Pushed(c, b, o)) /\ Settled(Pushed(c, b, o), Bins)
           /\ Stacked(Pushed(c, b, o)) = Stacked(c) \union {o}
<1> DEFINE avail == c.bins[b].avail
           x == [c.bins[b] EXCEPT !.avail = Append(@, o)]
           d == Pushed(c, b, o)
<1>1. /\ c \in Cache /\ c.bins[b] \in Bin /\ avail \in Seq(Objects) /\ Len(avail) \in Nat
      /\ Orderly(c.bins[b], b) /\ Range(avail) \subseteq Stacked(c)
  <2>1. c \in Cache /\ Orderly(c.bins[b], b)
    BY DEF OrderlyCache
  <2> QED BY <2>1, InStack
<1>2. /\ x \in Bin /\ x.avail = Append(avail, o) /\ x.low = c.bins[b].low /\ x.div = c.bins[b].div
  <2> DEFINE y == c.bins[b]
             z == Append(avail, o)
  <2>1. y \in Bin /\ z \in Seq(Objects) /\ x = [y EXCEPT !.avail = z]
    BY <1>1
  <2> HIDE DEF y, z, x
  <2>2. x \in Bin /\ x.avail = z /\ x.low = y.low /\ x.div = y.div
    BY <2>1 DEF Bin
  <2> QED BY <2>2 DEF y, z
<1>3. /\ Append(avail, o) \in Seq(Objects) /\ Len(Append(avail, o)) = Len(avail) + 1
      /\ Distinct(Append(avail, o))
      /\ \A i \in 1 .. Len(avail) : Append(avail, o)[i] = avail[i]
      /\ Append(avail, o)[Len(avail) + 1] = o
  <2>1. \A i \in 1 .. Len(avail) : avail[i] # o
    BY <1>1, StackRange
  <2>2. Distinct(avail)
    BY <1>1 DEF Orderly
  <2> HIDE DEF avail
  <2> QED BY <1>1, <2>1, <2>2, DistinctAppend
<1>4. d \in Cache /\ d.bins = [c.bins EXCEPT ![b] = x]
  BY <1>1, <1>2 DEF Pushed, Cache
<1> HIDE DEF x, d
<1>5. \A i \in 1 .. Len(x.avail) : i \in 1 .. Len(avail) \/ i = Len(avail) + 1
  BY <1>1, <1>2, <1>3
<1> HIDE DEF avail
<1>6. Orderly(x, b)
  <2>1. Distinct(avail) /\ \A i \in 1 .. Len(avail) : avail[i].bin = b
    BY <1>1 DEF Orderly, avail
  <2>2. \A i \in 1 .. Len(x.avail) : x.avail[i].bin = b
    BY <1>2, <1>3, <1>5, <2>1
  <2>3. Len(avail) < CachedMax[b]
    BY DEF avail
  <2>4. Len(x.avail) <= CachedMax[b]
    <3>1. CachedMax[b] \in Int
      BY DEF Configured
    <3> QED BY <1>1, <1>2, <1>3, <2>3, <3>1
  <2> QED BY <1>1, <1>2, <1>3, <2>2, <2>4 DEF Orderly
<1>7. /\ OrderlyCache(d) /\ d.bins[b] = x
      /\ \A k \in Bins : k # b => d.bins[k] = c.bins[k]
      /\ Stacked(d) = (Stacked(c) \ Range(avail)) \union Range(x.avail)
  <2>1. d.bins[b] = x /\ \A k \in Bins : k # b => d.bins[k] = c.bins[k]
    BY <1>1, <1>4 DEF Cache
  <2>2. x \in Bin /\ d \in Cache
    BY <1>2, <1>4
  <2>3. /\ OrderlyCache(d)
        /\ Stacked(d) = (Stacked(c) \ Range(c.bins[b].avail)) \union Range(x.avail)
    BY <1>6, <2>1, <2>2, StackChanged
  <2> QED BY <2>1, <2>3 DEF avail
<1>8. Range(x.avail) = Range(avail) \union {o}
  <2>1. \A y : y \in Range(x.avail) <=> \E i \in 1 .. Len(x.avail) : x.avail[i] = y
    BY <1>2, <1>3, StackRange
  <2>2. \A y : y \in Range(avail) <=> \E i \in 1 .. Len(avail) : avail[i] = y
    BY <1>1, StackRange
  <2>3. \A i \in 1 .. Len(avail) : i \in 1 .. Len(x.avail)
    BY <1>1, <1>2, <1>3
  <2>4. Len(avail) + 1 \in 1 .. Len(x.avail)
    BY <1>1, <1>2, <1>3
  <2> QED BY <1>2, <1>3, <1>5, <2>1, <2>2, <2>3, <2>4
<1>9. ASSUME NEW k \in Bins
      PROVE  d.bins[k].low <= Len(d.bins[k].avail)
  <2>1. c.bins[k].low <= Len(c.bins[k].avail) /\ c.bins[k].low \in Int
    BY <1>1 DEF Settled, Cache, Bin
  <2>2. CASE k = b
    BY <1>1, <1>2, <1>3, <1>7, <2>1, <2>2 DEF avail
  <2>3. CASE k # b
    BY <1>7, <2>1, <2>3
  <2> QED BY <2>2, <2>3
<1>10. Stacked(d) = Stacked(c) \union {o}
  BY <1>1, <1>7, <1>8
<1>11. Settled(d, Bins)
  BY <1>9 DEF Settled
<1> QED BY <1>7, <1>10, <1>11 DEF d

LEMMA PoppedKeeps ==
    ASSUME Configured, NEW b \in Bins, NEW y \in Bin, Orderly(y, b), y.avail # <<>>
    PROVE  /\ Popped(y) \in Bin /\ Orderly(Popped(y), b) /\ Popped(y).low <= Len(Popped(y).avail)
           /\ Last(y.avail) \in Range(y.avail)
           /\ Range(Popped(y).avail) = Range(y.avail) \ {Last(y.avail)}
<1> DEFINE s == y.avail
           r == SubSeq(s, 1, Len(s) - 1)
           low == IF Len(s) - 1 < y.low THEN Len(s) - 1 ELSE y.low
           x == Popped(y)
<1>1. s \in Seq(Objects) /\ s # <<>> /\ y.low \in Int
  BY DEF Bin
<1>2. Len(s) \in Nat \ {0}
  BY <1>1
<1>3. /\ r \in Seq(Objects) /\ Len(r) = Len(s) - 1
      /\ \A i \in 1 .. Len(s) - 1 : r[i] = s[i]
  BY <1>1, <1>2
<1> HIDE DEF s, r
<1>4. low \in Int /\ low <= Len(s) - 1
  BY <1>1, <1>2
<1> HIDE DEF low
<1>5. x = [y EXCEPT !.avail = r, !.low = low]
  BY DEF Popped, Front, r, s, low
<1>6. x \in Bin /\ x.avail = r /\ x.low = low /\ x.div = y.div
  BY <1>3, <1>4, <1>5 DEF Bin
<1> HIDE DEF x
<1>7. \A i \in 1 .. Len(r) : i \in 1 .. Len(s) /\ i # Len(s)
  BY <1>2, <1>3
<1>8. Distinct(s) /\ \A i \in 1 .. Len(s) : s[i].bin = b
  BY DEF Orderly, s
<1>9. Distinct(r) /\ \A i \in 1 .. Len(r) : r[i].bin = b
  BY <1>3, <1>7, <1>8 DEF Distinct
<1>10. Len(r) <= CachedMax[b]
  <2>1. Len(s) <= CachedMax[b] /\ CachedMax[b] \in Int
    BY DEF Orderly, s, Configured
  <2> QED BY <1>2, <1>3, <2>1
<1>11. Orderly(x, b)
  BY <1>6, <1>9, <1>10 DEF Orderly
<1>12. Last(s) = s[Len(s)] /\ Len(s) \in 1 .. Len(s)
  BY <1>2 DEF Last
<1>13. Last(s) \in Range(s)
  BY <1>1, <1>12, StackRange
<1>14. ASSUME NEW o
       PROVE  o \in Range(r) <=> o \in Range(s) /\ o # Last(s)
  <2>1. ASSUME o \in Range(r)
        PROVE  o \in Range(s) /\ o # Last(s)
    <3>1. PICK i \in 1 .. Len(r) : r[i] = o
      BY <1>3, <2>1, StackRange
    <3>2. i \in 1 .. Len(s) /\ i # Len(s) /\ s[i] = o
      BY <1>3, <1>7, <3>1
    <3>3. o \in Range(s)
      BY <1>1, <3>2, StackRange
    <3> QED BY <1>8, <1>12, <3>2, <3>3 DEF Distinct
  <2>2. ASSUME o \in Range(s), o # Last(s)
        PROVE  o \in Range(r)
    <3>1. PICK i \in 1 .. Len(s) : s[i] = o
      BY <1>1, <2>2, StackRange
    <3>2. i \in 1 .. Len(s) - 1
      BY <1>2, <1>12, <2>2, <3>1
    <3> QED BY <1>3, <3>1, <3>2, StackRange
  <2> QED BY <2>1, <2>2
<1>15. Range(r) = Range(s) \ {Last(s)}
  BY <1>14
<1>16. low <= Len(r)
  BY <1>3, <1>4
<1> QED BY <1>6, <1>11, <1>13, <1>15, <1>16 DEF x, s

\* A whole fill puts the objects from the arena on an empty stack.
LEMMA FilledKeeps ==
    ASSUME Configured, NEW b \in Bins, NEW y \in Bin, Orderly(y, b),
           NEW got \in Seq(Objects), Distinct(got), got # <<>>, Len(got) <= CachedMax[b],
           \A i \in 1 .. Len(got) : got[i].bin = b
    PROVE  LET x == Filled(y, Len(got), got)
           IN  x \in Bin /\ Orderly(x, b) /\ x.avail # <<>> /\ Range(x.avail) = Range(got)
<1> DEFINE n == Len(got)
           s == [p \in 1 .. n |-> IF p > n - n THEN got[n + 1 - p] ELSE Stale]
           x == Filled(y, n, got)
<1>1. n \in Nat \ {0} /\ \A p \in 1 .. n : n + 1 - p \in 1 .. n
  OBVIOUS
<1>2. \A p \in 1 .. n : s[p] = got[n + 1 - p]
  BY <1>1
<1>3. s \in Seq(Objects) /\ Len(s) = n
  <2>1. \A p \in 1 .. n : s[p] \in Objects
    BY <1>1, <1>2
  <2>2. s \in [1 .. n -> Objects] /\ DOMAIN s = 1 .. n
    BY <2>1
  <2> HIDE DEF s, n
  <2> QED BY <1>1, <2>2
<1>4. x = [y EXCEPT !.low = -1, !.avail = s]
  BY DEF Filled
<1> HIDE DEF s, n, x
<1>5. x \in Bin /\ x.avail = s /\ x.div = y.div
  <2> DEFINE low == -1
  <2>1. low \in Int /\ x = [y EXCEPT !.low = low, !.avail = s]
    BY <1>4
  <2> HIDE DEF low
  <2> QED BY <1>3, <2>1 DEF Bin
<1>6. Distinct(s)
  <2> SUFFICES ASSUME NEW i \in 1 .. n, NEW j \in 1 .. n, s[i] = s[j] PROVE i = j
    BY <1>3 DEF Distinct
  <2>1. n + 1 - i = n + 1 - j
    BY <1>1, <1>2 DEF Distinct, n
  <2> QED BY <1>1, <2>1
<1>7. Orderly(x, b)
  <2>1. \A i \in 1 .. n : s[i].bin = b
    BY <1>1, <1>2 DEF n
  <2> QED BY <1>3, <1>5, <1>6, <2>1 DEF Orderly, n
<1>8. ASSUME NEW o
      PROVE  o \in Range(s) <=> o \in Range(got)
  <2>1. o \in Range(s) <=> \E p \in 1 .. n : s[p] = o
    BY <1>3, StackRange
  <2>2. o \in Range(got) <=> \E p \in 1 .. n : got[p] = o
    BY StackRange DEF n
  <2>3. ASSUME NEW p \in 1 .. n, got[p] = o
        PROVE  \E q \in 1 .. n : s[q] = o
    <3>1. n + 1 - p \in 1 .. n /\ n + 1 - (n + 1 - p) = p
      BY <1>1
    <3> QED BY <1>2, <2>3, <3>1
  <2> QED BY <1>1, <1>2, <2>1, <2>2, <2>3
<1>9. x.avail # <<>> /\ Range(x.avail) = Range(got)
  BY <1>1, <1>3, <1>5, <1>8
<1> QED BY <1>5, <1>7, <1>9 DEF x, n

\* The cache after a pass over the first n objects of the bin b, and after the last one.
AfterPass(c, b, n) ==
    LET avail == c.bins[b].avail
    IN [c EXCEPT !.bins[b].avail = Deferred(avail, n) \o SubSeq(avail, n + 1, Len(avail))]
AfterFlush(c, b) == [c EXCEPT !.bins[b] = Flushed(@)]

\* A pass gives the arena what it takes from the stack, and the last one settles the cache.
PassRight(c, b, n) ==
    LET avail == c.bins[b].avail
        d == Deferred(avail, n)
        e == AfterPass(c, b, n)
        done == AfterFlush(e, b)
    IN  /\ OrderlyCache(e) /\ Settled(e, Bins \ {b})
        /\ Stacked(e) = Stacked(c) \ Passed(avail, n)
        /\ Passed(avail, n) \subseteq Stacked(c)
        /\ \A o \in Passed(avail, n) : o.arena = avail[1].arena
        /\ avail[1] \in Objects
        /\ Len(d) \in 0 .. n - 1 /\ Len(d) <= Len(e.bins[b].avail)
        /\ OrderlyCache(done) /\ Settled(done, Bins) /\ Stacked(done) = Stacked(e)
        /\ Len(d) = 0 => Len(done.bins[b].avail) < CachedMax[b]

LEMMA PassKeeps ==
    ASSUME Configured, NEW c, OrderlyCache(c), NEW b \in Bins, Settled(c, Bins \ {b}),
           NEW n \in 1 .. Len(c.bins[b].avail)
    PROVE  PassRight(c, b, n)
<1> DEFINE avail == c.bins[b].avail
           d == Deferred(avail, n)
           rest == d \o SubSeq(avail, n + 1, Len(avail))
           y == [c.bins[b] EXCEPT !.avail = rest]
           e == [c EXCEPT !.bins[b].avail = rest]
           z == Flushed(y)
           done == [e EXCEPT !.bins[b] = Flushed(@)]
<1>1. /\ c \in Cache /\ c.bins[b] \in Bin /\ avail \in Seq(Objects) /\ Len(avail) \in Nat
      /\ Range(avail) \subseteq Stacked(c)
  <2>1. c \in Cache
    BY DEF OrderlyCache
  <2> QED BY <2>1, InStack
<1>2. Distinct(avail) /\ Len(avail) <= CachedMax[b] /\ CachedMax[b] \in Nat
      /\ (\A o \in Range(avail) : o.bin = b)
      /\ (b <= NBins => ShiftRight(CachedMax[b], c.bins[b].div) >= 1)
  <2>1. Orderly(c.bins[b], b)
    BY DEF OrderlyCache
  <2>2. \A o \in Range(avail) : o.bin = b
    BY InItsBin
  <2>3. CachedMax[b] \in Nat
    BY DEF Configured
  <2> QED BY <2>1, <2>2, <2>3 DEF Orderly
<1>3. n \in 1 .. Len(avail)
  OBVIOUS
<1> HIDE DEF avail
<1>4. /\ rest \in Seq(Objects) /\ Distinct(rest)
      /\ Len(d) \in 0 .. n - 1 /\ Len(rest) = Len(d) + (Len(avail) - n)
      /\ Range(rest) = Range(avail) \ Passed(avail, n)
      /\ Passed(avail, n) \subseteq Range(avail)
      /\ \A o \in Passed(avail, n) : o.arena = avail[1].arena
  BY <1>1, <1>2, <1>3, PassSplits
<1> HIDE DEF d, rest
<1>5. Len(rest) <= Len(avail) /\ Len(d) <= Len(rest) /\ Len(rest) \in Nat
      /\ (Len(d) = 0 => Len(rest) < CachedMax[b])
  BY <1>1, <1>2, <1>3, <1>4
<1>6. y \in Bin /\ y.avail = rest /\ y.low = c.bins[b].low /\ y.div = c.bins[b].div
  <2> DEFINE q == c.bins[b]
  <2>1. q \in Bin
    BY <1>1
  <2> HIDE DEF q
  <2>2. [q EXCEPT !.avail = rest] \in Bin /\ [q EXCEPT !.avail = rest].avail = rest
        /\ [q EXCEPT !.avail = rest].low = q.low /\ [q EXCEPT !.avail = rest].div = q.div
    BY <1>4, <2>1 DEF Bin
  <2> QED BY <2>2 DEF q
<1> DEFINE low == IF Len(rest) < y.low THEN Len(rest) ELSE y.low
<1>7. z \in Bin /\ z.avail = rest /\ z.low <= Len(rest) /\ z.div = y.div
  <2>1. low \in Int /\ low <= Len(rest)
    BY <1>5, <1>6 DEF Bin
  <2>2. z = [y EXCEPT !.low = low]
    BY <1>6 DEF Flushed
  <2> HIDE DEF y, z, low
  <2> QED BY <1>6, <2>1, <2>2 DEF Bin
<1>8. e \in Cache /\ e.bins[b] = y /\ \A k \in Bins : k # b => e.bins[k] = c.bins[k]
  <2>1. e = [c EXCEPT !.bins = [@ EXCEPT ![b] = y]]
    BY <1>1 DEF Cache
  <2> HIDE DEF y, e
  <2> QED BY <1>1, <1>6, <2>1 DEF Cache
<1>9. done \in Cache /\ done.bins[b] = z /\ \A k \in Bins : k # b => done.bins[k] = e.bins[k]
  <2> HIDE DEF e, y
  <2>1. done = [e EXCEPT !.bins = [@ EXCEPT ![b] = z]]
    BY <1>8 DEF Cache
  <2> HIDE DEF z, done
  <2> QED BY <1>7, <1>8, <2>1 DEF Cache
<1> HIDE DEF y, z, e, done
<1>10. Orderly(y, b) /\ Orderly(z, b)
  <2>1. \A i \in 1 .. Len(rest) : rest[i].bin = b
    BY <1>2, <1>4, StackRange
  <2> QED BY <1>1, <1>2, <1>4, <1>5, <1>6, <1>7, <2>1 DEF Orderly
<1>11. /\ OrderlyCache(e)
       /\ Stacked(e) = (Stacked(c) \ Range(c.bins[b].avail)) \union Range(y.avail)
  BY <1>6, <1>8, <1>10, StackChanged
<1>12. /\ OrderlyCache(done)
       /\ Stacked(done) = (Stacked(e) \ Range(e.bins[b].avail)) \union Range(z.avail)
  BY <1>7, <1>9, <1>10, <1>11, StackChanged
<1>13. Stacked(e) = Stacked(c) \ Passed(avail, n)
  <2>1. Stacked(e) = (Stacked(c) \ Range(avail)) \union (Range(avail) \ Passed(avail, n))
    BY <1>4, <1>6, <1>11 DEF avail
  <2> QED BY <1>1, <1>4, <2>1
<1>14. Stacked(done) = Stacked(e)
  <2>1. Range(rest) \subseteq Stacked(e)
    BY <1>6, <1>8, InStack
  <2> QED BY <1>6, <1>7, <1>8, <1>12, <2>1
<1>15. Settled(e, Bins \ {b})
  BY <1>8 DEF Settled
<1>16. Settled(done, Bins)
  <2>1. ASSUME NEW k \in Bins
        PROVE  done.bins[k].low <= Len(done.bins[k].avail)
    <3>1. CASE k = b
      BY <1>7, <1>9, <3>1
    <3>2. CASE k # b
      BY <1>9, <1>15, <3>2 DEF Settled
    <3> QED BY <3>1, <3>2
  <2> QED BY <2>1 DEF Settled
<1>17. avail[1] \in Objects
  BY <1>1, <1>3
<1>18. Passed(avail, n) \subseteq Stacked(c)
  BY <1>1, <1>4
<1>19. Len(d) = 0 => Len(done.bins[b].avail) < CachedMax[b]
  BY <1>5, <1>7, <1>9
<1>20. Len(d) <= Len(e.bins[b].avail)
  BY <1>5, <1>6, <1>8
<1> QED BY <1>4, <1>11, <1>12, <1>13, <1>14, <1>15, <1>16, <1>17, <1>18, <1>19, <1>20
        DEF avail, d, rest, e, done, AfterPass, AfterFlush, PassRight
-----------------------------------------------------------------------------
(* The inductive invariant. *)

States == {"null", "disabled", "purgatory", "reincarnated", "cache"}
AllFree == UNION {free[a] : a \in Arenas}
Local(t) == Stacked(cache[t]) \union Hand(work[t])
Empty(c) == \A b \in Bins : c.bins[b].avail = <<>>
Apart(A, B, C, D) ==
    A \cap B = {} /\ A \cap C = {} /\ A \cap D = {} /\ B \cap C = {} /\ B \cap D = {} /\ C \cap D = {}

FreeHome == free \in [Arenas -> SUBSET Objects] /\ \A a \in Arenas : \A o \in free[a] : o.arena = a
\* A thread with a cache is cleaned up when it ends.
Switches ==
    /\ tsd \in [Threads -> States] /\ armed \in [Threads -> BOOLEAN]
    /\ \A t \in Threads : tsd[t] = "cache" => armed[t]
ThreadsFit ==
    /\ cache \in [Threads -> Cache] /\ work \in [Threads -> Work]
    /\ \A t \in Threads : /\ OrderlyCache(cache[t]) /\ Fits(work[t], cache[t])
                          /\ work[t].n > 0 => tsd[t] = "cache"
                          /\ tsd[t] # "cache" => Empty(cache[t])
Conserved ==
    /\ live \in SUBSET Objects /\ AllFree \cap live = {}
    /\ \A t \in Threads : Apart(AllFree, live, Stacked(cache[t]), Hand(work[t]))
    /\ \A t, u \in Threads : t # u => Local(t) \cap Local(u) = {}
    /\ \A o \in Objects : o \in AllFree \/ o \in live \/ \E t \in Threads : o \in Local(t)
Kept == FreeHome /\ Switches /\ ThreadsFit /\ Conserved

\* A step of the thread t keeps the invariant when it only moves objects between the arenas, the
\* program, the thread's stacks and its hand.
LEMMA Exchange ==
    ASSUME Kept, NEW t \in Threads, NEW d, NEW w,
           cache' = [cache EXCEPT ![t] = d], work' = [work EXCEPT ![t] = w],
           OrderlyCache(d), Fits(w, d), FreeHome', live' \in SUBSET Objects,
           Switches', \A u \in Threads : u # t => tsd'[u] = tsd[u],
           w.n > 0 => tsd'[t] = "cache", tsd'[t] # "cache" => Empty(d),
           Apart(AllFree', live', Stacked(d), Hand(w)),
           AllFree' \union live' \union Stacked(d) \union Hand(w)
               = AllFree \union live \union Stacked(cache[t]) \union Hand(work[t])
    PROVE  Kept'
<1>1. cache \in [Threads -> Cache] /\ work \in [Threads -> Work]
  BY DEF Kept, ThreadsFit
<1>2. d \in Cache /\ w \in Work
  BY DEF OrderlyCache, Fits
<1>3. /\ cache' \in [Threads -> Cache] /\ work' \in [Threads -> Work]
      /\ cache'[t] = d /\ work'[t] = w
      /\ \A u \in Threads : u # t => cache'[u] = cache[u] /\ work'[u] = work[u]
  BY <1>1, <1>2
<1>4. ThreadsFit'
  <2>1. ASSUME NEW u \in Threads
        PROVE  /\ OrderlyCache(cache'[u]) /\ Fits(work'[u], cache'[u])
               /\ work'[u].n > 0 => tsd'[u] = "cache"
               /\ tsd'[u] # "cache" => Empty(cache'[u])
    <3>1. CASE u = t
      BY <1>3, <3>1
    <3>2. CASE u # t
      <4>1. cache'[u] = cache[u] /\ work'[u] = work[u] /\ tsd'[u] = tsd[u]
        BY <1>3, <3>2
      <4>2. /\ OrderlyCache(cache[u]) /\ Fits(work[u], cache[u])
            /\ work[u].n > 0 => tsd[u] = "cache"
            /\ tsd[u] # "cache" => Empty(cache[u])
        BY DEF Kept, ThreadsFit
      <4> QED BY <4>1, <4>2
    <3> QED BY <3>1, <3>2
  <2> QED BY <1>3, <2>1 DEF ThreadsFit
<1> DEFINE here == AllFree \union live \union Stacked(cache[t]) \union Hand(work[t])
<1>5. Local(t)' = Stacked(d) \union Hand(w) /\ \A u \in Threads : u # t => Local(u)' = Local(u)
  BY <1>3 DEF Local
<1>6. ASSUME NEW u \in Threads, u # t
      PROVE  Local(u) \cap here = {} /\ Stacked(cache[u]) \cap Hand(work[u]) = {}
  <2>1. Local(u) \cap Local(t) = {} /\ Apart(AllFree, live, Stacked(cache[u]), Hand(work[u]))
    BY <1>6 DEF Kept, Conserved
  <2> QED BY <2>1 DEF Local, Apart
<1>7. AllFree' \subseteq here /\ live' \subseteq here /\ Local(t)' \subseteq here
  BY <1>5
<1>8. ASSUME NEW u \in Threads
      PROVE  Apart(AllFree', live', Stacked(cache'[u]), Hand(work'[u]))
  <2>1. CASE u = t
    BY <1>3, <2>1
  <2>2. CASE u # t
    <3>1. cache'[u] = cache[u] /\ work'[u] = work[u]
      BY <1>3, <2>2
    <3>2. /\ Stacked(cache[u]) \cap here = {} /\ Hand(work[u]) \cap here = {}
          /\ Stacked(cache[u]) \cap Hand(work[u]) = {}
      BY <1>6, <2>2 DEF Local
    <3>3. AllFree' \cap live' = {}
      BY DEF Apart
    <3> HIDE DEF here
    <3> QED BY <1>7, <3>1, <3>2, <3>3 DEF Apart
  <2> QED BY <2>1, <2>2
<1>9. ASSUME NEW u \in Threads, NEW v \in Threads, u # v
      PROVE  Local(u)' \cap Local(v)' = {}
  <2>1. CASE u = t
    BY <1>5, <1>6, <1>7, <1>9, <2>1
  <2>2. CASE v = t
    BY <1>5, <1>6, <1>7, <1>9, <2>2
  <2>3. CASE u # t /\ v # t
    BY <1>5, <1>9, <2>3 DEF Kept, Conserved
  <2> QED BY <2>1, <2>2, <2>3
<1>10. ASSUME NEW o \in Objects
       PROVE  o \in AllFree' \/ o \in live' \/ \E u \in Threads : o \in Local(u)'
  <2>1. CASE o \in here
    BY <1>5, <2>1
  <2>2. CASE o \notin here
    <3>1. PICK u \in Threads : o \in Local(u)
      BY <2>2 DEF Kept, Conserved
    <3>2. u # t
      BY <2>2, <3>1 DEF Local
    <3> QED BY <1>5, <3>1, <3>2
  <2> QED BY <2>1, <2>2
<1>11. AllFree' \cap live' = {}
  BY DEF Apart
<1>12. Conserved'
  BY <1>8, <1>9, <1>10, <1>11 DEF Conserved
<1> QED BY <1>4, <1>12 DEF Kept

LEMMA FreeTaken ==
    ASSUME FreeHome, NEW a \in Arenas, NEW os, os \subseteq free[a],
           free' = [free EXCEPT ![a] = @ \ os]
    PROVE  FreeHome' /\ AllFree' = AllFree \ os /\ os \subseteq AllFree
<1>1. /\ free' \in [Arenas -> SUBSET Objects] /\ free'[a] = free[a] \ os
      /\ \A k \in Arenas : k # a => free'[k] = free[k]
  BY DEF FreeHome
<1>2. FreeHome'
  BY <1>1 DEF FreeHome
<1>3. \A x : x \in AllFree' <=> x \in AllFree /\ x \notin os
  <2>1. \A k \in Arenas : k # a => \A x \in free[k] : x \notin os
    BY DEF FreeHome
  <2> QED BY <1>1, <2>1 DEF AllFree
<1> QED BY <1>2, <1>3 DEF AllFree

LEMMA FreeGiven ==
    ASSUME FreeHome, NEW a \in Arenas, NEW os \in SUBSET Objects, \A o \in os : o.arena = a,
           free' = [free EXCEPT ![a] = @ \union os]
    PROVE  FreeHome' /\ AllFree' = AllFree \union os
<1>1. /\ free' \in [Arenas -> SUBSET Objects] /\ free'[a] = free[a] \union os
      /\ \A k \in Arenas : k # a => free'[k] = free[k]
  BY DEF FreeHome
<1>2. FreeHome'
  BY <1>1 DEF FreeHome
<1>3. \A x : x \in AllFree' <=> x \in AllFree \/ x \in os
  BY <1>1 DEF AllFree
<1> QED BY <1>2, <1>3
-----------------------------------------------------------------------------
(* The steps. *)

\* A thread that is ready has nothing in its hand and settled stacks.
LEMMA ReadyThread ==
    ASSUME Kept, NEW t \in Threads, Ready(t)
    PROVE  /\ OrderlyCache(cache[t]) /\ Settled(cache[t], Bins)
           /\ work[t] = Idle /\ Hand(work[t]) = {} /\ Fits(work[t], cache[t])
           /\ tsd[t] # "cache" => Empty(cache[t])
           /\ live \in SUBSET Objects /\ FreeHome
           /\ Apart(AllFree, live, Stacked(cache[t]), Hand(work[t]))
           /\ Switches /\ cache \in [Threads -> Cache] /\ work \in [Threads -> Work]
<1>1. /\ OrderlyCache(cache[t]) /\ Fits(work[t], cache[t]) /\ (tsd[t] # "cache" => Empty(cache[t]))
      /\ live \in SUBSET Objects /\ FreeHome
      /\ Apart(AllFree, live, Stacked(cache[t]), Hand(work[t]))
      /\ Switches /\ cache \in [Threads -> Cache] /\ work \in [Threads -> Work]
  BY DEF Kept, ThreadsFit, Conserved
<1>2. work[t] = Idle /\ work[t].n = 0
  BY DEF Ready, Idle
<1>3. Hand(work[t]) = {}
  BY <1>2 DEF Hand, Idle
<1> QED BY <1>1, <1>2, <1>3 DEF Fits

LEMMA Switched ==
    ASSUME Switches, NEW t \in Threads, NEW state \in States, NEW x \in BOOLEAN, state = "cache" => x,
           tsd' = [tsd EXCEPT ![t] = state] \/ (tsd' = tsd /\ state = tsd[t]),
           armed' = [armed EXCEPT ![t] = x] \/ (armed' = armed /\ x = armed[t])
    PROVE  Switches' /\ tsd'[t] = state /\ \A u \in Threads : u # t => tsd'[u] = tsd[u]
<1>1. /\ tsd' \in [Threads -> States] /\ tsd'[t] = state
      /\ \A u \in Threads : u # t => tsd'[u] = tsd[u]
  BY DEF Switches
<1>2. armed \in [Threads -> BOOLEAN]
  BY DEF Switches
<1>3. /\ armed' \in [Threads -> BOOLEAN] /\ armed'[t] = x
      /\ \A u \in Threads : u # t => armed'[u] = armed[u]
  BY <1>2
<1>4. ASSUME NEW u \in Threads, tsd'[u] = "cache"
      PROVE  armed'[u]
  <2>1. CASE u = t
    BY <1>1, <1>3, <1>4, <2>1
  <2>2. CASE u # t
    BY <1>1, <1>3, <1>4, <2>2 DEF Switches
  <2> QED BY <2>1, <2>2
<1> QED BY <1>1, <1>3, <1>4 DEF Switches

\* A step that leaves the caches and every object where they are.
LEMMA SwitchKeeps ==
    ASSUME Kept, NEW t \in Threads, Ready(t), UNCHANGED <<free, live, cache, work>>,
           Switches', \A u \in Threads : u # t => tsd'[u] = tsd[u], tsd'[t] # "cache" => Empty(cache[t])
    PROVE  Kept'
<1> DEFINE d == cache[t]
           w == work[t]
<1>1. /\ OrderlyCache(d) /\ Fits(w, d) /\ w = Idle /\ live \in SUBSET Objects /\ FreeHome
      /\ Apart(AllFree, live, Stacked(d), Hand(w))
      /\ Switches /\ cache \in [Threads -> Cache] /\ work \in [Threads -> Work]
  BY ReadyThread
<1>2. cache' = [cache EXCEPT ![t] = d] /\ work' = [work EXCEPT ![t] = w]
  BY <1>1
<1>3. Switches' /\ \A u \in Threads : u # t => tsd'[u] = tsd[u]
  OBVIOUS
<1>4. FreeHome' /\ AllFree' = AllFree /\ live' = live
  BY <1>1 DEF FreeHome, AllFree
<1>5. w.n = 0
  BY <1>1 DEF Idle
<1> HIDE DEF d, w
<1>6. AllFree' \union live' \union Stacked(d) \union Hand(w)
          = AllFree \union live \union Stacked(cache[t]) \union Hand(work[t])
  BY <1>4 DEF d, w
<1>7. w.n > 0 => tsd'[t] = "cache"
  BY <1>5
<1>8. tsd'[t] # "cache" => Empty(d)
  BY <1>3 DEF d
<1>9. Apart(AllFree', live', Stacked(d), Hand(w))
  BY <1>1, <1>4
<1>10. live' \in SUBSET Objects
  BY <1>1, <1>4
<1> QED BY <1>1, <1>2, <1>3, <1>4, <1>6, <1>7, <1>8, <1>9, <1>10, Exchange

\* One stack of a cache is replaced by a settled one.
LEMMA BinReplaced ==
    ASSUME NEW c, OrderlyCache(c), Settled(c, Bins), NEW b \in Bins, NEW x \in Bin, Orderly(x, b),
           x.low <= Len(x.avail)
    PROVE  LET d == [c EXCEPT !.bins[b] = x]
           IN  /\ OrderlyCache(d) /\ Settled(d, Bins)
               /\ Stacked(d) = (Stacked(c) \ Range(c.bins[b].avail)) \union Range(x.avail)
<1> DEFINE d == [c EXCEPT !.bins[b] = x]
<1>1. d \in Cache /\ d.bins[b] = x /\ \A k \in Bins : k # b => d.bins[k] = c.bins[k]
  BY DEF OrderlyCache, Cache
<1> HIDE DEF d
<1>2. /\ OrderlyCache(d)
      /\ Stacked(d) = (Stacked(c) \ Range(c.bins[b].avail)) \union Range(x.avail)
  BY <1>1, StackChanged
<1>3. Settled(d, Bins)
  <2>1. ASSUME NEW k \in Bins
        PROVE  d.bins[k].low <= Len(d.bins[k].avail)
    <3>1. CASE k = b
      BY <1>1, <3>1
    <3>2. CASE k # b
      BY <1>1, <3>2 DEF Settled
    <3> QED BY <3>1, <3>2
  <2> QED BY <2>1 DEF Settled
<1> QED BY <1>2, <1>3 DEF d

\* The object o of an operation is the program's then, or will be after the flush.
LEMMA GivenKeeps ==
    ASSUME Configured, Kept, NEW t \in Threads, Ready(t), tsd[t] = "cache", UNCHANGED <<tsd, armed>>,
           NEW c, OrderlyCache(c), Settled(c, Bins), NEW o \in Objects,
           Event(t, c, live, {o}), FreeHome',
           o \in AllFree \union Stacked(cache[t]), o \notin AllFree', o \notin Stacked(c),
           AllFree' \subseteq AllFree,
           AllFree' \cap Stacked(c) = {},
           AllFree' \union Stacked(c) \union {o} = AllFree \union Stacked(cache[t])
    PROVE  Kept'
<1>1. PICK d, w : /\ cache' = [cache EXCEPT ![t] = d] /\ work' = [work EXCEPT ![t] = w]
                  /\ OrderlyCache(d) /\ Fits(w, d) /\ Stacked(d) = Stacked(c)
                  /\ \/ live' = live \union {o} /\ Hand(w) = {}
                     \/ live' = live /\ Hand(w) = {o}
  BY EventKeeps
<1>2. /\ live \in SUBSET Objects /\ Switches /\ Hand(work[t]) = {}
      /\ Apart(AllFree, live, Stacked(cache[t]), {})
  BY ReadyThread
<1>3. live \cap (AllFree' \union Stacked(c) \union {o}) = {}
  BY <1>2 DEF Apart
<1>4. Apart(AllFree', live', Stacked(d), Hand(w))
  BY <1>1, <1>3 DEF Apart
<1>5. AllFree' \union live' \union Stacked(d) \union Hand(w)
          = AllFree \union live \union Stacked(cache[t]) \union Hand(work[t])
  BY <1>1, <1>2
<1>6. live' \in SUBSET Objects
  BY <1>1, <1>2
<1>7. Switches' /\ tsd'[t] = "cache" /\ \A u \in Threads : u # t => tsd'[u] = tsd[u]
  BY <1>2 DEF Switches
<1> QED BY <1>1, <1>4, <1>5, <1>6, <1>7, Exchange

LEMMA MallocEasyKeeps ==
    ASSUME Configured, Kept, NEW t \in Threads, NEW b \in Bins, MallocEasy(t, b)
    PROVE  Kept'
<1> DEFINE bin == cache[t].bins[b]
           x == Popped(bin)
           o == Last(bin.avail)
           c == [cache[t] EXCEPT !.bins[b] = x]
<1>1. /\ Ready(t) /\ tsd[t] = "cache" /\ bin.avail # <<>> /\ Event(t, c, live, {o})
      /\ UNCHANGED <<free, tsd, armed>>
  BY DEF MallocEasy
<1>2. /\ OrderlyCache(cache[t]) /\ Settled(cache[t], Bins) /\ FreeHome
      /\ Apart(AllFree, live, Stacked(cache[t]), Hand(work[t]))
  BY <1>1, ReadyThread
<1>3. bin \in Bin /\ Orderly(bin, b) /\ Range(bin.avail) \subseteq Stacked(cache[t])
      /\ Stacked(cache[t]) \subseteq Objects
  BY <1>2, InStack DEF OrderlyCache
<1> HIDE DEF bin
<1>4. /\ x \in Bin /\ Orderly(x, b) /\ x.low <= Len(x.avail) /\ o \in Range(bin.avail)
      /\ Range(x.avail) = Range(bin.avail) \ {o}
  BY <1>1, <1>3, PoppedKeeps
<1> HIDE DEF x, o
<1>5. /\ OrderlyCache(c) /\ Settled(c, Bins)
      /\ Stacked(c) = (Stacked(cache[t]) \ Range(bin.avail)) \union Range(x.avail)
  BY <1>2, <1>4, BinReplaced DEF bin
<1> HIDE DEF c
<1>6. Stacked(c) = Stacked(cache[t]) \ {o} /\ o \in Stacked(cache[t]) /\ o \in Objects
  BY <1>3, <1>4, <1>5
<1>7. FreeHome' /\ AllFree' = AllFree /\ AllFree \cap Stacked(cache[t]) = {}
  BY <1>1, <1>2 DEF FreeHome, AllFree, Apart
<1> QED BY <1>1, <1>5, <1>6, <1>7, GivenKeeps

\* An empty stack whose low_water is set to -1.
LEMMA EmptiedKeeps ==
    ASSUME Configured, NEW c, OrderlyCache(c), Settled(c, Bins), NEW b \in Bins, c.bins[b].avail = <<>>
    PROVE  LET d == [c EXCEPT !.bins[b].low = -1]
           IN  OrderlyCache(d) /\ Settled(d, Bins) /\ Stacked(d) = Stacked(c)
<1> DEFINE y == c.bins[b]
           low == -1
           x == [y EXCEPT !.low = low]
           d == [c EXCEPT !.bins[b].low = -1]
<1>1. y \in Bin /\ Orderly(y, b) /\ y.avail = <<>> /\ low \in Int /\ low <= 0
  BY InStack DEF OrderlyCache
<1>2. d = [c EXCEPT !.bins[b] = x]
  BY DEF OrderlyCache, Cache, Bin
<1> HIDE DEF y, low
<1>3. x \in Bin /\ x.avail = y.avail /\ x.low = low /\ x.div = y.div
  BY <1>1 DEF Bin
<1> HIDE DEF x, d
<1>4. Orderly(x, b)
  BY <1>1, <1>3 DEF Orderly
<1>5. x.low <= Len(x.avail)
  <2>1. Len(<<>>) = 0
    OBVIOUS
  <2> QED BY <1>1, <1>3, <2>1
<1>6. /\ OrderlyCache(d) /\ Settled(d, Bins)
      /\ Stacked(d) = (Stacked(c) \ Range(y.avail)) \union Range(x.avail)
  BY <1>2, <1>3, <1>4, <1>5, BinReplaced DEF y
<1>7. Range(<<>>) = {}
  BY DEF Range
<1> QED BY <1>1, <1>3, <1>6, <1>7 DEF d

LEMMA MallocSmallHardKeeps ==
    ASSUME Configured, ~MidFill, Kept, NEW t \in Threads, NEW b \in Bins, MallocSmallHard(t, b)
    PROVE  Kept'
<1> DEFINE bin == cache[t].bins[b]
           nfill == ShiftRight(CachedMax[b], bin.div)
           there == FreeIn(ArenaOf[t], b)
           got == Lowest(there, nfill)
           filled == Filled(bin, nfill, got)
           x == Popped(filled)
           o == Last(filled.avail)
           c == [cache[t] EXCEPT !.bins[b] = x]
           a == ArenaOf[t]
           os == Range(got)
<1>1. /\ Ready(t) /\ tsd[t] = "cache" /\ b <= NBins /\ bin.avail = <<>>
      /\ Len(got) \in {0, nfill}
      /\ free' = [free EXCEPT ![a] = @ \ os]
      /\ IF got = <<>>
         THEN cache' = [cache EXCEPT ![t].bins[b].low = -1] /\ UNCHANGED <<live, work>>
         ELSE Event(t, c, live, {o})
      /\ UNCHANGED <<tsd, armed>>
  BY DEF MallocSmallHard
<1>2. /\ OrderlyCache(cache[t]) /\ Settled(cache[t], Bins) /\ FreeHome
      /\ Apart(AllFree, live, Stacked(cache[t]), Hand(work[t])) /\ Hand(work[t]) = {}
      /\ Fits(work[t], cache[t]) /\ work[t] = Idle
      /\ Switches /\ cache \in [Threads -> Cache] /\ work \in [Threads -> Work]
      /\ live \in SUBSET Objects
  BY <1>1, ReadyThread
<1>3. /\ bin \in Bin /\ Orderly(bin, b) /\ bin.div \in Nat /\ Stacked(cache[t]) \subseteq Objects
  <2>1. bin \in Bin /\ Orderly(bin, b) /\ Stacked(cache[t]) \subseteq Objects
    BY <1>2, InStack DEF OrderlyCache
  <2> HIDE DEF bin
  <2> QED BY <2>1 DEF Bin
<1>4. a \in Arenas /\ there \in SUBSET Objects /\ there \subseteq free[a] /\ \A p \in there : p.bin = b
  <2>1. a \in Arenas
    BY DEF Configured
  <2> QED BY <1>2, <2>1 DEF FreeIn, FreeHome
<1> HIDE DEF a, there
<1>5. nfill \in 1 .. CachedMax[b]
  <2>1. CachedMax[b] \in Nat
    BY DEF Configured
  <2>2. ShiftRight(CachedMax[b], bin.div) \in 0 .. CachedMax[b]
    BY <1>3, <2>1, ShiftRightHalves
  <2>3. ShiftRight(CachedMax[b], bin.div) >= 1
    BY <1>1, <1>3 DEF Orderly
  <2> QED BY <2>1, <2>2, <2>3
<1> HIDE DEF nfill
<1>6. got \in Seq(there) /\ Len(got) <= nfill /\ Distinct(got)
  <2>1. nfill \in Nat
    BY <1>5
  <2> QED BY <1>4, <2>1, LowestDistinct
<1> HIDE DEF got
<1>7. /\ got \in Seq(Objects) /\ \A i \in 1 .. Len(got) : got[i].bin = b
      /\ os \subseteq there
  <2>1. got \in [1 .. Len(got) -> there] /\ DOMAIN got = 1 .. Len(got) /\ Len(got) \in Nat
    BY <1>6
  <2>2. \A i \in 1 .. Len(got) : got[i] \in there
    BY <2>1
  <2>3. got \in Seq(Objects)
    BY <1>4, <1>6
  <2>4. os \subseteq there
    BY <2>1, <2>2 DEF Range
  <2> QED BY <1>4, <2>2, <2>3, <2>4
<1> HIDE DEF bin, os
<1>8. FreeHome' /\ AllFree' = AllFree \ os /\ os \subseteq AllFree
  BY <1>1, <1>2, <1>4, <1>7, FreeTaken
<1>9. CASE got = <<>>
  <2> DEFINE d == [cache[t] EXCEPT !.bins[b].low = -1]
             w == work[t]
  <2>1. cache' = [cache EXCEPT ![t] = d] /\ work' = [work EXCEPT ![t] = w] /\ live' = live
    BY <1>1, <1>2, <1>9
  <2>2. OrderlyCache(d) /\ Settled(d, Bins) /\ Stacked(d) = Stacked(cache[t])
    BY <1>1, <1>2, EmptiedKeeps DEF bin
  <2> HIDE DEF d
  <2>3. Fits(w, d)
    BY <1>2, <2>2, IdleFits
  <2>4. AllFree' = AllFree
    <3>1. os = {}
      BY <1>9 DEF os, Range
    <3> QED BY <1>8, <3>1
  <2> HIDE DEF w
  <2>5. Apart(AllFree', live', Stacked(d), Hand(w))
    BY <1>2, <2>1, <2>2, <2>4 DEF w
  <2>6. AllFree' \union live' \union Stacked(d) \union Hand(w)
            = AllFree \union live \union Stacked(cache[t]) \union Hand(work[t])
    BY <2>1, <2>2, <2>4 DEF w
  <2>7. Switches' /\ tsd'[t] = "cache" /\ \A u \in Threads : u # t => tsd'[u] = tsd[u]
    BY <1>1, <1>2 DEF Switches
  <2>8. live' \in SUBSET Objects
    BY <1>2, <2>1
  <2> QED BY <1>8, <2>1, <2>2, <2>3, <2>5, <2>6, <2>7, <2>8, Exchange
<1>10. CASE got # <<>>
  <2>1. Len(got) = nfill
    <3>1. Len(got) # 0
      BY <1>7, <1>10
    <3> QED BY <1>1, <3>1
  <2>2. filled \in Bin /\ Orderly(filled, b) /\ filled.avail # <<>> /\ Range(filled.avail) = os
    <3>1. Len(got) <= CachedMax[b]
      BY <1>5, <2>1
    <3>2. LET y == Filled(bin, Len(got), got)
          IN  y \in Bin /\ Orderly(y, b) /\ y.avail # <<>> /\ Range(y.avail) = Range(got)
      BY <1>3, <1>6, <1>7, <1>10, <3>1, FilledKeeps
    <3> QED BY <2>1, <3>2 DEF os
  <2> HIDE DEF filled
  <2>3. /\ x \in Bin /\ Orderly(x, b) /\ x.low <= Len(x.avail) /\ o \in os
        /\ Range(x.avail) = os \ {o}
    BY <2>2, PoppedKeeps
  <2>4. Event(t, c, live, {o})
    BY <1>1, <1>10
  <2> HIDE DEF x, o
  <2>5. /\ OrderlyCache(c) /\ Settled(c, Bins)
        /\ Stacked(c) = (Stacked(cache[t]) \ Range(bin.avail)) \union Range(x.avail)
    BY <1>2, <2>3, BinReplaced DEF bin
  <2> HIDE DEF c
  <2>6. Stacked(c) = Stacked(cache[t]) \union (os \ {o})
    <3>1. Range(<<>>) = {}
      BY DEF Range
    <3> QED BY <1>1, <2>3, <2>5, <3>1
  <2>7. o \in Objects /\ o \in AllFree /\ AllFree \cap Stacked(cache[t]) = {}
    BY <1>2, <1>4, <1>7, <1>8, <2>3 DEF Apart
  <2>8. /\ o \notin Stacked(c) /\ o \notin AllFree' /\ AllFree' \subseteq AllFree
        /\ AllFree' \cap Stacked(c) = {}
        /\ AllFree' \union Stacked(c) \union {o} = AllFree \union Stacked(cache[t])
    BY <1>8, <2>3, <2>6, <2>7
  <2>9. o \in AllFree \union Stacked(cache[t])
    BY <2>7
  <2> QED BY <1>1, <1>8, <2>4, <2>5, <2>7, <2>8, <2>9, GivenKeeps
<1> QED BY <1>9, <1>10

\* The first object of an arena's bin.
LEMMA FirstThere ==
    ASSUME Configured, FreeHome, NEW t \in Threads, NEW b \in Bins, FreeIn(ArenaOf[t], b) # {}
    PROVE  LET o == First(FreeIn(ArenaOf[t], b))
           IN  ArenaOf[t] \in Arenas /\ o \in Objects /\ o \in free[ArenaOf[t]] /\ o \in AllFree
<1>1. ArenaOf[t] \in Arenas
  BY DEF Configured
<1>2. FreeIn(ArenaOf[t], b) \in SUBSET Objects /\ FreeIn(ArenaOf[t], b) \subseteq free[ArenaOf[t]]
  BY <1>1 DEF FreeIn, FreeHome
<1>3. First(FreeIn(ArenaOf[t], b)) \in FreeIn(ArenaOf[t], b)
  BY <1>2, FirstIsIn
<1> QED BY <1>1, <1>2, <1>3 DEF AllFree

LEMMA MallocLargeHardKeeps ==
    ASSUME Configured, Kept, NEW t \in Threads, NEW b \in Bins, MallocLargeHard(t, b)
    PROVE  Kept'
<1> DEFINE a == ArenaOf[t]
           o == First(FreeIn(a, b))
           c == [cache[t] EXCEPT !.bins[b].low = -1]
<1>1. /\ Ready(t) /\ tsd[t] = "cache" /\ cache[t].bins[b].avail = <<>>
      /\ FreeIn(a, b) # {} /\ free' = [free EXCEPT ![a] = @ \ {o}]
      /\ Event(t, c, live, {o}) /\ UNCHANGED <<tsd, armed>>
  BY DEF MallocLargeHard
<1>2. /\ OrderlyCache(cache[t]) /\ Settled(cache[t], Bins) /\ FreeHome
      /\ Apart(AllFree, live, Stacked(cache[t]), Hand(work[t]))
  BY <1>1, ReadyThread
<1>3. OrderlyCache(c) /\ Settled(c, Bins) /\ Stacked(c) = Stacked(cache[t])
  BY <1>1, <1>2, EmptiedKeeps
<1>4. a \in Arenas /\ o \in Objects /\ {o} \subseteq free[a] /\ o \in AllFree
  BY <1>1, <1>2, FirstThere
<1> HIDE DEF a, o, c
<1>5. FreeHome' /\ AllFree' = AllFree \ {o}
  BY <1>1, <1>2, <1>4, FreeTaken
<1>6. AllFree \cap Stacked(cache[t]) = {}
  BY <1>2 DEF Apart
<1>7. /\ o \notin Stacked(c) /\ o \notin AllFree' /\ AllFree' \subseteq AllFree
      /\ AllFree' \cap Stacked(c) = {} /\ o \in AllFree \union Stacked(cache[t])
      /\ AllFree' \union Stacked(c) \union {o} = AllFree \union Stacked(cache[t])
  BY <1>3, <1>4, <1>5, <1>6
<1> QED BY <1>1, <1>3, <1>4, <1>5, <1>7, GivenKeeps

\* Without a cache an object goes from the arena to the program, or back.
LEMMA UncachedKeeps ==
    ASSUME Kept, NEW t \in Threads, Ready(t), tsd[t] # "cache", Reincarnated(t),
           UNCHANGED <<cache, work>>, FreeHome', live' \in SUBSET Objects,
           AllFree' \cap live' = {}, AllFree' \union live' = AllFree \union live
    PROVE  Kept'
<1> DEFINE d == cache[t]
           w == work[t]
<1>1. /\ OrderlyCache(d) /\ Fits(w, d) /\ w = Idle /\ Hand(w) = {} /\ Empty(d)
      /\ Apart(AllFree, live, Stacked(d), {})
      /\ Switches /\ cache \in [Threads -> Cache] /\ work \in [Threads -> Work]
  BY ReadyThread
<1>2. cache' = [cache EXCEPT ![t] = d] /\ work' = [work EXCEPT ![t] = w] /\ w.n = 0
  BY <1>1 DEF Idle
<1>3. Switches' /\ \A u \in Threads : u # t => tsd'[u] = tsd[u]
  <2>1. CASE UNCHANGED <<tsd, armed>>
    BY <1>1, <2>1 DEF Switches
  <2>2. CASE tsd' = [tsd EXCEPT ![t] = "reincarnated"] /\ armed' = [armed EXCEPT ![t] = TRUE]
    <3>1. "reincarnated" \in States /\ "reincarnated" # "cache" /\ TRUE \in BOOLEAN
      BY DEF States
    <3> QED BY <1>1, <2>2, <3>1, Switched
  <2> QED BY <2>1, <2>2 DEF Reincarnated
<1>4. /\ Apart(AllFree', live', Stacked(d), Hand(w))
      /\ AllFree' \union live' \union Stacked(d) \union Hand(w)
             = AllFree \union live \union Stacked(cache[t]) \union Hand(work[t])
  BY <1>1 DEF Apart
<1> HIDE DEF d, w
<1>5. w.n > 0 => tsd'[t] = "cache"
  BY <1>2
<1> QED BY <1>1, <1>2, <1>3, <1>4, <1>5, Exchange

LEMMA MallocUncachedKeeps ==
    ASSUME Configured, Kept, NEW t \in Threads, NEW b \in Bins, MallocUncached(t, b)
    PROVE  Kept'
<1> DEFINE a == ArenaOf[t]
           o == First(FreeIn(a, b))
<1>1. /\ Ready(t) /\ tsd[t] # "cache" /\ Reincarnated(t) /\ UNCHANGED <<cache, work>>
      /\ FreeIn(a, b) # {} /\ free' = [free EXCEPT ![a] = @ \ {o}] /\ live' = live \union {o}
  BY DEF MallocUncached
<1>2. FreeHome /\ live \in SUBSET Objects /\ AllFree \cap live = {}
  BY DEF Kept, Conserved
<1>3. a \in Arenas /\ o \in Objects /\ {o} \subseteq free[a] /\ o \in AllFree
  BY <1>1, <1>2, FirstThere
<1> HIDE DEF a, o
<1>4. FreeHome' /\ AllFree' = AllFree \ {o}
  BY <1>1, <1>2, <1>3, FreeTaken
<1>5. live' \in SUBSET Objects /\ AllFree' \cap live' = {} /\ AllFree' \union live' = AllFree \union live
  BY <1>1, <1>2, <1>3, <1>4
<1> QED BY <1>1, <1>4, <1>5, UncachedKeeps

LEMMA DallocUncachedKeeps ==
    ASSUME Configured, Kept, NEW t \in Threads, NEW o \in live, DallocUncached(t, o)
    PROVE  Kept'
<1>1. /\ Ready(t) /\ tsd[t] # "cache" /\ Reincarnated(t) /\ UNCHANGED <<cache, work>>
      /\ free' = [free EXCEPT ![o.arena] = @ \union {o}] /\ live' = live \ {o}
  BY DEF DallocUncached
<1>2. FreeHome /\ live \in SUBSET Objects /\ AllFree \cap live = {}
  BY DEF Kept, Conserved
<1>3. o.arena \in Arenas /\ {o} \in SUBSET Objects
  BY <1>2 DEF Configured
<1>4. FreeHome' /\ AllFree' = AllFree \union {o}
  BY <1>1, <1>2, <1>3, FreeGiven
<1>5. live' \in SUBSET Objects /\ AllFree' \cap live' = {} /\ AllFree' \union live' = AllFree \union live
  BY <1>1, <1>2, <1>4
<1> QED BY <1>1, <1>4, <1>5, UncachedKeeps

\* tcache_dalloc: on the stack of its bin, or in hand during the flush that makes room.
LEMMA DallocKeeps ==
    ASSUME Configured, Kept, NEW t \in Threads, NEW o \in live, Dalloc(t, o)
    PROVE  Kept'
<1> DEFINE b == o.bin
           max == CachedMax[b]
           n == max - max \div 2
           bin == cache[t].bins[b]
<1>1. Ready(t) /\ tsd[t] = "cache" /\ UNCHANGED <<free, tsd, armed>>
  BY DEF Dalloc
<1>2. /\ OrderlyCache(cache[t]) /\ Settled(cache[t], Bins) /\ FreeHome /\ Hand(work[t]) = {}
      /\ Apart(AllFree, live, Stacked(cache[t]), {}) /\ live \in SUBSET Objects
      /\ Switches /\ cache \in [Threads -> Cache] /\ work \in [Threads -> Work]
  BY <1>1, ReadyThread
<1>3. o \in Objects /\ b \in Bins /\ o \notin Stacked(cache[t]) /\ o \notin AllFree
  BY <1>2 DEF Apart, Configured
<1>4. FreeHome' /\ AllFree' = AllFree
  BY <1>1, <1>2 DEF FreeHome, AllFree
<1>5. Switches' /\ tsd'[t] = "cache" /\ \A u \in Threads : u # t => tsd'[u] = tsd[u]
  BY <1>1, <1>2 DEF Switches
<1>6. CASE Len(bin.avail) < max
  <2> DEFINE c == Pushed(cache[t], b, o)
  <2>1. Event(t, c, live \ {o}, {})
    BY <1>6 DEF Dalloc
  <2>2. OrderlyCache(c) /\ Settled(c, Bins) /\ Stacked(c) = Stacked(cache[t]) \union {o}
    BY <1>2, <1>3, <1>6, PushedKeeps
  <2> HIDE DEF c
  <2>3. PICK d, w : /\ cache' = [cache EXCEPT ![t] = d] /\ work' = [work EXCEPT ![t] = w]
                    /\ OrderlyCache(d) /\ Fits(w, d) /\ Stacked(d) = Stacked(c)
                    /\ \/ live' = (live \ {o}) \union {} /\ Hand(w) = {}
                       \/ live' = live \ {o} /\ Hand(w) = {}
    <3>1. {} \in SUBSET Objects
      OBVIOUS
    <3> QED BY <2>1, <2>2, <3>1, EventKeeps
  <2>4. live' = live \ {o} /\ Hand(w) = {} /\ Stacked(d) = Stacked(cache[t]) \union {o}
    BY <2>2, <2>3
  <2>5. Apart(AllFree', live', Stacked(d), Hand(w))
    BY <1>2, <1>3, <1>4, <2>4 DEF Apart
  <2>6. AllFree' \union live' \union Stacked(d) \union Hand(w)
            = AllFree \union live \union Stacked(cache[t]) \union Hand(work[t])
    BY <1>2, <1>4, <2>4
  <2>7. live' \in SUBSET Objects
    BY <1>2, <2>4
  <2> QED BY <1>4, <1>5, <2>3, <2>5, <2>6, <2>7, Exchange
<1>7. CASE ~ (Len(bin.avail) < max)
  <2> DEFINE d == cache[t]
             w == [b |-> b, n |-> n, then |-> "push", o |-> {o}, ret |-> {}]
  <2>1. cache' = [cache EXCEPT ![t] = d] /\ work' = [work EXCEPT ![t] = w] /\ live' = live \ {o}
    BY <1>2, <1>7 DEF Dalloc
  <2>2. n \in 1 .. Len(bin.avail) /\ n \in Nat \ {0}
    <3> DEFINE len == Len(bin.avail)
    <3>1. max \in Nat \ {0}
      BY <1>3 DEF Configured
    <3>2. len \in Nat
      BY <1>2, <1>3, InStack DEF OrderlyCache
    <3>3. ~ (len < max)
      BY <1>7
    <3> HIDE DEF max, len
    <3>4. n \in 1 .. len /\ n \in Nat \ {0}
      BY <3>1, <3>2, <3>3
    <3> QED BY <3>4 DEF len
  <2> HIDE DEF n
  <2>3. w \in Work
    BY <1>3, <2>2 DEF Work, Bins
  <2>4. Fits(w, d)
    BY <1>2, <1>3, <2>2, <2>3 DEF Fits, Settled, Ends
  <2>5. Hand(w) = {o}
    BY DEF Hand
  <2> HIDE DEF d, w
  <2>6. /\ Apart(AllFree', live', Stacked(d), Hand(w))
        /\ AllFree' \union live' \union Stacked(d) \union Hand(w)
               = AllFree \union live \union Stacked(cache[t]) \union Hand(work[t])
    BY <1>2, <1>3, <1>4, <2>1, <2>5 DEF Apart, d
  <2>7. OrderlyCache(d) /\ live' \in SUBSET Objects
    BY <1>2, <2>1 DEF d
  <2> QED BY <1>4, <1>5, <2>1, <2>4, <2>6, <2>7, Exchange
<1> QED BY <1>6, <1>7

\* A thread that gives its cache up.
LEMMA GivenUpKeeps ==
    ASSUME Configured, Kept, NEW t \in Threads, Ready(t), tsd[t] = "cache", NEW final \in Ends,
           Destroy(t, cache[t], final), UNCHANGED <<free, live>>
    PROVE  Kept'
<1>1. /\ OrderlyCache(cache[t]) /\ Settled(cache[t], Bins) /\ FreeHome /\ Hand(work[t]) = {}
      /\ Apart(AllFree, live, Stacked(cache[t]), {}) /\ live \in SUBSET Objects
      /\ Switches
  BY ReadyThread
<1>2. PICK d, w : /\ cache' = [cache EXCEPT ![t] = d] /\ work' = [work EXCEPT ![t] = w]
                  /\ OrderlyCache(d) /\ Fits(w, d) /\ Stacked(d) = Stacked(cache[t]) /\ Hand(w) = {}
                  /\ \/ /\ w = Idle /\ \A b \in Bins : d.bins[b].avail = <<>>
                        /\ tsd' = [tsd EXCEPT ![t] = final] /\ armed' = [armed EXCEPT ![t] = TRUE]
                     \/ UNCHANGED <<tsd, armed>>
  BY <1>1, DestroyKeeps
<1>3. FreeHome' /\ AllFree' = AllFree /\ live' = live
  BY <1>1 DEF FreeHome, AllFree
<1>4. /\ Apart(AllFree', live', Stacked(d), Hand(w))
      /\ AllFree' \union live' \union Stacked(d) \union Hand(w)
             = AllFree \union live \union Stacked(cache[t]) \union Hand(work[t])
  BY <1>1, <1>2, <1>3
<1>5. /\ Switches' /\ \A u \in Threads : u # t => tsd'[u] = tsd[u]
      /\ w.n > 0 => tsd'[t] = "cache"
      /\ tsd'[t] # "cache" => Empty(d)
  <2>1. CASE /\ w = Idle /\ Empty(d)
            /\ tsd' = [tsd EXCEPT ![t] = final] /\ armed' = [armed EXCEPT ![t] = TRUE]
    <3>1. final \in States /\ final # "cache" /\ TRUE \in BOOLEAN
      BY DEF Ends, States
    <3>2. Switches' /\ tsd'[t] = final /\ \A u \in Threads : u # t => tsd'[u] = tsd[u]
      BY <1>1, <2>1, <3>1, Switched
    <3> QED BY <2>1, <3>1, <3>2 DEF Idle
  <2>2. CASE UNCHANGED <<tsd, armed>>
    BY <1>1, <2>2 DEF Switches
  <2> QED BY <1>2, <2>1, <2>2 DEF Empty
<1>6. live' \in SUBSET Objects
  BY <1>1, <1>3
<1> QED BY <1>2, <1>3, <1>4, <1>5, <1>6, Exchange

LEMMA PassStepKeeps ==
    ASSUME Configured, Kept, NEW t \in Threads, Pass(t)
    PROVE  Kept'
<1> DEFINE w == work[t]
           b == w.b
           avail == cache[t].bins[b].avail
           os == Passed(avail, w.n)
           k == Deferred(avail, w.n)
           c == AfterPass(cache[t], b, w.n)
           done == AfterFlush(c, b)
           a == avail[1].arena
<1>1. /\ w.n > 0 /\ free' = [free EXCEPT ![a] = @ \union os]
      /\ \/ /\ Len(k) > 0 /\ cache' = [cache EXCEPT ![t] = c]
            /\ work' = [work EXCEPT ![t].n = Len(k)] /\ UNCHANGED <<live, tsd, armed>>
         \/ /\ Len(k) = 0 /\ w.then = "push" /\ UNCHANGED <<tsd, armed>>
            /\ Event(t, Pushed(done, b, The(w.o)), live, {})
         \/ /\ Len(k) = 0 /\ w.then = "gc" /\ cache' = [cache EXCEPT ![t] = Collected(done)]
            /\ work' = [work EXCEPT ![t] = Idle] /\ live' = live \union w.ret /\ UNCHANGED <<tsd, armed>>
         \/ /\ Len(k) = 0 /\ w.then \notin {"push", "gc"}
            /\ Destroy(t, done, w.then) /\ UNCHANGED live
  BY DEF Pass, AfterPass, AfterFlush
<1>2. /\ OrderlyCache(cache[t]) /\ Fits(w, cache[t]) /\ tsd[t] = "cache" /\ FreeHome
      /\ live \in SUBSET Objects /\ Apart(AllFree, live, Stacked(cache[t]), Hand(w))
      /\ Switches /\ work \in [Threads -> Work]
  BY <1>1 DEF Kept, ThreadsFit, Conserved
<1> HIDE DEF w
<1>3. /\ b \in Bins /\ w.n \in 1 .. Len(avail) /\ w \in Work /\ Settled(cache[t], Bins \ {b})
      /\ w.then \in {"push", "gc"} \union Ends /\ w.o \in SUBSET Objects /\ w.ret \in SUBSET Objects
      /\ (w.then = "push" => w.ret = {} /\ \E x \in Objects : w.o = {x} /\ x.bin = b)
      /\ (w.then # "push" => w.o = {}) /\ (w.then \in Ends => w.ret = {})
  <2>1. /\ w \in Work /\ b \in Bins /\ w.n <= Len(avail) /\ w.then # "idle"
        /\ Settled(cache[t], Bins \ {b})
        /\ (w.then = "push" => w.ret = {} /\ \E x \in Objects : w.o = {x} /\ x.bin = b)
        /\ (w.then # "push" => w.o = {}) /\ (w.then \in Ends => w.ret = {})
    BY <1>1, <1>2 DEF Fits
  <2>2. /\ w.n \in Nat /\ w.then \in {"idle", "push", "gc"} \union Ends
        /\ w.o \in SUBSET Objects /\ w.ret \in SUBSET Objects
    <3> HIDE DEF b, avail
    <3> QED BY <2>1 DEF Work
  <2>3. Len(avail) \in Nat
    <3>1. cache[t] \in Cache /\ b \in Bins
      BY <1>2, <2>1 DEF OrderlyCache
    <3> HIDE DEF b
    <3> QED BY <3>1, InStack
  <2>4. w.n \in 1 .. Len(avail)
    <3> DEFINE m == Len(avail)
    <3>1. w.n > 0 /\ w.n <= m /\ w.n \in Nat /\ m \in Nat
      BY <1>1, <2>1, <2>2, <2>3
    <3> HIDE DEF m
    <3>2. w.n \in 1 .. m
      BY <3>1
    <3> QED BY <3>2 DEF m
  <2> HIDE DEF avail, b
  <2> QED BY <2>1, <2>2, <2>4
<1> HIDE DEF b
<1>4. /\ OrderlyCache(c) /\ Settled(c, Bins \ {b})
      /\ Stacked(c) = Stacked(cache[t]) \ os /\ os \subseteq Stacked(cache[t])
      /\ \A o \in os : o.arena = a
      /\ avail[1] \in Objects
      /\ Len(k) \in 0 .. w.n - 1 /\ Len(k) <= Len(c.bins[b].avail)
      /\ OrderlyCache(done) /\ Settled(done, Bins) /\ Stacked(done) = Stacked(c)
      /\ Len(k) = 0 => Len(done.bins[b].avail) < CachedMax[b]
  <2>1. OrderlyCache(cache[t]) /\ Settled(cache[t], Bins \ {b})
    BY <1>2, <1>3
  <2>2. b \in Bins /\ w.n \in 1 .. Len(cache[t].bins[b].avail)
    BY <1>3
  <2>3. PassRight(cache[t], b, w.n)
    BY <2>1, <2>2, PassKeeps
  <2> QED BY <2>3 DEF PassRight
<1>5. a \in Arenas /\ os \in SUBSET Objects
  <2>1. Stacked(cache[t]) \subseteq Objects
    BY <1>2, InStack DEF OrderlyCache
  <2>2. a \in Arenas
    BY <1>4 DEF Configured
  <2> QED BY <1>4, <2>1, <2>2
<1> HIDE DEF a, os, k, c, done, avail
<1>6. FreeHome' /\ AllFree' = AllFree \union os
  BY <1>1, <1>2, <1>4, <1>5, FreeGiven
<1>7. /\ AllFree' \cap live = {} /\ AllFree' \cap Stacked(done) = {} /\ AllFree' \cap Hand(w) = {}
      /\ live \cap Stacked(done) = {} /\ live \cap Hand(w) = {} /\ Stacked(done) \cap Hand(w) = {}
      /\ AllFree' \union Stacked(done) = AllFree \union Stacked(cache[t])
  BY <1>2, <1>4, <1>6 DEF Apart
<1>8. CASE Len(k) > 0
  <2> DEFINE v == [w EXCEPT !.n = Len(k)]
  <2>1. /\ cache' = [cache EXCEPT ![t] = c] /\ work' = [work EXCEPT ![t] = v]
        /\ UNCHANGED <<live, tsd, armed>>
    BY <1>1, <1>2, <1>8 DEF w
  <2>2. /\ v \in Work /\ v.n = Len(k) /\ v.b = w.b /\ v.then = w.then /\ v.o = w.o /\ v.ret = w.ret
    <3>1. Len(k) \in Nat
      BY <1>3, <1>4
    <3> HIDE DEF b
    <3> QED BY <1>3, <3>1 DEF Work
  <2> HIDE DEF v
  <2>3. Fits(v, c)
    <3>1. w.then # "idle" /\ v.b = b
      BY <1>3, <2>2 DEF Ends, b
    <3>2. v.b \in Bins /\ v.n > 0 /\ v.n <= Len(c.bins[v.b].avail) /\ Settled(c, Bins \ {v.b})
      BY <1>3, <1>4, <1>8, <2>2, <3>1
    <3>3. /\ v.then = "push" => v.ret = {} /\ \E x \in Objects : v.o = {x} /\ x.bin = v.b
          /\ v.then # "push" => v.o = {}
          /\ v.then \in Ends => v.ret = {}
      BY <1>3, <2>2, <3>1
    <3>4. v.then # "idle" /\ v.n # 0
      BY <1>8, <2>2, <3>1
    <3> QED BY <2>2, <3>2, <3>3, <3>4 DEF Fits
  <2>4. Hand(v) = Hand(w)
    BY <2>2 DEF Hand
  <2>5. /\ Apart(AllFree', live', Stacked(c), Hand(v))
        /\ AllFree' \union live' \union Stacked(c) \union Hand(v)
               = AllFree \union live \union Stacked(cache[t]) \union Hand(work[t])
    BY <1>4, <1>7, <2>1, <2>4 DEF Apart, w
  <2>6. Switches' /\ tsd'[t] = "cache" /\ \A u \in Threads : u # t => tsd'[u] = tsd[u]
    BY <1>2, <2>1 DEF Switches
  <2>7. live' \in SUBSET Objects
    BY <1>2, <2>1
  <2> QED BY <1>4, <1>6, <2>1, <2>3, <2>5, <2>6, <2>7, Exchange
<1>9. CASE Len(k) = 0 /\ w.then = "push"
  <2>1. PICK x \in Objects : w.o = {x} /\ x.bin = b
    BY <1>3, <1>9
  <2>2. Hand(w) = {x} /\ The(w.o) = x
    BY <1>3, <1>9, <2>1 DEF Hand, The
  <2>3. Event(t, Pushed(done, b, x), live, {}) /\ UNCHANGED <<tsd, armed>>
    BY <1>1, <1>9, <2>2
  <2> DEFINE e == Pushed(done, b, x)
  <2>4. OrderlyCache(e) /\ Settled(e, Bins) /\ Stacked(e) = Stacked(done) \union {x}
    <3>1. x \notin Stacked(done) /\ Len(done.bins[b].avail) < CachedMax[b]
      BY <1>4, <1>7, <1>9, <2>2
    <3> QED BY <1>3, <1>4, <2>1, <3>1, PushedKeeps
  <2>5. Event(t, e, live, {})
    BY <2>3
  <2> HIDE DEF e
  <2>6. PICK d, v : /\ cache' = [cache EXCEPT ![t] = d] /\ work' = [work EXCEPT ![t] = v]
                    /\ OrderlyCache(d) /\ Fits(v, d) /\ Stacked(d) = Stacked(e)
                    /\ \/ live' = live \union {} /\ Hand(v) = {}
                       \/ live' = live /\ Hand(v) = {}
    <3> DEFINE others == live
               none == {}
    <3>1. none \in SUBSET Objects /\ Event(t, e, others, none)
      BY <2>5
    <3> HIDE DEF others, none
    <3>2. \E d, v : /\ cache' = [cache EXCEPT ![t] = d] /\ work' = [work EXCEPT ![t] = v]
                    /\ OrderlyCache(d) /\ Fits(v, d) /\ Stacked(d) = Stacked(e)
                    /\ \/ live' = others \union none /\ Hand(v) = {}
                       \/ live' = others /\ Hand(v) = none
      BY <2>4, <3>1, EventKeeps
    <3> QED BY <3>2 DEF others, none
  <2>7. live' = live /\ Hand(v) = {} /\ Stacked(d) = Stacked(done) \union Hand(w)
    BY <2>2, <2>4, <2>6
  <2>8. /\ Apart(AllFree', live', Stacked(d), Hand(v))
        /\ AllFree' \union live' \union Stacked(d) \union Hand(v)
               = AllFree \union live \union Stacked(cache[t]) \union Hand(work[t])
    BY <1>7, <2>7 DEF Apart, w
  <2>9. Switches' /\ tsd'[t] = "cache" /\ \A u \in Threads : u # t => tsd'[u] = tsd[u]
    BY <1>2, <2>3 DEF Switches
  <2>10. live' \in SUBSET Objects
    BY <1>2, <2>7
  <2> QED BY <1>6, <2>6, <2>8, <2>9, <2>10, Exchange
<1>10. CASE Len(k) = 0 /\ w.then = "gc"
  <2> DEFINE d == Collected(done)
  <2>1. /\ cache' = [cache EXCEPT ![t] = d] /\ work' = [work EXCEPT ![t] = Idle]
        /\ live' = live \union w.ret /\ UNCHANGED <<tsd, armed>>
    BY <1>1, <1>10
  <2>2. OrderlyCache(d) /\ Settled(d, Bins) /\ Stacked(d) = Stacked(done)
    <3>1. Settled(done, Bins \ {done.next})
      BY <1>4 DEF Settled
    <3> QED BY <1>4, <3>1, CollectedKeeps
  <2> HIDE DEF d
  <2>3. Fits(Idle, d) /\ Hand(Idle) = {} /\ Hand(w) = w.ret
    BY <1>3, <1>10, <2>2, IdleFits DEF Hand
  <2>4. /\ Apart(AllFree', live', Stacked(d), Hand(Idle))
        /\ AllFree' \union live' \union Stacked(d) \union Hand(Idle)
               = AllFree \union live \union Stacked(cache[t]) \union Hand(work[t])
    BY <1>7, <2>1, <2>2, <2>3 DEF Apart, w
  <2>5. Switches' /\ tsd'[t] = "cache" /\ \A u \in Threads : u # t => tsd'[u] = tsd[u]
    BY <1>2, <2>1 DEF Switches
  <2>6. live' \in SUBSET Objects
    BY <1>2, <1>3, <2>1
  <2> QED BY <1>6, <2>1, <2>2, <2>3, <2>4, <2>5, <2>6, Exchange
<1>11. CASE Len(k) = 0 /\ w.then \notin {"push", "gc"}
  <2>1. w.then \in Ends /\ Hand(w) = {}
    BY <1>3, <1>11 DEF Hand
  <2>2. Destroy(t, done, w.then) /\ live' = live
    BY <1>1, <1>11
  <2>3. PICK d, v : /\ cache' = [cache EXCEPT ![t] = d] /\ work' = [work EXCEPT ![t] = v]
                    /\ OrderlyCache(d) /\ Fits(v, d) /\ Stacked(d) = Stacked(done) /\ Hand(v) = {}
                    /\ \/ /\ v = Idle /\ \A j \in Bins : d.bins[j].avail = <<>>
                          /\ tsd' = [tsd EXCEPT ![t] = w.then] /\ armed' = [armed EXCEPT ![t] = TRUE]
                       \/ UNCHANGED <<tsd, armed>>
    BY <1>4, <2>1, <2>2, DestroyKeeps
  <2>4. /\ Apart(AllFree', live', Stacked(d), Hand(v))
        /\ AllFree' \union live' \union Stacked(d) \union Hand(v)
               = AllFree \union live \union Stacked(cache[t]) \union Hand(work[t])
    BY <1>7, <2>1, <2>2, <2>3 DEF Apart, w
  <2>5. /\ Switches' /\ \A u \in Threads : u # t => tsd'[u] = tsd[u]
        /\ v.n > 0 => tsd'[t] = "cache"
        /\ tsd'[t] # "cache" => Empty(d)
    <3>1. CASE /\ v = Idle /\ Empty(d)
              /\ tsd' = [tsd EXCEPT ![t] = w.then] /\ armed' = [armed EXCEPT ![t] = TRUE]
      <4>1. w.then \in States /\ w.then # "cache" /\ TRUE \in BOOLEAN
        BY <2>1 DEF Ends, States
      <4>2. Switches' /\ tsd'[t] = w.then /\ \A u \in Threads : u # t => tsd'[u] = tsd[u]
        BY <1>2, <3>1, <4>1, Switched
      <4> QED BY <3>1, <4>1, <4>2 DEF Idle
    <3>2. CASE UNCHANGED <<tsd, armed>>
      BY <1>2, <3>2 DEF Switches
    <3> QED BY <2>3, <3>1, <3>2 DEF Empty
  <2>6. live' \in SUBSET Objects
    BY <1>2, <2>2
  <2> QED BY <1>6, <2>3, <2>4, <2>5, <2>6, Exchange
<1> QED BY <1>1, <1>8, <1>9, <1>10, <1>11

LEMMA LifeKeeps ==
    ASSUME Configured, Kept, NEW t \in Threads,
           \/ TcacheCreate(t) \/ Flush(t) \/ Disable(t) \/ Enable(t)
           \/ Exit(t) \/ ThreadCleanup(t) \/ NewThread(t)
    PROVE  Kept'
<1>1. Ready(t)
  BY DEF TcacheCreate, Flush, Disable, Enable, Exit, ThreadCleanup, NewThread
<1>2. /\ Switches /\ (tsd[t] # "cache" => Empty(cache[t]))
      /\ "null" \in Ends /\ "disabled" \in Ends /\ "purgatory" \in Ends
      /\ \A e \in Ends : e \in States /\ e # "cache"
  BY <1>1, ReadyThread DEF Ends, States
<1>3. CASE \E final \in Ends : tsd[t] = "cache" /\ Destroy(t, cache[t], final) /\ UNCHANGED <<free, live>>
  BY <1>1, <1>3, GivenUpKeeps
<1>4. CASE UNCHANGED <<free, live, cache, work, tsd, armed>>
  <2>1. Switches' /\ \A u \in Threads : tsd'[u] = tsd[u]
    BY <1>2, <1>4 DEF Switches
  <2> QED BY <1>1, <1>2, <1>4, <2>1, SwitchKeeps
<1>5. CASE /\ tsd[t] # "cache" /\ UNCHANGED <<free, live, cache, work>>
           /\ \E state \in States, x \in BOOLEAN :
                /\ state = "cache" => x
                /\ tsd' = [tsd EXCEPT ![t] = state] \/ (tsd' = tsd /\ state = tsd[t])
                /\ armed' = [armed EXCEPT ![t] = x] \/ (armed' = armed /\ x = armed[t])
  <2>1. Switches' /\ \A u \in Threads : u # t => tsd'[u] = tsd[u]
    BY <1>2, <1>5, Switched
  <2> QED BY <1>1, <1>2, <1>5, <2>1, SwitchKeeps
<1>6. tsd[t] \in States /\ armed[t] \in BOOLEAN /\ (tsd[t] = "cache" => armed[t])
  BY <1>2 DEF Switches
<1>7. CASE TcacheCreate(t)
  BY <1>2, <1>5, <1>7 DEF TcacheCreate, States
<1>8. CASE Flush(t)
  BY <1>2, <1>3, <1>8 DEF Flush
<1>9. CASE Disable(t)
  BY <1>2, <1>3, <1>5, <1>9 DEF Disable
<1>10. CASE Enable(t)
  BY <1>2, <1>5, <1>10 DEF Enable
<1>11. CASE Exit(t)
  BY <1>4, <1>11 DEF Exit
<1>12. CASE ThreadCleanup(t)
  <2>1. CASE tsd[t] = "cache" /\ Destroy(t, cache[t], "purgatory")
    BY <1>2, <1>3, <1>12, <2>1 DEF ThreadCleanup
  <2>2. CASE tsd[t] # "cache"
    BY <1>2, <1>5, <1>6, <1>12, <2>2 DEF ThreadCleanup
  <2> QED BY <1>12, <2>1, <2>2 DEF ThreadCleanup
<1>13. CASE NewThread(t)
  <2>1. tsd[t] # "cache"
    BY <1>6, <1>13 DEF NewThread
  <2> QED BY <1>2, <1>5, <1>6, <1>13, <2>1 DEF NewThread
<1> QED BY <1>7, <1>8, <1>9, <1>10, <1>11, <1>12, <1>13

LEMMA InitKept ==
    ASSUME Configured, Init
    PROVE  Kept
<1>1. /\ OrderlyCache(NewCache) /\ Settled(NewCache, Bins) /\ Stacked(NewCache) = {} /\ Empty(NewCache)
  BY NewCacheOrderly DEF Empty
<1>2. Fits(Idle, NewCache) /\ Hand(Idle) = {} /\ Idle.n = 0
  BY <1>1, IdleFits DEF Idle
<1>3. /\ free = [a \in Arenas |-> {o \in Objects : o.arena = a}] /\ live = {}
      /\ tsd = [t \in Threads |-> IF t \in Plain THEN "disabled" ELSE "null"]
      /\ armed = [t \in Threads |-> FALSE]
      /\ cache = [t \in Threads |-> NewCache] /\ work = [t \in Threads |-> Idle]
  BY DEF Init
<1> HIDE DEF Init
<1>4. FreeHome
  BY <1>3 DEF FreeHome
<1>5. Switches
  <2>1. \A t \in Threads : tsd[t] # "cache"
    BY <1>3
  <2> QED BY <1>3, <2>1 DEF Switches, States
<1>6. cache \in [Threads -> Cache] /\ work \in [Threads -> Work]
  <2>1. NewCache \in Cache /\ Idle \in Work
    BY <1>1, <1>2 DEF OrderlyCache, Fits
  <2> QED BY <1>3, <2>1
<1>7. \A t \in Threads : cache[t] = NewCache /\ work[t] = Idle
  BY <1>3
<1>8. ThreadsFit
  BY <1>1, <1>2, <1>6, <1>7 DEF ThreadsFit
<1>9. Conserved
  <2>1. \A o \in Objects : o \in AllFree
    <3>1. \A o \in Objects : o.arena \in Arenas /\ o \in free[o.arena]
      BY <1>3 DEF Configured
    <3> QED BY <3>1 DEF AllFree
  <2>2. \A t \in Threads : Stacked(cache[t]) = {} /\ Hand(work[t]) = {}
    BY <1>1, <1>2, <1>7
  <2> QED BY <1>3, <2>1, <2>2 DEF Conserved, Apart, Local
<1> QED BY <1>4, <1>5, <1>8, <1>9 DEF Kept

LEMMA NextKeeps ==
    ASSUME Configured, ~MidFill, Kept, [Next]_vars
    PROVE  Kept'
<1>1. CASE UNCHANGED vars
  BY <1>1 DEF vars, Kept, FreeHome, Switches, ThreadsFit, Conserved, AllFree, Local
<1>2. CASE Next
  <2> PICK t \in Threads :
        \/ \E b \in Bins : \/ MallocEasy(t, b) \/ MallocSmallHard(t, b)
                           \/ MallocLargeHard(t, b) \/ MallocUncached(t, b)
        \/ \E o \in live : Dalloc(t, o) \/ DallocUncached(t, o)
        \/ Pass(t)
        \/ TcacheCreate(t) \/ Flush(t) \/ Disable(t) \/ Enable(t)
        \/ Exit(t) \/ ThreadCleanup(t) \/ NewThread(t)
    BY <1>2 DEF Next
  <2>1. CASE \E b \in Bins : \/ MallocEasy(t, b) \/ MallocSmallHard(t, b)
                             \/ MallocLargeHard(t, b) \/ MallocUncached(t, b)
    BY <2>1, MallocEasyKeeps, MallocSmallHardKeeps, MallocLargeHardKeeps, MallocUncachedKeeps
  <2>2. CASE \E o \in live : Dalloc(t, o) \/ DallocUncached(t, o)
    BY <2>2, DallocKeeps, DallocUncachedKeeps
  <2>3. CASE Pass(t)
    BY <2>3, PassStepKeeps
  <2>4. CASE \/ TcacheCreate(t) \/ Flush(t) \/ Disable(t) \/ Enable(t)
             \/ Exit(t) \/ ThreadCleanup(t) \/ NewThread(t)
    BY <2>4, LifeKeeps
  <2> QED BY <2>1, <2>2, <2>3, <2>4
<1> QED BY <1>1, <1>2
-----------------------------------------------------------------------------
(* What the invariant says of the properties. *)

LEMMA KeptTyped ==
    ASSUME Configured, Kept
    PROVE  TypeOK
<1>1. /\ \A a \in Arenas : free[a] \subseteq Objects
      /\ live \subseteq Objects \union {Stale}
      /\ tsd \in [Threads -> {"null", "disabled", "purgatory", "reincarnated", "cache"}]
  BY DEF Kept, FreeHome, Switches, Conserved, States
<1>2. ASSUME NEW t \in Threads, NEW b \in Bins
      PROVE  LET bin == cache[t].bins[b]
             IN /\ Range(bin.avail) \subseteq Objects \union {Stale}
                /\ Len(bin.avail) <= CachedMax[b] /\ (Ready(t) => bin.low <= Len(bin.avail))
                /\ bin.div >= 1 /\ (b <= NBins => ShiftRight(CachedMax[b], bin.div) >= 1)
  <2> DEFINE bin == cache[t].bins[b]
  <2>1. OrderlyCache(cache[t])
    BY DEF Kept, ThreadsFit
  <2>2. bin \in Bin /\ Orderly(bin, b) /\ bin.avail \in Seq(Objects)
    BY <2>1, InStack DEF OrderlyCache
  <2>3. Range(bin.avail) \subseteq Objects
    BY <2>2, StackRange
  <2>4. Ready(t) => bin.low <= Len(bin.avail)
    BY ReadyThread DEF Settled
  <2> HIDE DEF bin
  <2>5. bin.div >= 1
    BY <2>2 DEF Bin
  <2> QED BY <2>2, <2>3, <2>4, <2>5 DEF Orderly, bin
<1> QED BY <1>1, <1>2 DEF TypeOK

LEMMA Once ==
    ASSUME Configured, Kept, NEW o \in Objects
    PROVE  Times(o) = 1
<1> DEFINE A == {a \in Arenas : o \in free[a]}
           L == IF o \in live THEN 1 ELSE 0
           S == {s \in Threads \X Bins : o \in Range(cache[s[1]].bins[s[2]].avail)}
           H == {t \in Threads : o \in InHand(t)}
<1>1. Times(o) = Cardinality(A) + L + Cardinality(S) + Cardinality(H)
  BY DEF Times
<1>2. A = IF o \in AllFree THEN {o.arena} ELSE {}
  BY DEF Kept, FreeHome, AllFree
<1>3. ASSUME NEW t \in Threads
      PROVE  /\ OrderlyCache(cache[t]) /\ cache[t] \in Cache
             /\ Apart(AllFree, live, Stacked(cache[t]), Hand(work[t]))
             /\ InHand(t) = Hand(work[t])
  BY DEF Kept, ThreadsFit, Conserved, OrderlyCache, InHand, Hand
<1>4. ASSUME NEW s \in S
      PROVE  s[1] \in Threads /\ s[2] \in Bins /\ o \in Stacked(cache[s[1]]) /\ s = <<s[1], o.bin>>
  <2>1. s[1] \in Threads /\ s[2] \in Bins /\ s = <<s[1], s[2]>>
        /\ o \in Range(cache[s[1]].bins[s[2]].avail)
    BY <1>4
  <2>2. o \in Stacked(cache[s[1]]) /\ o.bin = s[2]
    BY <1>3, <2>1, InStack, InItsBin
  <2> QED BY <2>1, <2>2
<1>5. ASSUME NEW t \in Threads, o \in Stacked(cache[t])
      PROVE  <<t, o.bin>> \in S
  <2>1. PICK b \in Bins : o \in Range(cache[t].bins[b].avail)
    BY <1>3, <1>5, InStack
  <2>2. o.bin = b
    BY <1>3, <2>1, InItsBin
  <2>3. <<t, b>> \in Threads \X Bins /\ <<t, b>>[1] = t /\ <<t, b>>[2] = b
    OBVIOUS
  <2> QED BY <2>1, <2>2, <2>3
<1>6. ASSUME NEW t \in H
      PROVE  t \in Threads /\ o \in Hand(work[t])
  BY <1>3, <1>6
<1>7. ASSUME NEW t \in Threads, o \in Hand(work[t])
      PROVE  t \in H
  BY <1>3, <1>7
<1> HIDE DEF A, L, S, H
<1>8. Cardinality({}) = 0 /\ \A x : Cardinality({x}) = 1
  BY FS_EmptySet, FS_Singleton
<1>9. o \in live => L = 1
  BY DEF L
<1>10. o \notin live => L = 0
  BY DEF L
<1>11. ASSUME NEW t \in Threads, NEW u \in Threads, o \in Local(t), o \in Local(u)
       PROVE  t = u
  BY <1>11 DEF Kept, Conserved
<1>12. ASSUME \A t \in Threads : o \notin Local(t)
       PROVE  Cardinality(S) = 0 /\ Cardinality(H) = 0
  <2>1. S = {}
    BY <1>4, <1>12 DEF Local
  <2>2. H = {}
    BY <1>6, <1>12 DEF Local
  <2> QED BY <1>8, <2>1, <2>2
<1>13. o \in AllFree \/ o \in live => \A t \in Threads : o \notin Local(t)
  BY <1>3 DEF Apart, Local
<1>14. CASE o \in AllFree
  <2>1. o \notin live
    BY <1>14 DEF Kept, Conserved
  <2>2. Cardinality(A) = 1
    BY <1>2, <1>8, <1>14
  <2> QED BY <1>1, <1>10, <1>12, <1>13, <1>14, <2>1, <2>2
<1>15. CASE o \in live
  <2>1. o \notin AllFree
    BY <1>15 DEF Kept, Conserved
  <2>2. Cardinality(A) = 0
    BY <1>2, <1>8, <2>1
  <2> QED BY <1>1, <1>9, <1>12, <1>13, <1>15, <2>2
<1>16. CASE \E t \in Threads : o \in Local(t)
  <2> PICK t \in Threads : o \in Local(t)
    BY <1>16
  <2>1. o \notin AllFree /\ o \notin live
    BY <1>13
  <2>2. Cardinality(A) = 0 /\ L = 0
    BY <1>2, <1>8, <1>10, <2>1
  <2>3. CASE o \in Stacked(cache[t])
    <3>1. S = {<<t, o.bin>>}
      <4>1. \A s \in S : s = <<t, o.bin>>
        <5> TAKE s \in S
        <5>1. s[1] \in Threads /\ o \in Local(s[1]) /\ s = <<s[1], o.bin>>
          BY <1>4 DEF Local
        <5>2. s[1] = t
          BY <1>11, <5>1
        <5> QED BY <5>1, <5>2
      <4>2. <<t, o.bin>> \in S
        BY <1>5, <2>3
      <4> QED BY <4>1, <4>2
    <3>2. H = {}
      <4> SUFFICES ASSUME NEW u \in H PROVE FALSE
        OBVIOUS
      <4>1. u \in Threads /\ o \in Hand(work[u]) /\ o \in Local(u)
        BY <1>6 DEF Local
      <4>2. u = t
        BY <1>11, <4>1
      <4> QED BY <1>3, <2>3, <4>1, <4>2 DEF Apart
    <3>3. Cardinality(S) = 1
      BY <1>8, <3>1, Zenon
    <3>4. Cardinality(H) = 0
      BY <1>8, <3>2
    <3> QED BY <1>1, <2>2, <3>3, <3>4
  <2>4. CASE o \notin Stacked(cache[t])
    <3>1. o \in Hand(work[t])
      BY <2>4 DEF Local
    <3>2. H = {t}
      <4>1. \A u \in H : u = t
        <5> TAKE u \in H
        <5>1. u \in Threads /\ o \in Local(u)
          BY <1>6 DEF Local
        <5> QED BY <1>11, <5>1
      <4>2. t \in H
        BY <1>7, <3>1
      <4> QED BY <4>1, <4>2
    <3>3. S = {}
      <4> SUFFICES ASSUME NEW s \in S PROVE FALSE
        OBVIOUS
      <4>1. s[1] \in Threads /\ o \in Stacked(cache[s[1]]) /\ o \in Local(s[1])
        BY <1>4 DEF Local
      <4>2. s[1] = t
        BY <1>11, <4>1
      <4> QED BY <2>4, <4>1, <4>2
    <3>4. Cardinality(H) = 1
      BY <1>8, <3>2, Zenon
    <3>5. Cardinality(S) = 0
      BY <1>8, <3>3
    <3> QED BY <1>1, <2>2, <3>4, <3>5
  <2> QED BY <2>3, <2>4
<1> QED BY <1>14, <1>15, <1>16 DEF Kept, Conserved

LEMMA KeptConserved ==
    ASSUME Configured, Kept
    PROVE  ObjectsConserved /\ CachedAreObjects
<1>1. \A a \in Arenas : \A o \in free[a] : o.arena = a
  BY DEF Kept, FreeHome
<1>2. ASSUME NEW t \in Threads, NEW b \in Bins
      PROVE  LET avail == cache[t].bins[b].avail
             IN /\ IsInjective(avail)
                /\ \A i \in DOMAIN avail : avail[i].bin = b
                /\ tsd[t] # "cache" => avail = <<>>
  <2> DEFINE avail == cache[t].bins[b].avail
  <2>1. OrderlyCache(cache[t]) /\ (tsd[t] # "cache" => avail = <<>>)
    BY DEF Kept, ThreadsFit, Empty
  <2>2. avail \in Seq(Objects) /\ Orderly(cache[t].bins[b], b)
    BY <2>1, InStack DEF OrderlyCache
  <2>3. Distinct(avail) /\ \A i \in 1 .. Len(avail) : avail[i].bin = b
    BY <2>2 DEF Orderly
  <2> HIDE DEF avail
  <2>4. IsInjective(avail) /\ DOMAIN avail = 1 .. Len(avail)
    BY <2>2, <2>3, StackRange
  <2> QED BY <2>1, <2>3, <2>4 DEF avail
<1>3. ObjectsConserved
  BY <1>1, <1>2, Once DEF ObjectsConserved
<1>4. ASSUME NEW t \in Threads
      PROVE  Stale \notin Cached(t) \union InHand(t) \union live
  <2>1. cache[t] \in Cache /\ work[t] \in Work /\ live \subseteq Objects
    BY DEF Kept, ThreadsFit, Conserved
  <2>2. Cached(t) \subseteq Objects
    BY <2>1, InStack DEF Cached, Stacked
  <2>3. InHand(t) \subseteq Objects
    BY <2>1 DEF InHand, Work
  <2>4. Stale \notin Objects
    BY DEF Configured
  <2> QED BY <2>1, <2>2, <2>3, <2>4
<1> QED BY <1>3, <1>4 DEF CachedAreObjects

\* tcache.c, tcache.h: however threads allocate, deallocate, collect, switch their caches off and
\* end, every object is in one place (free in its own arena, the program's, on one stack of its
\* bin or in the hands of one thread that is flushing), and what is cached is an object, as
\* tcache_bin_flush_small asserts, when an arena that begins a fill has the memory to finish it.
THEOREM ObjectsKept ==
    ASSUME Configured, ~MidFill
    PROVE  Spec => [](TypeOK /\ ObjectsConserved /\ CachedAreObjects)
<1>1. Init => Kept
  BY InitKept
<1>2. Kept /\ [Next]_vars => Kept'
  BY NextKeeps
<1>3. Kept => TypeOK /\ ObjectsConserved /\ CachedAreObjects
  BY KeptTyped, KeptConserved
<1> QED BY <1>1, <1>2, <1>3, PTL DEF Spec
=============================================================================
