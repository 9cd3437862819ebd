------------------------------ MODULE Recursion ------------------------------
(***************************************************************************)
(* Induction and recursion over the natural numbers, for the proofs about  *)
(* the recursive functions of the model: a set stands for the predicate,   *)
(* and a function for the step.  With them, what the loops over lists give.*)
(***************************************************************************)
EXTENDS Lists, FiniteSetTheorems, TLAPS

\* A nonempty set of numbers has a least one.
LEMMA LeastNatural ==
  ASSUME NEW T, T \subseteq Nat, T # {}
  PROVE  \E n \in T : \A m \in T : n <= m
<1>. DEFINE R == StrictSubsetOrdering(Nat)
            S == FiniteSubsetsOf(Nat)
            Below == {0 .. n : n \in T}
<1>1. IsWellFoundedOn(R, S)
  BY FS_StrictSubsetOrderingWellFounded
<1>2. ASSUME NEW n \in T
      PROVE  0 .. n \in S
  <2>1. IsFiniteSet(0 .. n) /\ 0 .. n \subseteq Nat
    BY FS_Interval
  <2>. QED  BY <2>1 DEF FiniteSubsetsOf
<1>3. Below \subseteq S /\ Below # {}
  BY <1>2
<1>4. PICK b \in Below : \A c \in Below : <<c, b>> \notin R
  <2>. HIDE DEF R, S, Below
  <2>. QED  BY <1>1, <1>3, WFMin
<1>5. PICK n \in T : b = 0 .. n
  OBVIOUS
<1>6. ASSUME NEW m \in T, m < n
      PROVE  FALSE
  <2>1. 0 .. m \subseteq 0 .. n /\ n \in 0 .. n /\ n \notin 0 .. m
    BY <1>6
  <2>2. 0 .. m \in SUBSET Nat /\ 0 .. n \in SUBSET Nat
    OBVIOUS
  <2>3. 0 .. m # 0 .. n
    BY <2>1
  <2>4. <<0 .. m, 0 .. n>> \in R
    BY <2>1, <2>2, <2>3 DEF StrictSubsetOrdering
  <2>5. 0 .. m \in Below
    OBVIOUS
  <2>. HIDE DEF R, Below
  <2>. QED  BY <1>4, <1>5, <2>4, <2>5
<1>. QED  BY <1>6

\* A set that holds 0 and the successor of what it holds has every number.
LEMMA Induction ==
  ASSUME NEW T, 0 \in T, \A n \in Nat : n \in T => n + 1 \in T
  PROVE  Nat \subseteq T
<1>1. SUFFICES ASSUME Nat \ T # {}
               PROVE  FALSE
  OBVIOUS
<1>2. PICK n \in Nat \ T : \A m \in Nat \ T : n <= m
  BY <1>1, LeastNatural
<1>3. n # 0 /\ n - 1 \in Nat /\ ~(n <= n - 1)
  OBVIOUS
<1>. QED  BY <1>2, <1>3

\* The same below a bound.
LEMMA BoundedInduction ==
  ASSUME NEW T, NEW n \in Nat, 0 \in T,
         \A i \in 1 .. n : i - 1 \in T => i \in T
  PROVE  0 .. n \subseteq T
<1>. DEFINE U == {i \in Nat : i <= n => i \in T}
<1>1. 0 \in U
  OBVIOUS
<1>2. ASSUME NEW i \in Nat, i \in U
      PROVE  i + 1 \in U
  <2>1. CASE i + 1 <= n
    <3>1. i + 1 \in 1 .. n /\ (i + 1) - 1 = i /\ i \in T
      BY <1>2, <2>1
    <3>. QED  BY <3>1
  <2>2. CASE ~(i + 1 <= n)
    BY <2>2
  <2>. QED  BY <2>1, <2>2
<1>3. Nat \subseteq U
  <2>. HIDE DEF U
  <2>. QED  BY <1>1, <1>2, Induction
<1>. QED  BY <1>3

\* A function defined from its value one place before exists.
LEMMA IterationExists ==
  ASSUME NEW S, NEW a \in S, NEW n \in Nat, NEW step \in [1 .. n -> [S -> S]]
  PROVE  \E f \in [0 .. n -> S] :
           f[0] = a /\ \A i \in 1 .. n : f[i] = step[i][f[i - 1]]
<1>. DEFINE IsUpTo(f, m) ==
              f \in [0 .. m -> S] /\ f[0] = a /\ \A i \in 1 .. m : f[i] = step[i][f[i - 1]]
            T == {m \in 0 .. n : \E f : IsUpTo(f, m)}
<1>1. 0 \in T
  <2>1. IsUpTo([i \in 0 .. 0 |-> a], 0)
    OBVIOUS
  <2>. HIDE DEF IsUpTo
  <2>. QED  BY <2>1
<1>2. ASSUME NEW m \in 1 .. n, m - 1 \in T
      PROVE  m \in T
  <2>1. PICK f : IsUpTo(f, m - 1)
    BY <1>2
  <2>. DEFINE k == m - 1
  <2>2. k \in Nat /\ m = k + 1 /\ k \in 0 .. k
    OBVIOUS
  <2>3. f \in [0 .. k -> S] /\ f[0] = a /\ \A i \in 1 .. k : f[i] = step[i][f[i - 1]]
    BY <2>1
  <2>. HIDE DEF k
  <2>4. f[k] \in S
    BY <2>2, <2>3
  <2>5. step[m] \in [S -> S]
    OBVIOUS
  <2>6. step[m][f[k]] \in S
    BY <2>4, <2>5
  <2>. DEFINE g == [i \in 0 .. m |-> IF i = m THEN step[m][f[k]] ELSE f[i]]
  <2>7. \A i \in 0 .. m : i # m => i \in 0 .. k
    BY <2>2
  <2>8. g \in [0 .. m -> S]
    BY <2>3, <2>6, <2>7
  <2>9. g[0] = a /\ g[m] = step[m][f[k]] /\ \A i \in 0 .. k : g[i] = f[i]
    BY <2>2, <2>3
  <2>10. ASSUME NEW i \in 1 .. m
         PROVE  g[i] = step[i][g[i - 1]]
    <3>. HIDE DEF g
    <3>1. CASE i # m
      <4>1. i \in 1 .. k /\ i \in 0 .. k /\ i - 1 \in 0 .. k
        BY <2>2, <3>1
      <4>. QED  BY <2>3, <2>9, <4>1
    <3>2. CASE i = m
      <4>1. i - 1 = k
        BY <2>2, <3>2
      <4>. QED  BY <2>2, <2>9, <3>2, <4>1
    <3>. QED  BY <3>1, <3>2
  <2>. HIDE DEF g
  <2>11. IsUpTo(g, m) /\ m \in 0 .. n
    BY <2>8, <2>9, <2>10
  <2>. HIDE DEF IsUpTo
  <2>. QED  BY <2>11
<1>3. n \in T
  <2>1. 0 .. n \subseteq T
    <3>. HIDE DEF T
    <3>. QED  BY <1>1, <1>2, BoundedInduction
  <2>2. n \in 0 .. n
    OBVIOUS
  <2>. QED  BY <2>1, <2>2
<1>. QED  BY <1>3

-----------------------------------------------------------------------------
(* Lists.                                                                  *)

IsKept(f, list, some) ==
  f = [i \in 0 .. Len(list) |->
         IF i = 0 THEN <<>>
         ELSE IF list[i] \in some THEN Append(f[i - 1], list[i]) ELSE f[i - 1]]

LEMMA KeptByStep ==
  ASSUME NEW W, NEW list \in Seq(W), NEW some
  PROVE  \E f : IsKept(f, list, some) /\ Kept(list, some) = f[Len(list)]
<1>. DEFINE n == Len(list)
            S == Seq(W)
            none == <<>>
            step == [i \in 1 .. n |->
                       [q \in S |-> IF list[i] \in some THEN Append(q, list[i]) ELSE q]]
<1>1. n \in Nat /\ none \in S /\ \A i \in 1 .. n : list[i] \in W
  OBVIOUS
<1>2. step \in [1 .. n -> [S -> S]]
  BY <1>1
<1>3. PICK g : /\ g \in [0 .. n -> S] /\ g[0] = none
               /\ \A i \in 1 .. n : g[i] = step[i][g[i - 1]]
  <2>. HIDE DEF n, S, step, none
  <2>1. n \in Nat
    BY <1>1
  <2>2. none \in S
    BY <1>1
  <2>3. \E g \in [0 .. n -> S] : g[0] = none /\ \A i \in 1 .. n : g[i] = step[i][g[i - 1]]
    BY <1>2, <2>1, <2>2, IterationExists, SMTT(60)
  <2>. QED  BY <2>3
<1>4. ASSUME NEW i \in 0 .. n
      PROVE  g[i] = IF i = 0 THEN <<>>
                    ELSE IF list[i] \in some THEN Append(g[i - 1], list[i]) ELSE g[i - 1]
  <2>1. CASE i = 0
    BY <1>3, <2>1
  <2>2. CASE i # 0
    <3>1. i \in 1 .. n /\ i - 1 \in 0 .. n
      BY <2>2
    <3>2. g[i - 1] \in S
      BY <1>3, <3>1
    <3>3. step[i][g[i - 1]] = IF list[i] \in some THEN Append(g[i - 1], list[i]) ELSE g[i - 1]
      BY <3>1, <3>2
    <3>. HIDE DEF step
    <3>. QED  BY <1>3, <2>2, <3>1, <3>3
  <2>. QED  BY <2>1, <2>2
<1>5. IsKept(g, list, some)
  <2>. HIDE DEF S, step
  <2>. QED  BY <1>3, <1>4 DEF IsKept
<1>. DEFINE f == CHOOSE f : IsKept(f, list, some)
<1>6. IsKept(f, list, some)
  BY <1>5
<1>7. Kept(list, some) = f[Len(list)]
  BY DEF Kept, IsKept
<1>. QED  BY <1>6, <1>7

\* q is what the first k places keep.
Keeps(q, list, some, k) ==
  /\ \A i \in 1 .. Len(q) : q[i] \in some /\ \E j \in 1 .. k : list[j] = q[i]
  /\ \A j \in 1 .. k : list[j] \in some => \E i \in 1 .. Len(q) : q[i] = list[j]
Distinct(q) == \A i, j \in 1 .. Len(q) : q[i] = q[j] => i = j

LEMMA KeepsOne ==
  ASSUME NEW W, NEW list \in Seq(W), NEW some, NEW k \in 1 .. Len(list),
         NEW q \in Seq(W), Keeps(q, list, some, k - 1), list[k] \in some
  PROVE  LET p == Append(q, list[k]) IN
         /\ p \in Seq(W) /\ Keeps(p, list, some, k)
         /\ Distinct(list) /\ Distinct(q) => Distinct(p)
<1>. DEFINE p == Append(q, list[k])
<1>1. /\ p \in Seq(W) /\ Len(p) = Len(q) + 1 /\ Len(q) \in Nat /\ p[Len(q) + 1] = list[k]
      /\ \A i \in 1 .. Len(q) : p[i] = q[i]
  OBVIOUS
<1>2. \A i \in 1 .. Len(p) : i \in 1 .. Len(q) \/ i = Len(q) + 1
  BY <1>1
<1>3. k \in 1 .. k /\ \A j \in 1 .. k - 1 : j \in 1 .. k
  OBVIOUS
<1>4. \A j \in 1 .. k : j \in 1 .. k - 1 \/ j = k
  OBVIOUS
<1>5. Len(q) + 1 \in 1 .. Len(p) /\ \A i \in 1 .. Len(q) : i \in 1 .. Len(p)
  BY <1>1
<1>6. \A j \in 1 .. k - 1 : j \in 1 .. Len(list) /\ j # k
  OBVIOUS
<1>. HIDE DEF p
<1>7. Keeps(p, list, some, k)
  <2>1. \A i \in 1 .. Len(p) : p[i] \in some /\ \E j \in 1 .. k : list[j] = p[i]
    BY <1>1, <1>2, <1>3, SMTT(30) DEF Keeps
  <2>2. \A j \in 1 .. k : list[j] \in some => \E i \in 1 .. Len(p) : p[i] = list[j]
    BY <1>1, <1>4, <1>5 DEF Keeps
  <2>. QED  BY <2>1, <2>2 DEF Keeps
<1>8. ASSUME Distinct(list), Distinct(q)
      PROVE  Distinct(p)
  <2>1. \A i \in 1 .. Len(q) : q[i] # list[k]
    BY <1>6, <1>8 DEF Keeps, Distinct
  <2>. QED  BY <1>1, <1>2, <1>8, <2>1 DEF Distinct
<1>. QED  BY <1>1, <1>7, <1>8 DEF p

\* What is kept is of the list and among the set, and once if it was there once.
LEMMA KeptIsPart ==
  ASSUME NEW W, NEW list \in Seq(W), NEW some
  PROVE  /\ Kept(list, some) \in Seq(W)
         /\ Keeps(Kept(list, some), list, some, Len(list))
         /\ Distinct(list) => Distinct(Kept(list, some))
<1>. DEFINE n == Len(list)
<1>1. n \in Nat
  OBVIOUS
<1>2. PICK f : IsKept(f, list, some) /\ Kept(list, some) = f[n]
  BY KeptByStep
<1>3. \A i \in 0 .. n :
        f[i] = IF i = 0 THEN <<>>
               ELSE IF list[i] \in some THEN Append(f[i - 1], list[i]) ELSE f[i - 1]
  BY <1>2 DEF IsKept
<1>. DEFINE Good(q, k) ==
              /\ q \in Seq(W) /\ Keeps(q, list, some, k)
              /\ Distinct(list) => Distinct(q)
            T == {k \in 0 .. n : Good(f[k], k)}
<1>4. 0 \in T
  <2>1. f[0] = <<>>
    BY <1>1, <1>3
  <2>2. Good(<<>>, 0)
    BY DEF Keeps, Distinct
  <2>3. 0 \in 0 .. n
    BY <1>1
  <2>. HIDE DEF Good, n
  <2>. QED  BY <2>1, <2>2, <2>3
<1>5. ASSUME NEW k \in 1 .. n, k - 1 \in T
      PROVE  k \in T
  <2>. DEFINE q == f[k - 1]
  <2>1. Good(q, k - 1)
    BY <1>5
  <2>2. f[k] = IF list[k] \in some THEN Append(q, list[k]) ELSE q
    BY <1>1, <1>3
  <2>3. k \in 0 .. n
    BY <1>1
  <2>. HIDE DEF q
  <2>4. CASE list[k] \notin some
    <3>1. \A j \in 1 .. k : j \in 1 .. k - 1 \/ j = k
      BY <1>1
    <3>2. \A j \in 1 .. k - 1 : j \in 1 .. k
      BY <1>1
    <3>3. Good(q, k)
      BY <2>1, <2>4, <3>1, <3>2 DEF Keeps
    <3>. HIDE DEF Good, n
    <3>. QED  BY <2>2, <2>3, <2>4, <3>3
  <2>5. CASE list[k] \in some
    <3>1. Good(Append(q, list[k]), k)
      BY <2>1, <2>5, KeepsOne
    <3>. HIDE DEF Good, n
    <3>. QED  BY <2>2, <2>3, <2>5, <3>1
  <2>. QED  BY <2>4, <2>5
<1>6. n \in T
  <2>. HIDE DEF T, n
  <2>1. 0 .. n \subseteq T
    BY <1>1, <1>4, <1>5, BoundedInduction
  <2>2. n \in 0 .. n
    BY <1>1
  <2>. QED  BY <2>1, <2>2
<1>7. Good(f[n], n)
  BY <1>6
<1>. QED  BY <1>2, <1>7

IsIteration(f, S, a, n, step) ==
  f \in [0 .. n -> S] /\ f[0] = a /\ \A i \in 1 .. n : f[i] = step[i][f[i - 1]]

LEMMA SomeIteration ==
  ASSUME NEW S, NEW a \in S, NEW n \in Nat, NEW step \in [1 .. n -> [S -> S]]
  PROVE  \E f : IsIteration(f, S, a, n, step)
<1>1. PICK f \in [0 .. n -> S] : f[0] = a /\ \A i \in 1 .. n : f[i] = step[i][f[i - 1]]
  BY IterationExists
<1>. QED  BY <1>1 DEF IsIteration

IsSum(f, list) ==
  f = [i \in 0 .. Len(list) |-> IF i = 0 THEN 0 ELSE f[i - 1] + list[i]]

\* The sum as it is built up, one number at a time.
LEMMA SumByStep ==
  ASSUME NEW list \in Seq(Int)
  PROVE  \E f \in [0 .. Len(list) -> Int] :
           /\ f[0] = 0 /\ SumOf(list) = f[Len(list)]
           /\ \A i \in 1 .. Len(list) : f[i] = f[i - 1] + list[i]
<1>. DEFINE n == Len(list)
            step == [i \in 1 .. n |-> [q \in Int |-> q + list[i]]]
<1>1. n \in Nat /\ \A i \in 1 .. n : list[i] \in Int
  OBVIOUS
<1>2. step \in [1 .. n -> [Int -> Int]]
  BY <1>1
<1>3. PICK g : /\ g \in [0 .. n -> Int] /\ g[0] = 0
               /\ \A i \in 1 .. n : g[i] = step[i][g[i - 1]]
  <2>1. 0 \in Int
    OBVIOUS
  <2>. HIDE DEF step, n
  <2>2. n \in Nat
    BY <1>1
  <2>3. \E g : IsIteration(g, Int, 0, n, step)
    BY <1>2, <2>1, <2>2, SomeIteration
  <2>. QED  BY <2>3 DEF IsIteration
<1>4. ASSUME NEW i \in 0 .. n
      PROVE  g[i] = IF i = 0 THEN 0 ELSE g[i - 1] + list[i]
  <2>1. CASE i = 0
    <3>. HIDE DEF step
    <3>. QED  BY <1>3, <2>1
  <2>2. CASE i # 0
    <3>1. i \in 1 .. n /\ i - 1 \in 0 .. n /\ g[i - 1] \in Int
      <4>. HIDE DEF step
      <4>. QED  BY <1>3, <2>2
    <3>2. step[i][g[i - 1]] = g[i - 1] + list[i]
      BY <3>1
    <3>. HIDE DEF step
    <3>3. g[i] = step[i][g[i - 1]]
      BY <1>3, <3>1
    <3>. QED  BY <2>2, <3>2, <3>3
  <2>. QED  BY <2>1, <2>2
<1>5. IsSum(g, list)
  <2>. HIDE DEF step
  <2>. QED  BY <1>3, <1>4 DEF IsSum
<1>. DEFINE f == CHOOSE f : IsSum(f, list)
<1>6. IsSum(f, list) /\ SumOf(list) = f[n]
  BY <1>5 DEF SumOf, IsSum
<1>. HIDE DEF f, step
<1>7. \A i \in 0 .. n : f[i] = IF i = 0 THEN 0 ELSE f[i - 1] + list[i]
  BY <1>6 DEF IsSum
<1>8. f = [i \in 0 .. n |-> f[i]]
  BY <1>6 DEF IsSum
<1>. DEFINE T == {i \in 0 .. n : f[i] \in Int}
<1>9. 0 \in T
  BY <1>1, <1>7
<1>10. ASSUME NEW i \in 1 .. n, i - 1 \in T
       PROVE  i \in T
  BY <1>1, <1>7, <1>10
<1>11. 0 .. n \subseteq T
  <2>. HIDE DEF T, n
  <2>. QED  BY <1>1, <1>9, <1>10, BoundedInduction
<1>12. f \in [0 .. n -> Int]
  BY <1>8, <1>11
<1>13. f[0] = 0 /\ \A i \in 1 .. n : f[i] = f[i - 1] + list[i]
  BY <1>1, <1>7
<1>. QED  BY <1>6, <1>12, <1>13

LEMMA SumIsAnInteger ==
  ASSUME NEW list \in Seq(Int)
  PROVE  SumOf(list) \in Int
<1>1. Len(list) \in Nat
  OBVIOUS
<1>. QED  BY <1>1, SumByStep

LEMMA SumIsANumber ==
  ASSUME NEW list \in Seq(Nat)
  PROVE  SumOf(list) \in Nat
<1>. DEFINE n == Len(list)
<1>1. n \in Nat /\ list \in Seq(Int) /\ \A i \in 1 .. n : list[i] \in Nat
  OBVIOUS
<1>2. PICK f \in [0 .. n -> Int] :
        f[0] = 0 /\ SumOf(list) = f[n] /\ \A i \in 1 .. n : f[i] = f[i - 1] + list[i]
  BY <1>1, SumByStep
<1>. DEFINE T == {i \in 0 .. n : f[i] \in Nat}
<1>3. 0 \in T
  BY <1>1, <1>2
<1>4. ASSUME NEW i \in 1 .. n, i - 1 \in T
      PROVE  i \in T
  <2>. HIDE DEF n
  <2>1. i \in 0 .. n /\ f[i - 1] \in Nat /\ list[i] \in Nat
    BY <1>1, <1>4
  <2>2. f[i] = f[i - 1] + list[i]
    BY <1>2
  <2>. QED  BY <2>1, <2>2
<1>5. 0 .. n \subseteq T
  <2>. HIDE DEF T, n
  <2>. QED  BY <1>1, <1>3, <1>4, BoundedInduction
<1>6. n \in 0 .. n
  BY <1>1
<1>. QED  BY <1>2, <1>5, <1>6
=============================================================================
