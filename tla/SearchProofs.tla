---------------------------- MODULE SearchProofs ----------------------------
(***************************************************************************)
(* The search session's operators, for any museums, queries and artworks:  *)
(* what a filter keeps, what the round robin lists, and where a batch      *)
(* leaves every museum.                                                    *)
(***************************************************************************)
EXTENDS SearchSession, Recursion, SequenceTheorems

-----------------------------------------------------------------------------
(* Lists.                                                                  *)

LEMMA ElementsKept ==
  ASSUME NEW W, NEW list \in Seq(W), NEW some
  PROVE  /\ Kept(list, some) \in Seq(W)
         /\ ToSet(Kept(list, some)) = ToSet(list) \cap some
         /\ Distinct(list) => Distinct(Kept(list, some))
<1>. DEFINE q == Kept(list, some)
<1>1. q \in Seq(W) /\ Keeps(q, list, some, Len(list)) /\ (Distinct(list) => Distinct(q))
  BY KeptIsPart
<1>2. DOMAIN q = 1 .. Len(q) /\ DOMAIN list = 1 .. Len(list)
  BY <1>1
<1>3. ToSet(q) = ToSet(list) \cap some
  <2>. HIDE DEF q
  <2>1. ASSUME NEW x \in ToSet(q)
        PROVE  x \in ToSet(list) \cap some
    <3>1. PICK i \in 1 .. Len(q) : x = q[i]
      BY <1>2 DEF ToSet
    <3>2. q[i] \in some /\ \E j \in 1 .. Len(list) : list[j] = q[i]
      BY <1>1 DEF Keeps
    <3>. QED  BY <1>2, <3>1, <3>2 DEF ToSet
  <2>2. ASSUME NEW x \in ToSet(list), x \in some
        PROVE  x \in ToSet(q)
    <3>1. PICK j \in 1 .. Len(list) : x = list[j]
      BY <1>2 DEF ToSet
    <3>2. \E i \in 1 .. Len(q) : q[i] = list[j]
      BY <1>1, <2>2, <3>1 DEF Keeps
    <3>. QED  BY <1>2, <3>1, <3>2 DEF ToSet
  <2>. QED  BY <2>1, <2>2
<1>. QED  BY <1>1, <1>3

Apart(a, b) == \A i \in 1 .. Len(b) : \A j \in 1 .. Len(a) : b[i] # a[j]
ListsBoth(c, a, b) ==
  \A e : (\E k \in 1 .. Len(c) : c[k] = e) <=>
           \/ \E i \in 1 .. Len(a) : a[i] = e
           \/ \E i \in 1 .. Len(b) : b[i] = e
LEMMA DistinctBehind ==
  ASSUME NEW W, NEW a \in Seq(W), NEW b \in Seq(W), Distinct(a), Distinct(b), Apart(a, b)
  PROVE  Distinct(a \o b) /\ a \o b \in Seq(W) /\ ListsBoth(a \o b, a, b)
<1>. DEFINE c == a \o b
            m == Len(a)
            n == Len(b)
<1>1. /\ m \in Nat /\ n \in Nat /\ c \in Seq(W) /\ Len(c) = m + n
      /\ \A i \in 1 .. m : c[i] = a[i]
      /\ \A i \in 1 .. n : c[m + i] = b[i]
  OBVIOUS
<1>. HIDE DEF c
<1>2. \A k \in 1 .. m + n : k \in 1 .. m \/ (k - m \in 1 .. n /\ m + (k - m) = k)
  BY <1>1
<1>3. /\ \A k \in 1 .. m : k \in 1 .. m + n
      /\ \A k \in 1 .. n : m + k \in 1 .. m + n
  BY <1>1
<1>4. \A k \in 1 .. m + n :
        IF k \in 1 .. m THEN c[k] = a[k] ELSE k - m \in 1 .. n /\ c[k] = b[k - m]
  <2>. SUFFICES ASSUME NEW k \in 1 .. m + n, k \notin 1 .. m
                PROVE  k - m \in 1 .. n /\ c[k] = b[k - m]
    BY <1>1
  <2>. DEFINE i == k - m
  <2>1. i \in 1 .. n /\ m + i = k
    BY <1>2
  <2>. HIDE DEF i
  <2>2. c[k] = b[i]
    BY <1>1, <2>1
  <2>. QED  BY <2>1, <2>2 DEF i
<1>5. ASSUME NEW i \in 1 .. m + n, NEW j \in 1 .. m + n, c[i] = c[j]
      PROVE  i = j
  <2>1. CASE i \in 1 .. m /\ j \in 1 .. m
    BY <1>4, <1>5, <2>1 DEF Distinct
  <2>2. CASE i \in 1 .. m /\ j \notin 1 .. m
    BY <1>4, <1>5, <2>2 DEF Apart
  <2>3. CASE i \notin 1 .. m /\ j \in 1 .. m
    BY <1>4, <1>5, <2>3 DEF Apart
  <2>4. CASE i \notin 1 .. m /\ j \notin 1 .. m
    <3>1. i - m = j - m
      BY <1>4, <1>5, <2>4 DEF Distinct
    <3>. QED  BY <1>1, <3>1
  <2>. QED  BY <2>1, <2>2, <2>3, <2>4
<1>6. ASSUME NEW e
      PROVE  (\E k \in 1 .. m + n : c[k] = e) <=>
               \/ \E i \in 1 .. m : a[i] = e
               \/ \E i \in 1 .. n : b[i] = e
  <2>. HIDE DEF m, n
  <2>1. ASSUME NEW i \in 1 .. n
        PROVE  m + i \in 1 .. m + n /\ c[m + i] = b[i]
    BY <1>1, <1>3
  <2>. QED  BY <1>1, <1>3, <1>4, <2>1
<1>. QED  BY <1>1, <1>5, <1>6 DEF Distinct, ListsBoth, c

LEMMA FunctionsAreSequences ==
  ASSUME NEW S, NEW n \in Nat, NEW f \in [1 .. n -> S]
  PROVE  f \in Seq(S) /\ Len(f) = n
<1>1. f \in Seq(S)
  BY SeqDef
<1>2. DOMAIN f = 1 .. n /\ DOMAIN f = 1 .. Len(f) /\ Len(f) \in Nat
  BY <1>1
<1>. QED  BY <1>1, <1>2

-----------------------------------------------------------------------------
(* Rounds over the museums.                                                *)

LEMMA FiveInSequence ==
  ASSUME NEW S, NEW a \in S, NEW b \in S, NEW c \in S, NEW d \in S, NEW e \in S
  PROVE  <<a, b, c, d, e>> \in Seq(S)
OBVIOUS

LEMMA SourcesInOrder ==
  /\ Len(SourceOrder) = 5 /\ DOMAIN SourceOrder = 1 .. 5
  /\ SourceOrder \in Seq(SourceKind) /\ Distinct(SourceOrder)
  /\ \A k \in 1 .. 5 : SourceOrder[k] \in SourceKind
  /\ \A s \in SourceKind : \E k \in 1 .. 5 : SourceOrder[k] = s
<1>1. Len(SourceOrder) = 5 /\ DOMAIN SourceOrder = 1 .. 5
  BY DEF SourceOrder
<1>2. \A k \in 1 .. 5 : SourceOrder[k] \in SourceKind
  BY <1>1 DEF SourceKind, ToSet
<1>3. \A s \in SourceKind : \E k \in 1 .. 5 : SourceOrder[k] = s
  BY <1>1 DEF SourceKind, ToSet
<1>4. SourceOrder \in Seq(SourceKind)
  <2>1. {"aic", "cleveland", "met", "smithsonian", "wikimedia"} \subseteq SourceKind
    BY <1>1, <1>2 DEF SourceOrder
  <2>. QED  BY <2>1, FiveInSequence DEF SourceOrder
<1>5. Distinct(SourceOrder)
  BY <1>1 DEF SourceOrder, Distinct
<1>. QED  BY <1>1, <1>2, <1>3, <1>4, <1>5

\* The state of a merge: how far each page is read, what was seen, what is new.
Rounds(W) == [at : [SourceKind -> Nat], seen : SUBSET W, merged : Seq(W)]

RoundOk(pages, seen, st) ==
  /\ \A s \in SourceKind :
       /\ st.at[s] <= Len(pages[s])
       /\ \A j \in 1 .. st.at[s] : pages[s][j] \in st.seen
  /\ Distinct(st.merged)
  /\ \A a : a \in st.seen <=> a \in seen \/ \E i \in 1 .. Len(st.merged) : st.merged[i] = a
  /\ \A i \in 1 .. Len(st.merged) :
       /\ st.merged[i] \notin seen
       /\ \E s \in SourceKind : \E j \in 1 .. Len(pages[s]) : pages[s][j] = st.merged[i]

IsSeen(pages, st, s) == \A j \in 1 .. Len(pages[s]) : pages[s][j] \in st.seen
Grows(st, next) ==
  /\ st.seen \subseteq next.seen
  /\ \A s \in SourceKind : st.at[s] <= next.at[s]
Further(pages, st, next, s) == next.at[s] >= st.at[s] + 1 \/ IsSeen(pages, next, s)

LEMMA TakeNextGoesOn ==
  ASSUME NEW W, NEW pages \in [SourceKind -> Seq(W)], NEW seen \in SUBSET W,
         NEW st \in Rounds(W), RoundOk(pages, seen, st), NEW source \in SourceKind
  PROVE  LET next == TakeNext(pages, st, source) IN
         /\ next \in Rounds(W) /\ RoundOk(pages, seen, next)
         /\ Grows(st, next) /\ Further(pages, st, next, source)
<1>. DEFINE page == pages[source]
            fresh == {i \in DOMAIN page : i > st.at[source] /\ page[i] \notin st.seen}
            i == CHOOSE k \in fresh : \A j \in fresh : k <= j
            next == TakeNext(pages, st, source)
<1>1. page \in Seq(W) /\ Len(page) \in Nat /\ DOMAIN page = 1 .. Len(page)
  OBVIOUS
<1>2. st.at \in [SourceKind -> Nat] /\ st.seen \in SUBSET W /\ st.merged \in Seq(W)
  BY DEF Rounds
<1>3. st.at[source] \in Nat
  BY <1>2
<1>4. CASE fresh = {}
  <2>1. next = st
    BY <1>4 DEF TakeNext
  <2>2. IsSeen(pages, st, source)
    <3>1. ASSUME NEW j \in 1 .. Len(page)
          PROVE  page[j] \in st.seen
      <4>1. CASE j > st.at[source]
        BY <1>1, <1>4, <4>1
      <4>2. CASE ~(j > st.at[source])
        <5>1. j \in 1 .. st.at[source]
          BY <1>1, <1>3, <4>2
        <5>. QED  BY <5>1 DEF RoundOk
      <4>. QED  BY <4>1, <4>2
    <3>. QED  BY <3>1 DEF IsSeen
  <2>3. Grows(st, st)
    BY <1>2 DEF Grows
  <2>. HIDE DEF next
  <2>. QED  BY <2>1, <2>2, <2>3 DEF Further, next
<1>5. CASE fresh # {}
  <2>1. i \in fresh /\ \A j \in fresh : i <= j
    <3>1. fresh \subseteq Nat
      BY <1>1
    <3>. HIDE DEF fresh
    <3>2. \E k \in fresh : \A j \in fresh : k <= j
      BY <1>5, <3>1, LeastNatural
    <3>. QED  BY <3>2
  <2>2. next = [ at     |-> [st.at EXCEPT ![source] = i],
                 seen   |-> st.seen \cup {page[i]},
                 merged |-> Append(st.merged, page[i]) ]
    BY <1>5 DEF TakeNext
  <2>3. /\ i \in 1 .. Len(page) /\ i > st.at[source] /\ page[i] \notin st.seen
        /\ i \in Nat /\ page[i] \in W
    <3>. HIDE DEF i
    <3>. QED  BY <1>1, <2>1
  <2>4. \A j \in 1 .. Len(page) : j > st.at[source] /\ page[j] \notin st.seen => i <= j
    <3>. HIDE DEF i
    <3>. QED  BY <1>1, <2>1
  <2>. DEFINE a == page[i]
  <2>. HIDE DEF i, fresh
  <2>5. next.at = [st.at EXCEPT ![source] = i] /\ next.seen = st.seen \cup {a}
        /\ next.merged = Append(st.merged, a)
    BY <2>2
  <2>6. next \in Rounds(W)
    BY <1>2, <2>2, <2>3 DEF Rounds
  <2>7. /\ next.merged \in Seq(W) /\ Len(next.merged) = Len(st.merged) + 1
        /\ Len(st.merged) \in Nat /\ next.merged[Len(st.merged) + 1] = a
        /\ \A k \in 1 .. Len(st.merged) : next.merged[k] = st.merged[k]
    BY <1>2, <2>3, <2>5
  <2>8. \A s \in SourceKind : next.at[s] = IF s = source THEN i ELSE st.at[s]
    BY <1>2, <2>5
  <2>. DEFINE m == Len(st.merged)
  <2>9. \A k \in 1 .. m + 1 : k \in 1 .. m \/ k = m + 1
    BY <2>7
  <2>10. m + 1 \in 1 .. m + 1 /\ \A k \in 1 .. m : k \in 1 .. m + 1
    BY <2>7
  <2>. HIDE DEF next, page, m
  <2>11. \A s \in SourceKind :
           next.at[s] <= Len(pages[s]) /\ \A j \in 1 .. next.at[s] : pages[s][j] \in next.seen
    <3>. SUFFICES ASSUME NEW s \in SourceKind
                  PROVE  /\ next.at[s] <= Len(pages[s])
                         /\ \A j \in 1 .. next.at[s] : pages[s][j] \in next.seen
      OBVIOUS
    <3>1. CASE s # source
      BY <2>5, <2>8, <3>1 DEF RoundOk
    <3>2. CASE s = source
      <4>1. i <= Len(page)
        BY <1>1, <2>3
      <4>2. ASSUME NEW j \in 1 .. i
            PROVE  page[j] \in st.seen \cup {a}
        <5>1. j \in 1 .. Len(page) /\ (j # i => j < i) /\ j \in Nat
          BY <1>1, <2>3
        <5>2. CASE j = i
          BY <5>2
        <5>3. CASE j # i /\ j > st.at[source]
          BY <2>3, <2>4, <5>1, <5>3
        <5>4. CASE ~(j > st.at[source])
          <6>1. j \in 1 .. st.at[source]
            BY <1>3, <5>1, <5>4
          <6>. QED  BY <6>1 DEF RoundOk, page
        <5>. QED  BY <5>2, <5>3, <5>4
      <4>. QED  BY <2>5, <2>8, <3>2, <4>1, <4>2 DEF page
    <3>. QED  BY <3>1, <3>2
  <2>12. Distinct(next.merged)
    <3>1. \A k \in 1 .. m : st.merged[k] # a
      BY <2>3 DEF RoundOk, m
    <3>2. Distinct(st.merged)
      BY DEF RoundOk
    <3>. QED  BY <2>7, <2>9, <3>1, <3>2 DEF Distinct, m
  <2>13. \A b : b \in next.seen <=> b \in seen \/ \E k \in 1 .. Len(next.merged) : next.merged[k] = b
    <3>1. \A b : b \in st.seen <=> b \in seen \/ \E k \in 1 .. m : st.merged[k] = b
      BY DEF RoundOk, m
    <3>. QED  BY <2>5, <2>7, <2>9, <2>10, <3>1 DEF m
  <2>14. \A k \in 1 .. Len(next.merged) :
           /\ next.merged[k] \notin seen
           /\ \E s \in SourceKind : \E j \in 1 .. Len(pages[s]) : pages[s][j] = next.merged[k]
    <3>1. a \notin seen
      BY <2>3 DEF RoundOk
    <3>2. \E s \in SourceKind : \E j \in 1 .. Len(pages[s]) : pages[s][j] = a
      BY <2>3 DEF page
    <3>3. \A k \in 1 .. m :
            /\ st.merged[k] \notin seen
            /\ \E s \in SourceKind : \E j \in 1 .. Len(pages[s]) : pages[s][j] = st.merged[k]
      BY DEF RoundOk, m
    <3>. DEFINE OnAPage(b) == \E s \in SourceKind : \E j \in 1 .. Len(pages[s]) : pages[s][j] = b
    <3>4. ASSUME NEW k \in 1 .. Len(next.merged)
          PROVE  next.merged[k] = a \/ \E n \in 1 .. m : next.merged[k] = st.merged[n]
      BY <2>7, <2>9 DEF m
    <3>5. OnAPage(a) /\ \A k \in 1 .. m : OnAPage(st.merged[k])
      BY <3>2, <3>3
    <3>. HIDE DEF OnAPage
    <3>6. \A k \in 1 .. Len(next.merged) : next.merged[k] \notin seen /\ OnAPage(next.merged[k])
      BY <3>1, <3>3, <3>4, <3>5
    <3>. QED  BY <3>6 DEF OnAPage
  <2>15. RoundOk(pages, seen, next)
    BY <2>11, <2>12, <2>13, <2>14 DEF RoundOk
  <2>16. Grows(st, next)
    <3>1. \A s \in SourceKind : st.at[s] \in Nat
      BY <1>2
    <3>. QED  BY <2>3, <2>5, <2>8, <3>1 DEF Grows
  <2>17. Further(pages, st, next, source)
    <3>1. next.at[source] = i
      BY <2>8
    <3>. QED  BY <1>3, <2>3, <3>1 DEF Further
  <2>. QED  BY <2>6, <2>15, <2>16, <2>17 DEF next
<1>. QED  BY <1>4, <1>5

\* The states of a merge of these pages.
Merging(W, pages, seen) == {st \in Rounds(W) : RoundOk(pages, seen, st)}

LEMMA GrowsOn ==
  ASSUME NEW W, NEW pages, NEW seen, NEW a \in Merging(W, pages, seen),
         NEW b \in Merging(W, pages, seen), NEW c \in Merging(W, pages, seen),
         Grows(a, b), Grows(b, c)
  PROVE  /\ Grows(a, c)
         /\ \A s \in SourceKind : /\ Further(pages, a, b, s) => Further(pages, a, c, s)
                                  /\ Further(pages, b, c, s) => Further(pages, a, c, s)
<1>1. \A s \in SourceKind : a.at[s] \in Nat /\ b.at[s] \in Nat /\ c.at[s] \in Nat
  BY DEF Merging, Rounds
<1>2. b.seen \subseteq c.seen
  BY DEF Grows
<1>. QED  BY <1>1, <1>2 DEF Grows, Further, IsSeen

IsTurn(f, pages, st) ==
  f = [k \in 0 .. Len(SourceOrder) |->
         IF k = 0 THEN st ELSE TakeNext(pages, f[k - 1], SourceOrder[k])]

LEMMA RoundByTurn ==
  ASSUME NEW W, NEW pages \in [SourceKind -> Seq(W)], NEW seen \in SUBSET W,
         NEW st \in Merging(W, pages, seen)
  PROVE  \E f : IsTurn(f, pages, st) /\ Round(pages, st) = f[5]
<1>. DEFINE S == Merging(W, pages, seen)
            n == 5
            step == [k \in 1 .. 5 |-> [q \in S |-> TakeNext(pages, q, SourceOrder[k])]]
<1>1. \A k \in 1 .. 5 : SourceOrder[k] \in SourceKind
  BY SourcesInOrder
<1>2. step \in [1 .. 5 -> [S -> S]]
  <2>1. ASSUME NEW k \in 1 .. 5, NEW q \in S
        PROVE  TakeNext(pages, q, SourceOrder[k]) \in S
    <3>1. q \in Rounds(W) /\ RoundOk(pages, seen, q) /\ SourceOrder[k] \in SourceKind
      BY <1>1 DEF Merging
    <3>. QED  BY <3>1, TakeNextGoesOn DEF Merging
  <2>. QED  BY <2>1
<1>3. PICK g : /\ g \in [0 .. 5 -> S] /\ g[0] = st
               /\ \A k \in 1 .. 5 : g[k] = step[k][g[k - 1]]
  <2>. HIDE DEF S, step, n
  <2>1. n \in Nat /\ st \in S /\ step \in [1 .. n -> [S -> S]]
    BY <1>2 DEF S, n
  <2>2. \E g \in [0 .. n -> S] : g[0] = st /\ \A k \in 1 .. n : g[k] = step[k][g[k - 1]]
    BY <2>1, IterationExists, SMTT(60)
  <2>. QED  BY <2>2 DEF n
<1>4. ASSUME NEW k \in 0 .. 5
      PROVE  g[k] = IF k = 0 THEN st ELSE TakeNext(pages, g[k - 1], SourceOrder[k])
  <2>1. CASE k = 0
    BY <1>3, <2>1
  <2>2. CASE k # 0
    <3>1. k \in 1 .. 5 /\ k - 1 \in 0 .. 5
      BY <2>2
    <3>2. g[k - 1] \in S
      BY <1>3, <3>1
    <3>3. step[k][g[k - 1]] = TakeNext(pages, g[k - 1], SourceOrder[k])
      BY <3>1, <3>2
    <3>. HIDE DEF step
    <3>. QED  BY <1>3, <2>2, <3>1, <3>3
  <2>. QED  BY <2>1, <2>2
<1>5. IsTurn(g, pages, st)
  <2>. HIDE DEF S, step
  <2>. QED  BY <1>3, <1>4, SourcesInOrder DEF IsTurn
<1>. DEFINE f == CHOOSE f : IsTurn(f, pages, st)
<1>6. IsTurn(f, pages, st)
  BY <1>5
<1>7. Round(pages, st) = f[Len(SourceOrder)]
  BY DEF Round, IsTurn
<1>. HIDE DEF f
<1>. QED  BY <1>6, <1>7, SourcesInOrder

LEMMA RoundGoesOn ==
  ASSUME NEW W, NEW pages \in [SourceKind -> Seq(W)], NEW seen \in SUBSET W,
         NEW st \in Merging(W, pages, seen)
  PROVE  LET next == Round(pages, st) IN
         /\ next \in Merging(W, pages, seen) /\ Grows(st, next)
         /\ \A s \in SourceKind : Further(pages, st, next, s)
<1>. DEFINE S == Merging(W, pages, seen)
<1>1. PICK f : IsTurn(f, pages, st) /\ Round(pages, st) = f[5]
  BY RoundByTurn
<1>2. \A k \in 0 .. 5 : f[k] = IF k = 0 THEN st ELSE TakeNext(pages, f[k - 1], SourceOrder[k])
  BY <1>1, SourcesInOrder DEF IsTurn
<1>. DEFINE Good(q, k) ==
              /\ q \in S /\ Grows(st, q)
              /\ \A i \in 1 .. k : Further(pages, st, q, SourceOrder[i])
            T == {k \in 0 .. 5 : Good(f[k], k)}
<1>3. 0 \in T
  <2>1. f[0] = st /\ 0 \in 0 .. 5
    BY <1>2
  <2>2. Grows(st, st)
    BY DEF Grows, Merging, Rounds
  <2>3. Good(st, 0)
    BY <2>2
  <2>. HIDE DEF Good
  <2>. QED  BY <2>1, <2>3
<1>4. ASSUME NEW k \in 1 .. 5, k - 1 \in T
      PROVE  k \in T
  <2>. DEFINE q == f[k - 1]
              n == TakeNext(pages, q, SourceOrder[k])
  <2>1. Good(q, k - 1)
    BY <1>4
  <2>2. f[k] = n /\ k \in 0 .. 5
    BY <1>2
  <2>3. SourceOrder[k] \in SourceKind /\ \A i \in 1 .. k : SourceOrder[i] \in SourceKind
    BY SourcesInOrder
  <2>. HIDE DEF q
  <2>4. n \in S /\ Grows(q, n) /\ Further(pages, q, n, SourceOrder[k])
    <3>1. q \in Rounds(W) /\ RoundOk(pages, seen, q)
      BY <2>1 DEF Merging
    <3>. QED  BY <2>3, <3>1, TakeNextGoesOn DEF Merging
  <2>. HIDE DEF n, S
  <2>5. /\ Grows(st, n)
        /\ \A s \in SourceKind : /\ Further(pages, st, q, s) => Further(pages, st, n, s)
                                 /\ Further(pages, q, n, s) => Further(pages, st, n, s)
    BY <2>1, <2>4, GrowsOn DEF S
  <2>6. \A i \in 1 .. k : i \in 1 .. k - 1 \/ i = k
    OBVIOUS
  <2>7. Good(n, k)
    BY <2>1, <2>3, <2>4, <2>5, <2>6
  <2>. HIDE DEF Good
  <2>. QED  BY <2>2, <2>7
<1>5. 5 \in T
  <2>. HIDE DEF T
  <2>1. 0 .. 5 \subseteq T
    BY <1>3, <1>4, BoundedInduction
  <2>. QED  BY <2>1
<1>6. Good(f[5], 5)
  BY <1>5
<1>. QED  BY <1>1, <1>6, SourcesInOrder

\* As many rounds as the longest page is long read every page to its end: what
\* is new of all pages is listed once, and nothing else.
IsRounds(f, pages, start, longest) ==
  f = [n \in 0 .. longest |-> IF n = 0 THEN start ELSE Round(pages, f[n - 1])]
Beginning(seen) == [at |-> [s \in SourceKind |-> 0], seen |-> seen, merged |-> <<>>]
Longest(pages) ==
  CHOOSE n \in {Len(pages[s]) : s \in SourceKind} : \A s \in SourceKind : Len(pages[s]) <= n

LEMMA LongestIsLongest ==
  ASSUME NEW W, NEW pages \in [SourceKind -> Seq(W)]
  PROVE  Longest(pages) \in Nat /\ \A s \in SourceKind : Len(pages[s]) <= Longest(pages)
<1>. DEFINE L(s) == Len(pages[s])
            T == {n \in Nat : \A s \in SourceKind : L(s) <= n}
<1>1. \A s \in SourceKind : L(s) \in Nat
  OBVIOUS
<1>. HIDE DEF L
<1>2. T # {}
  <2>1. SourceKind = {"aic", "cleveland", "met", "smithsonian", "wikimedia"}
    BY SourcesInOrder DEF SourceKind, SourceOrder, ToSet
  <2>2. /\ L("aic") \in Nat /\ L("cleveland") \in Nat /\ L("met") \in Nat
        /\ L("smithsonian") \in Nat /\ L("wikimedia") \in Nat
    BY <1>1, <2>1
  <2>3. L("aic") + L("cleveland") + L("met") + L("smithsonian") + L("wikimedia") \in T
    BY <2>1, <2>2
  <2>. QED  BY <2>3
<1>3. PICK n \in T : \A m \in T : n <= m
  <2>. HIDE DEF T
  <2>1. T \subseteq Nat
    BY DEF T
  <2>. QED  BY <1>2, <2>1, LeastNatural
<1>4. \E s \in SourceKind : L(s) = n
  <2>1. SUFFICES ASSUME \A s \in SourceKind : L(s) # n
                 PROVE  FALSE
    OBVIOUS
  <2>2. \A s \in SourceKind : L(s) < n
    BY <1>1, <2>1
  <2>3. "aic" \in SourceKind
    BY SourcesInOrder DEF SourceOrder, SourceKind, ToSet
  <2>4. n > 0 /\ n - 1 \in Nat
    BY <1>1, <2>2, <2>3
  <2>5. n - 1 \in T
    BY <1>1, <2>2, <2>4
  <2>. QED  BY <1>3, <2>5
<1>5. \E m \in {Len(pages[s]) : s \in SourceKind} : \A s \in SourceKind : Len(pages[s]) <= m
  BY <1>3, <1>4 DEF L
<1>6. /\ Longest(pages) \in {Len(pages[s]) : s \in SourceKind}
      /\ \A s \in SourceKind : Len(pages[s]) <= Longest(pages)
  BY <1>5 DEF Longest
<1>. QED  BY <1>1, <1>6 DEF L

LEMMA RoundsExist ==
  ASSUME NEW W, NEW pages \in [SourceKind -> Seq(W)], NEW seen \in SUBSET W,
         NEW start \in Merging(W, pages, seen), NEW n \in Nat
  PROVE  \E f : IsRounds(f, pages, start, n)
<1>. DEFINE S == Merging(W, pages, seen)
            step == [k \in 1 .. n |-> [q \in S |-> Round(pages, q)]]
<1>1. step \in [1 .. n -> [S -> S]]
  <2>1. ASSUME NEW q \in S
        PROVE  Round(pages, q) \in S
    BY RoundGoesOn
  <2>. HIDE DEF S
  <2>. QED  BY <2>1
<1>2. PICK g : /\ g \in [0 .. n -> S] /\ g[0] = start
               /\ \A k \in 1 .. n : g[k] = step[k][g[k - 1]]
  <2>. HIDE DEF S, step
  <2>1. start \in S
    BY DEF S
  <2>2. \E g \in [0 .. n -> S] : g[0] = start /\ \A k \in 1 .. n : g[k] = step[k][g[k - 1]]
    BY <1>1, <2>1, IterationExists, SMTT(60)
  <2>. QED  BY <2>2
<1>3. ASSUME NEW k \in 0 .. n
      PROVE  g[k] = IF k = 0 THEN start ELSE Round(pages, g[k - 1])
  <2>1. CASE k = 0
    BY <1>2, <2>1
  <2>2. CASE k # 0
    <3>1. k \in 1 .. n /\ k - 1 \in 0 .. n
      BY <2>2
    <3>2. g[k - 1] \in S
      BY <1>2, <3>1
    <3>3. step[k][g[k - 1]] = Round(pages, g[k - 1])
      BY <3>1, <3>2
    <3>. HIDE DEF step
    <3>. QED  BY <1>2, <2>2, <3>1, <3>3
  <2>. QED  BY <2>1, <2>2
<1>. HIDE DEF S, step
<1>. QED  BY <1>2, <1>3 DEF IsRounds

LEMMA RoundsOneByOne ==
  ASSUME NEW W, NEW pages \in [SourceKind -> Seq(W)], NEW seen \in SUBSET W,
         Beginning(seen) \in Merging(W, pages, seen)
  PROVE  \E f : /\ IsRounds(f, pages, Beginning(seen), Longest(pages))
                /\ RoundRobinUnique(pages, seen) = f[Longest(pages)]
<1>. DEFINE n == Longest(pages)
            start == Beginning(seen)
            f == CHOOSE f : IsRounds(f, pages, start, n)
<1>1. IsRounds(f, pages, start, n)
  <2>. HIDE DEF n, start
  <2>1. n \in Nat /\ start \in Merging(W, pages, seen)
    BY LongestIsLongest DEF n, start
  <2>2. \E g : IsRounds(g, pages, start, n)
    BY <2>1, RoundsExist
  <2>. QED  BY <2>2
<1>2. RoundRobinUnique(pages, seen) = f[n]
  BY DEF RoundRobinUnique, IsRounds, Beginning, Longest
<1>. HIDE DEF f
<1>. QED  BY <1>1, <1>2

(***************************************************************************)
(* The round robin adds what is new on the pages of a batch, each artwork  *)
(* once and nothing else, and has then seen every page to its end, however *)
(* long the pages are (core.rs, round_robin_unique).                       *)
(***************************************************************************)
THEOREM RoundRobinIsUnion ==
  ASSUME NEW W, NEW pages \in [SourceKind -> Seq(W)], NEW seen \in SUBSET W
  PROVE  LET union == RoundRobinUnique(pages, seen) IN
         /\ union \in Rounds(W)
         /\ RoundOk(pages, seen, union)
         /\ \A s \in SourceKind : IsSeen(pages, union, s)
<1>. DEFINE S == Merging(W, pages, seen)
            n == Longest(pages)
            start == Beginning(seen)
<1>1. n \in Nat /\ \A s \in SourceKind : Len(pages[s]) \in Nat /\ Len(pages[s]) <= n
  BY LongestIsLongest
<1>2. start \in S
  <2>1. start \in Rounds(W)
    BY DEF Beginning, Rounds
  <2>2. start.at = [s \in SourceKind |-> 0] /\ start.seen = seen /\ start.merged = <<>>
    BY DEF Beginning
  <2>. HIDE DEF start
  <2>3. \A s \in SourceKind : start.at[s] = 0
    BY <2>2
  <2>4. RoundOk(pages, seen, start)
    BY <1>1, <2>2, <2>3 DEF RoundOk, Distinct
  <2>. QED  BY <2>1, <2>4 DEF Merging
<1>3. PICK f : IsRounds(f, pages, start, n) /\ RoundRobinUnique(pages, seen) = f[n]
  BY <1>2, RoundsOneByOne
<1>. HIDE DEF start, n
<1>4. \A k \in 0 .. n : f[k] = IF k = 0 THEN start ELSE Round(pages, f[k - 1])
  BY <1>3 DEF IsRounds
<1>. DEFINE Good(q, k) ==
              q \in S /\ \A s \in SourceKind : q.at[s] >= k \/ IsSeen(pages, q, s)
            T == {k \in 0 .. n : Good(f[k], k)}
<1>5. 0 \in T
  <2>1. f[0] = start /\ 0 \in 0 .. n
    BY <1>1, <1>4
  <2>2. \A s \in SourceKind : start.at[s] \in Nat
    BY <1>2 DEF Merging, Rounds
  <2>3. Good(start, 0)
    BY <1>2, <2>2
  <2>. HIDE DEF Good
  <2>. QED  BY <2>1, <2>3
<1>6. ASSUME NEW k \in 1 .. n, k - 1 \in T
      PROVE  k \in T
  <2>. DEFINE q == f[k - 1]
              r == Round(pages, q)
  <2>1. Good(q, k - 1)
    BY <1>6
  <2>2. f[k] = r /\ k \in 0 .. n
    BY <1>1, <1>4
  <2>. HIDE DEF q
  <2>3. r \in S /\ Grows(q, r) /\ \A s \in SourceKind : Further(pages, q, r, s)
    BY <2>1, RoundGoesOn
  <2>. HIDE DEF r
  <2>4. \A s \in SourceKind : q.at[s] \in Nat /\ r.at[s] \in Nat
    BY <2>1, <2>3 DEF Merging, Rounds
  <2>5. ASSUME NEW s \in SourceKind
        PROVE  r.at[s] >= k \/ IsSeen(pages, r, s)
    <3>1. CASE IsSeen(pages, q, s)
      BY <2>3, <3>1 DEF Grows, IsSeen
    <3>2. CASE q.at[s] >= k - 1
      <4>1. r.at[s] >= q.at[s] + 1 \/ IsSeen(pages, r, s)
        BY <2>3 DEF Further
      <4>2. r.at[s] >= q.at[s] + 1 => r.at[s] >= k
        BY <1>1, <2>4, <3>2
      <4>. QED  BY <4>1, <4>2
    <3>. QED  BY <2>1, <3>1, <3>2
  <2>6. Good(r, k)
    BY <2>3, <2>5
  <2>. HIDE DEF Good
  <2>. QED  BY <2>2, <2>6
<1>7. n \in T
  <2>. HIDE DEF T
  <2>1. 0 .. n \subseteq T
    BY <1>1, <1>5, <1>6, BoundedInduction
  <2>2. n \in 0 .. n
    BY <1>1
  <2>. QED  BY <2>1, <2>2
<1>. DEFINE u == f[n]
<1>8. Good(u, n)
  BY <1>7
<1>. HIDE DEF u
<1>9. u \in Rounds(W) /\ RoundOk(pages, seen, u)
  BY <1>8 DEF Merging
<1>10. ASSUME NEW s \in SourceKind
       PROVE  IsSeen(pages, u, s)
  <2>1. CASE u.at[s] >= n
    <3>1. u.at[s] \in Nat
      BY <1>9 DEF Rounds
    <3>2. \A j \in 1 .. Len(pages[s]) : j \in 1 .. u.at[s]
      BY <1>1, <2>1, <3>1
    <3>. QED  BY <1>9, <3>2 DEF RoundOk, IsSeen
  <2>. QED  BY <1>8, <2>1
<1>. QED  BY <1>3, <1>9, <1>10 DEF u

-----------------------------------------------------------------------------
(* A batch.                                                                *)

\* What a session is made of, for queries of Q and artworks of W.
Notice == [kind : {"Failed", "Unavailable"}, source : SourceKind]
Asked == [source : SourceKind, cursor : Nat]
Outcomes(W) ==
  [kind : {"Success"}, source : SourceKind, artworks : Seq(W), next : Nat] \cup Notice
Sessions(Q, W) ==
  [ query : Q, notices : Seq(Notice), artworks : Seq(W),
    active : SUBSET SourceKind, cursors : UNION {[S -> Nat] : S \in SUBSET SourceKind},
    seen : SUBSET W ]

LEMMA NextBatchAsks ==
  ASSUME NEW Q, NEW W, NEW x \in Sessions(Q, W), x.active \subseteq x.query.sources,
         x.cursors \in [x.query.sources -> Nat]
  PROVE  LET c == NextBatch(x) IN
         /\ c \in Seq(Asked) /\ DOMAIN c = 1 .. Len(c) /\ Len(c) \in Nat
         /\ \A i \in 1 .. Len(c) : c[i].source \in x.active /\ c[i].cursor = x.cursors[c[i].source]
         /\ \A i, j \in 1 .. Len(c) : c[i].source = c[j].source => i = j
         /\ \A s \in x.active : \E i \in 1 .. Len(c) : c[i].source = s
         /\ c = <<>> <=> x.active = {}
<1>. DEFINE a == Kept(SourceOrder, x.active)
            c == NextBatch(x)
            n == Len(a)
<1>1. x.active \subseteq SourceKind
  BY DEF Sessions
<1>2. a \in Seq(SourceKind) /\ Keeps(a, SourceOrder, x.active, 5) /\ Distinct(a)
  BY SourcesInOrder, KeptIsPart
<1>. HIDE DEF a
<1>3. n \in Nat /\ DOMAIN a = 1 .. n /\ \A i \in 1 .. n : a[i] \in SourceKind
  BY <1>2
<1>4. \A i \in 1 .. n : a[i] \in x.active
  BY <1>2 DEF Keeps
<1>5. \A s \in x.active : \E i \in 1 .. n : a[i] = s
  BY <1>1, <1>2, SourcesInOrder DEF Keeps
<1>6. c = [i \in 1 .. n |-> [source |-> a[i], cursor |-> x.cursors[a[i]]]]
  BY <1>3 DEF NextBatch, a
<1>7. \A i \in 1 .. n : [source |-> a[i], cursor |-> x.cursors[a[i]]] \in Asked
  <2>1. \A i \in 1 .. n : x.cursors[a[i]] \in Nat
    BY <1>4
  <2>. QED  BY <1>3, <2>1 DEF Asked
<1>. HIDE DEF c
<1>8. c \in [1 .. n -> Asked]
  BY <1>6, <1>7
<1>9. c \in Seq(Asked) /\ Len(c) = n /\ DOMAIN c = 1 .. n
  BY <1>3, <1>8, FunctionsAreSequences
<1>. HIDE DEF n
<1>10. \A i \in 1 .. n : c[i].source = a[i] /\ c[i].cursor = x.cursors[a[i]]
  BY <1>6
<1>11. \A i, j \in 1 .. n : a[i] = a[j] => i = j
  BY <1>2 DEF Distinct, n
<1>12. c = <<>> <=> x.active = {}
  <2>1. c = <<>> <=> n = 0
    BY <1>3, <1>9
  <2>2. n = 0 => 1 .. n = {}
    OBVIOUS
  <2>3. n # 0 => 1 \in 1 .. n
    BY <1>3
  <2>. QED  BY <1>4, <1>5, <2>1, <2>2, <2>3
<1>. QED  BY <1>3, <1>4, <1>5, <1>9, <1>10, <1>11, <1>12 DEF c

\* One outcome changes what stands about its own museum.
NoNotice(x, s) == \A i \in DOMAIN x.notices : x.notices[i].source # s
SameList(x, y) ==
  /\ y.query = x.query /\ y.artworks = x.artworks /\ y.seen = x.seen
  /\ DOMAIN y.cursors = DOMAIN x.cursors
  /\ \A s \in SourceKind : NoNotice(y, s) => NoNotice(x, s)
Stands(x, y, o) ==
  IF o.kind = "Success"
  THEN /\ y.cursors[o.source] = o.next
       /\ o.source \in y.active <=> o.source \in x.active /\ o.next # NoCursor
  ELSE o.source \notin y.active /\ ~NoNotice(y, o.source)
\* What is said about the museums that failed, once each.
Saying(o) == IF o.kind = "Success" THEN {} ELSE {[kind |-> o.kind, source |-> o.source]}
Said(batch, k) == UNION {Saying(batch[i]) : i \in 1 .. k}
Told(x, y, said) ==
  /\ ToSet(y.notices) = ToSet(x.notices) \cup said
  /\ Distinct(x.notices) => Distinct(y.notices)
Unmoved(x, y, s) ==
  y.cursors[s] = x.cursors[s] /\ (s \in y.active <=> s \in x.active)

LEMMA NoticeIsAdded ==
  ASSUME NEW notices \in Seq(Notice), NEW notice \in Notice
  PROVE  LET new == AddNotice(notices, notice) IN
         /\ new \in Seq(Notice)
         /\ \A i \in DOMAIN notices : i \in DOMAIN new /\ new[i] = notices[i]
         /\ \E i \in DOMAIN new : new[i] = notice
         /\ ToSet(new) = ToSet(notices) \cup {notice}
         /\ Distinct(notices) => Distinct(new)
<1>1. CASE notice \in ToSet(notices)
  BY <1>1 DEF AddNotice, ToSet
<1>2. CASE notice \notin ToSet(notices)
  <2>. DEFINE new == Append(notices, notice)
  <2>1. AddNotice(notices, notice) = new
    BY <1>2 DEF AddNotice
  <2>2. /\ Len(notices) \in Nat /\ DOMAIN notices = 1 .. Len(notices)
        /\ new \in Seq(Notice) /\ DOMAIN new = 1 .. Len(notices) + 1
        /\ \A i \in 1 .. Len(notices) : new[i] = notices[i]
        /\ new[Len(notices) + 1] = notice
    OBVIOUS
  <2>. HIDE DEF new
  <2>3. Len(notices) + 1 \in DOMAIN new /\ \A i \in DOMAIN notices : i \in DOMAIN new
    BY <2>2
  <2>4. \A i \in DOMAIN new : i \in DOMAIN notices \/ i = Len(notices) + 1
    BY <2>2
  <2>5. ToSet(new) = ToSet(notices) \cup {notice}
    BY <2>2, <2>3, <2>4, Zenon DEF ToSet
  <2>6. \A i \in DOMAIN notices : notices[i] # notice
    BY <1>2 DEF ToSet
  <2>7. Distinct(notices) => Distinct(new)
    BY <2>2, <2>4, <2>6 DEF Distinct
  <2>. QED  BY <2>1, <2>2, <2>3, <2>5, <2>7
<1>. QED  BY <1>1, <1>2

LEMMA AdvanceMovesOne ==
  ASSUME NEW Q, NEW W, NEW x \in Sessions(Q, W), NEW o \in Outcomes(W), o.source \in DOMAIN x.cursors
  PROVE  LET y == Advance(x, o) IN
         /\ y \in Sessions(Q, W) /\ SameList(x, y) /\ Stands(x, y, o)
         /\ Told(x, y, Saying(o))
         /\ \A s \in SourceKind \ {o.source} : Unmoved(x, y, s)
<1>. DEFINE y == Advance(x, o)
<1>1. /\ x.query \in Q /\ x.notices \in Seq(Notice) /\ x.artworks \in Seq(W)
      /\ x.active \in SUBSET SourceKind /\ x.seen \in SUBSET W
      /\ x.cursors \in [DOMAIN x.cursors -> Nat] /\ DOMAIN x.cursors \in SUBSET SourceKind
  BY DEF Sessions
<1>2. o.source \in SourceKind
  BY DEF Outcomes, Notice
<1>3. CASE o.kind = "Success"
  <2>1. o.next \in Nat
    BY <1>3 DEF Outcomes, Notice
  <2>2. y = [x EXCEPT !.cursors = [@ EXCEPT ![o.source] = o.next],
                      !.active = IF o.next = NoCursor THEN @ \ {o.source} ELSE @]
    BY <1>3 DEF Advance
  <2>3. /\ y.query = x.query /\ y.artworks = x.artworks /\ y.seen = x.seen
        /\ y.notices = x.notices /\ y.cursors = [x.cursors EXCEPT ![o.source] = o.next]
        /\ y.active = IF o.next = NoCursor THEN x.active \ {o.source} ELSE x.active
    BY <2>2 DEF Sessions
  <2>4. y.cursors \in [DOMAIN x.cursors -> Nat]
    BY <1>1, <2>1, <2>3
  <2>5. y \in Sessions(Q, W)
    <3>1. y = [ query |-> x.query, notices |-> x.notices, artworks |-> x.artworks,
                active |-> y.active, cursors |-> y.cursors, seen |-> x.seen ]
      BY <2>2, <2>3 DEF Sessions
    <3>2. y.cursors \in UNION {[S -> Nat] : S \in SUBSET SourceKind}
      BY <1>1, <2>4
    <3>3. y.active \in SUBSET SourceKind
      BY <1>1, <2>3
    <3>. HIDE DEF y
    <3>. QED  BY <1>1, <3>1, <3>2, <3>3 DEF Sessions
  <2>. HIDE DEF y
  <2>6. SameList(x, y)
    BY <1>1, <2>3, <2>4 DEF SameList, NoNotice
  <2>7. Stands(x, y, o)
    BY <1>1, <1>3, <2>3 DEF Stands
  <2>8. \A s \in SourceKind \ {o.source} : Unmoved(x, y, s)
    BY <1>1, <2>3 DEF Unmoved
  <2>9. Told(x, y, Saying(o))
    BY <1>3, <2>3 DEF Told, Saying
  <2>. QED  BY <2>5, <2>6, <2>7, <2>8, <2>9 DEF y
<1>4. CASE o.kind # "Success"
  <2>. DEFINE notice == [kind |-> o.kind, source |-> o.source]
              new == AddNotice(x.notices, notice)
  <2>1. notice \in Notice
    BY <1>4 DEF Outcomes, Notice
  <2>2. y = [x EXCEPT !.active = @ \ {o.source}, !.notices = new]
    BY <1>4 DEF Advance
  <2>. HIDE DEF new
  <2>3. /\ y.query = x.query /\ y.artworks = x.artworks /\ y.seen = x.seen
        /\ y.notices = new /\ y.cursors = x.cursors /\ y.active = x.active \ {o.source}
    BY <2>2 DEF Sessions
  <2>4. /\ new \in Seq(Notice)
        /\ \A i \in DOMAIN x.notices : i \in DOMAIN new /\ new[i] = x.notices[i]
        /\ \E i \in DOMAIN new : new[i] = notice
        /\ ToSet(new) = ToSet(x.notices) \cup {notice}
        /\ Distinct(x.notices) => Distinct(new)
    BY <1>1, <2>1, NoticeIsAdded DEF new
  <2>5. y \in Sessions(Q, W)
    BY <1>1, <2>2, <2>4 DEF Sessions
  <2>. HIDE DEF y
  <2>6. SameList(x, y)
    BY <2>3, <2>4 DEF SameList, NoNotice
  <2>7. Stands(x, y, o)
    BY <1>4, <2>3, <2>4 DEF Stands, NoNotice
  <2>8. \A s \in SourceKind \ {o.source} : Unmoved(x, y, s)
    BY <2>3 DEF Unmoved
  <2>9. Told(x, y, Saying(o))
    BY <1>4, <2>3, <2>4 DEF Told, Saying
  <2>. QED  BY <2>5, <2>6, <2>7, <2>8, <2>9 DEF y
<1>. QED  BY <1>3, <1>4

IsMoving(f, x, batch) ==
  f = [i \in 0 .. Len(batch) |-> IF i = 0 THEN x ELSE Advance(f[i - 1], batch[i])]

\* What the loop keeps: a session with a place for the same museums.
BatchFor(W, x) == Seq({o \in Outcomes(W) : o.source \in DOMAIN x.cursors})
SessionsLike(Q, W, x) == {y \in Sessions(Q, W) : SameList(x, y)}

LEMMA SameListIsTransitive ==
  ASSUME NEW x, NEW y, NEW z, SameList(x, y), SameList(y, z)
  PROVE  SameList(x, z)
BY DEF SameList

LEMMA MovingExists ==
  ASSUME NEW Q, NEW W, NEW x \in Sessions(Q, W), NEW batch \in BatchFor(W, x)
  PROVE  \E f : /\ IsMoving(f, x, batch) /\ Moved(x, batch) = f[Len(batch)]
<1>. DEFINE S == SessionsLike(Q, W, x)
            n == Len(batch)
            step == [k \in 1 .. n |-> [y \in S |-> Advance(y, batch[k])]]
<1>1. n \in Nat /\ \A i \in 1 .. n : batch[i] \in Outcomes(W) /\ batch[i].source \in DOMAIN x.cursors
  BY DEF BatchFor
<1>2. step \in [1 .. n -> [S -> S]]
  <2>1. ASSUME NEW k \in 1 .. n, NEW y \in S
        PROVE  Advance(y, batch[k]) \in S
    <3>1. y \in Sessions(Q, W) /\ SameList(x, y)
      BY DEF SessionsLike
    <3>2. batch[k] \in Outcomes(W) /\ batch[k].source \in DOMAIN y.cursors
      BY <1>1, <3>1 DEF SameList
    <3>3. Advance(y, batch[k]) \in Sessions(Q, W) /\ SameList(y, Advance(y, batch[k]))
      BY <3>1, <3>2, AdvanceMovesOne
    <3>. QED  BY <3>1, <3>3, SameListIsTransitive DEF SessionsLike
  <2>. HIDE DEF S
  <2>. QED  BY <2>1
<1>3. x \in S
  BY DEF SessionsLike, SameList
<1>4. PICK g : /\ g \in [0 .. n -> S] /\ g[0] = x
               /\ \A k \in 1 .. n : g[k] = step[k][g[k - 1]]
  <2>. HIDE DEF S, step, n
  <2>1. n \in Nat
    BY <1>1
  <2>2. \E g : IsIteration(g, S, x, n, step)
    BY <1>2, <1>3, <2>1, SomeIteration
  <2>. QED  BY <2>2 DEF IsIteration
<1>5. ASSUME NEW k \in 0 .. n
      PROVE  g[k] = IF k = 0 THEN x ELSE Advance(g[k - 1], batch[k])
  <2>1. CASE k = 0
    BY <1>4, <2>1
  <2>2. CASE k # 0
    <3>1. k \in 1 .. n /\ k - 1 \in 0 .. n
      BY <2>2
    <3>2. g[k - 1] \in S
      BY <1>4, <3>1
    <3>3. step[k][g[k - 1]] = Advance(g[k - 1], batch[k])
      BY <3>1, <3>2
    <3>. HIDE DEF step
    <3>. QED  BY <1>4, <2>2, <3>1, <3>3
  <2>. QED  BY <2>1, <2>2
<1>6. IsMoving(g, x, batch)
  <2>. HIDE DEF S, step
  <2>. QED  BY <1>4, <1>5 DEF IsMoving
<1>. DEFINE f == CHOOSE f : IsMoving(f, x, batch)
<1>7. IsMoving(f, x, batch)
  BY <1>6
<1>8. Moved(x, batch) = f[Len(batch)]
  BY DEF Moved, IsMoving
<1>. HIDE DEF f
<1>. QED  BY <1>7, <1>8

LEMMA EachMuseumMoves ==
  ASSUME NEW Q, NEW W, NEW x \in Sessions(Q, W), NEW batch \in Seq(Outcomes(W)),
         \A i \in 1 .. Len(batch) : batch[i].source \in DOMAIN x.cursors,
         \A i, j \in 1 .. Len(batch) : batch[i].source = batch[j].source => i = j
  PROVE  LET y == Moved(x, batch) IN
         /\ y \in Sessions(Q, W) /\ SameList(x, y)
         /\ Told(x, y, Said(batch, Len(batch)))
         /\ \A i \in 1 .. Len(batch) : Stands(x, y, batch[i])
         /\ \A s \in SourceKind :
              (\A i \in 1 .. Len(batch) : batch[i].source # s) => Unmoved(x, y, s)
<1>. DEFINE n == Len(batch)
<1>1. n \in Nat /\ \A i \in 1 .. n : batch[i] \in Outcomes(W)
  OBVIOUS
<1>2. PICK f : IsMoving(f, x, batch) /\ Moved(x, batch) = f[n]
  <2>1. batch \in BatchFor(W, x)
    BY DEF BatchFor
  <2>. QED  BY <2>1, MovingExists
<1>3. \A k \in 0 .. n : f[k] = IF k = 0 THEN x ELSE Advance(f[k - 1], batch[k])
  BY <1>2 DEF IsMoving
<1>4. \A i \in 1 .. n : batch[i].source \in SourceKind
  BY <1>1 DEF Outcomes, Notice
<1>. DEFINE Good(y, k) ==
              /\ y \in Sessions(Q, W) /\ SameList(x, y)
              /\ Told(x, y, Said(batch, k))
              /\ \A i \in 1 .. k : Stands(x, y, batch[i])
              /\ \A s \in SourceKind :
                   (\A i \in 1 .. k : batch[i].source # s) => Unmoved(x, y, s)
            T == {k \in 0 .. n : Good(f[k], k)}
<1>5. 0 \in T
  <2>1. f[0] = x /\ 0 \in 0 .. n
    BY <1>1, <1>3
  <2>2. Told(x, x, Said(batch, 0))
    BY DEF Told, Said
  <2>3. Good(x, 0)
    BY <2>2 DEF SameList, Unmoved
  <2>. HIDE DEF Good
  <2>. QED  BY <2>1, <2>3
<1>6. ASSUME NEW k \in 1 .. n, k - 1 \in T
      PROVE  k \in T
  <2>. DEFINE y == f[k - 1]
              z == Advance(y, batch[k])
              own == batch[k].source
  <2>1. Good(y, k - 1)
    BY <1>6
  <2>2. f[k] = z /\ k \in 0 .. n
    BY <1>1, <1>3
  <2>. HIDE DEF y
  <2>3. batch[k] \in Outcomes(W) /\ own \in DOMAIN y.cursors /\ own \in SourceKind
    BY <1>1, <1>4, <2>1 DEF SameList
  <2>4. /\ z \in Sessions(Q, W) /\ SameList(y, z) /\ Stands(y, z, batch[k])
        /\ Told(y, z, Saying(batch[k]))
        /\ \A s \in SourceKind \ {own} : Unmoved(y, z, s)
    BY <2>1, <2>3, AdvanceMovesOne
  <2>. HIDE DEF z, n
  <2>5. SameList(x, z)
    BY <2>1, <2>4, SameListIsTransitive
  <2>6. \A i \in 1 .. k - 1 : i \in 1 .. n /\ i # k /\ i \in 1 .. k
    BY <1>1
  <2>7. \A i \in 1 .. k : i \in 1 .. k - 1 \/ i = k
    BY <1>1
  <2>8. \A i \in 1 .. k - 1 : batch[i].source # own
    BY <2>6 DEF n
  <2>9. Stands(x, z, batch[k])
    <3>1. Unmoved(x, y, own)
      BY <2>1, <2>3, <2>8
    <3>. QED  BY <2>3, <2>4, <3>1 DEF Stands, Unmoved
  <2>10. ASSUME NEW i \in 1 .. k - 1
         PROVE  Stands(x, z, batch[i])
    <3>1. batch[i].source \in SourceKind \ {own} /\ Stands(x, y, batch[i])
      BY <1>4, <2>1, <2>6, <2>8
    <3>2. Unmoved(y, z, batch[i].source)
      BY <2>4, <3>1
    <3>3. ~NoNotice(y, batch[i].source) => ~NoNotice(z, batch[i].source)
      BY <2>4, <3>1 DEF SameList
    <3>. QED  BY <3>1, <3>2, <3>3 DEF Stands, Unmoved
  <2>11. ASSUME NEW s \in SourceKind, \A i \in 1 .. k : batch[i].source # s
         PROVE  Unmoved(x, z, s)
    <3>1. Unmoved(x, y, s)
      BY <2>1, <2>6, <2>11
    <3>2. k \in 1 .. k
      BY <1>1
    <3>3. Unmoved(y, z, s)
      BY <2>4, <2>11, <3>2
    <3>. QED  BY <3>1, <3>3 DEF Unmoved
  <2>12. Told(x, z, Said(batch, k))
    <3>1. 1 .. k = (1 .. k - 1) \cup {k}
      BY <1>1
    <3>2. Said(batch, k) = Said(batch, k - 1) \cup Saying(batch[k])
      BY <3>1 DEF Said
    <3>3. Told(x, y, Said(batch, k - 1))
      BY <2>1
    <3>. QED  BY <2>4, <3>2, <3>3 DEF Told
  <2>13. Good(z, k)
    BY <2>4, <2>5, <2>7, <2>9, <2>10, <2>11, <2>12
  <2>. HIDE DEF Good
  <2>. QED  BY <2>2, <2>13
<1>7. n \in T
  <2>. HIDE DEF T, n
  <2>1. 0 .. n \subseteq T
    BY <1>1, <1>5, <1>6, BoundedInduction
  <2>2. n \in 0 .. n
    BY <1>1
  <2>. QED  BY <2>1, <2>2
<1>8. Good(f[n], n)
  BY <1>7
<1>. QED  BY <1>2, <1>8

LEMMA PagesAreAnswers ==
  ASSUME NEW W, NEW batch \in Seq(Outcomes(W)),
         \A i, j \in 1 .. Len(batch) : batch[i].source = batch[j].source => i = j
  PROVE  /\ PagesOf(batch) \in [SourceKind -> Seq(W)]
         /\ \A i \in 1 .. Len(batch) : batch[i].kind = "Success" =>
              PagesOf(batch)[batch[i].source] = batch[i].artworks
         /\ \A s \in SourceKind : \A j \in 1 .. Len(PagesOf(batch)[s]) :
              \E i \in 1 .. Len(batch) :
                /\ batch[i].kind = "Success" /\ batch[i].source = s
                /\ PagesOf(batch)[s][j] \in ToSet(batch[i].artworks)
<1>. DEFINE n == Len(batch)
            of(s) == {i \in DOMAIN batch : batch[i].kind = "Success" /\ batch[i].source = s}
            at(s) == CHOOSE i \in of(s) : TRUE
            P == PagesOf(batch)
<1>1. n \in Nat /\ DOMAIN batch = 1 .. n /\ \A i \in 1 .. n : batch[i] \in Outcomes(W)
  OBVIOUS
<1>2. \A i \in 1 .. n : batch[i].kind = "Success" =>
        batch[i].artworks \in Seq(W) /\ batch[i].source \in SourceKind
  BY <1>1 DEF Outcomes, Notice
<1>3. P = [s \in SourceKind |-> IF of(s) = {} THEN <<>> ELSE batch[at(s)].artworks]
  BY DEF PagesOf
<1>4. \A s \in SourceKind : of(s) # {} =>
        at(s) \in 1 .. n /\ batch[at(s)].kind = "Success" /\ batch[at(s)].source = s
  <2>. SUFFICES ASSUME NEW s \in SourceKind, of(s) # {}
                PROVE  at(s) \in 1 .. n /\ batch[at(s)].kind = "Success" /\ batch[at(s)].source = s
    OBVIOUS
  <2>1. at(s) \in of(s)
    OBVIOUS
  <2>. HIDE DEF at
  <2>. QED  BY <1>1, <2>1
<1>5. \A i \in 1 .. n : batch[i].kind = "Success" => i \in of(batch[i].source)
  BY <1>1
<1>6. \A s \in SourceKind : of(s) = {} => P[s] = <<>>
  BY <1>3
<1>7. \A s \in SourceKind : of(s) # {} => P[s] = batch[at(s)].artworks
  BY <1>3
<1>8. P \in [SourceKind -> Seq(W)]
  <2>1. \A s \in SourceKind :
          (IF of(s) = {} THEN <<>> ELSE batch[at(s)].artworks) \in Seq(W)
    <3>. HIDE DEF of, at
    <3>. QED  BY <1>2, <1>4
  <2>. HIDE DEF of, at, P
  <2>. QED  BY <1>3, <2>1
<1>. HIDE DEF of, at, P
<1>9. ASSUME NEW i \in 1 .. n, batch[i].kind = "Success"
      PROVE  P[batch[i].source] = batch[i].artworks
  <2>. DEFINE s == batch[i].source
  <2>1. s \in SourceKind /\ of(s) # {}
    BY <1>2, <1>5, <1>9
  <2>2. at(s) = i
    BY <1>4, <2>1
  <2>. QED  BY <1>7, <2>1, <2>2
<1>10. ASSUME NEW s \in SourceKind, NEW j \in 1 .. Len(P[s])
       PROVE  \E i \in 1 .. n : /\ batch[i].kind = "Success" /\ batch[i].source = s
                                /\ P[s][j] \in ToSet(batch[i].artworks)
  <2>1. P[s] # <<>>
    BY <1>8
  <2>2. of(s) # {}
    BY <1>6, <2>1
  <2>3. P[s] = batch[at(s)].artworks /\ at(s) \in 1 .. n
        /\ batch[at(s)].kind = "Success" /\ batch[at(s)].source = s
    BY <1>4, <1>7, <2>2
  <2>4. P[s][j] \in ToSet(P[s])
    BY <1>8 DEF ToSet
  <2>. QED  BY <2>3, <2>4
<1>. QED  BY <1>8, <1>9, <1>10 DEF P
=============================================================================
