----------------------------- MODULE ArtProofs ------------------------------
(***************************************************************************)
(* The one search session of the artwork service is the search it names,   *)
(* for every number of tabs, every museum and every order of the requests. *)
(***************************************************************************)
EXTENDS ArtService, SearchProofs

-----------------------------------------------------------------------------
(* Lists.                                                                  *)

LEMMA AppendedBehind ==
  ASSUME NEW W, NEW s \in Seq(W), NEW p \in Seq(W), NEW e \in W
  PROVE  /\ Append(s \o p, e) = s \o Append(p, e)
         /\ Append(p, e) \in Seq(W)
<1>. DEFINE l == Append(s \o p, e)
            r == s \o Append(p, e)
            m == Len(s)
            n == Len(p)
<1>1. m \in Nat /\ n \in Nat
  OBVIOUS
<1>2. l \in Seq(W) /\ r \in Seq(W) /\ Len(l) = m + n + 1 /\ Len(r) = m + n + 1
  OBVIOUS
<1>3. ASSUME NEW i \in 1 .. m + n + 1
      PROVE  l[i] = r[i]
  <2>1. CASE i = m + n + 1
    BY <1>1, <2>1
  <2>2. CASE i # m + n + 1
    <3>1. i \in 1 .. m + n
      BY <1>1, <2>2
    <3>2. CASE i <= m
      BY <1>1, <3>1, <3>2
    <3>3. CASE ~(i <= m)
      <4>1. i - m \in 1 .. n
        BY <1>1, <3>1, <3>3
      <4>. QED  BY <1>1, <3>1, <3>3, <4>1
    <3>. QED  BY <3>2, <3>3
  <2>. QED  BY <2>1, <2>2
<1>4. l = r
  <2>. HIDE DEF l, r
  <2>. QED  BY <1>1, <1>2, <1>3, SeqEqual
<1>. QED  BY <1>4

\* What is kept of two lists, one behind the other.
LEMMA KeptOfBoth ==
  ASSUME NEW W, NEW a \in Seq(W), NEW b \in Seq(W), NEW some, NEW someA, NEW someB,
         \A i \in 1 .. Len(a) : a[i] \in some <=> a[i] \in someA,
         \A i \in 1 .. Len(b) : b[i] \in some <=> b[i] \in someB
  PROVE  Kept(a \o b, some) = Kept(a, someA) \o Kept(b, someB)
<1>. DEFINE c == a \o b
            m == Len(a)
            n == Len(b)
<1>1. /\ m \in Nat /\ n \in Nat /\ c \in Seq(W) /\ Len(c) = m + n
      /\ \A i \in 1 .. m : c[i] = a[i]
      /\ \A i \in 1 .. n : c[m + i] = b[i]
      /\ \A i \in 1 .. n : b[i] \in W
  OBVIOUS
<1>2. PICK f : IsKept(f, a, someA) /\ Kept(a, someA) = f[m]
  BY KeptByStep
<1>3. PICK g : IsKept(g, b, someB) /\ Kept(b, someB) = g[n]
  BY KeptByStep
<1>4. PICK h : IsKept(h, c, some) /\ Kept(c, some) = h[m + n]
  <2>. HIDE DEF c
  <2>. QED  BY <1>1, KeptByStep
<1>. HIDE DEF c
<1>5. \A i \in 0 .. m :
        f[i] = IF i = 0 THEN <<>>
               ELSE IF a[i] \in someA THEN Append(f[i - 1], a[i]) ELSE f[i - 1]
  BY <1>2 DEF IsKept
<1>6. \A i \in 0 .. n :
        g[i] = IF i = 0 THEN <<>>
               ELSE IF b[i] \in someB THEN Append(g[i - 1], b[i]) ELSE g[i - 1]
  BY <1>3 DEF IsKept
<1>7. \A i \in 0 .. m + n :
        h[i] = IF i = 0 THEN <<>>
               ELSE IF c[i] \in some THEN Append(h[i - 1], c[i]) ELSE h[i - 1]
  BY <1>1, <1>4 DEF IsKept
<1>. HIDE DEF m, n
<1>8. h[m] = f[m]
  <2>. DEFINE T == {k \in 0 .. m : h[k] = f[k]}
  <2>1. 0 \in T
    BY <1>1, <1>5, <1>7
  <2>2. ASSUME NEW k \in 1 .. m, k - 1 \in T
        PROVE  k \in T
    <3>1. k \in 0 .. m /\ k \in 0 .. m + n /\ k # 0 /\ h[k - 1] = f[k - 1] /\ c[k] = a[k]
      BY <1>1, <2>2
    <3>2. c[k] \in some <=> a[k] \in someA
      BY <3>1 DEF m
    <3>. QED  BY <1>5, <1>7, <3>1, <3>2
  <2>3. 0 .. m \subseteq T
    <3>. HIDE DEF T
    <3>. QED  BY <1>1, <2>1, <2>2, BoundedInduction
  <2>4. m \in 0 .. m
    BY <1>1
  <2>. QED  BY <2>3, <2>4
<1>9. f[m] \in Seq(W)
  BY <1>2, KeptIsPart DEF m
<1>10. h[m + n] = f[m] \o g[n]
  <2>. DEFINE T == {k \in 0 .. n : g[k] \in Seq(W) /\ h[m + k] = f[m] \o g[k]}
  <2>1. 0 \in T
    <3>1. g[0] = <<>> /\ m + 0 = m /\ 0 \in 0 .. n
      BY <1>1, <1>6
    <3>2. f[m] \o <<>> = f[m] /\ <<>> \in Seq(W)
      BY <1>9
    <3>. QED  BY <1>8, <3>1, <3>2
  <2>2. ASSUME NEW k \in 1 .. n, k - 1 \in T
        PROVE  k \in T
    <3>1. /\ k \in 0 .. n /\ m + k \in 0 .. m + n /\ k # 0 /\ m + k # 0
          /\ (m + k) - 1 = m + (k - 1) /\ c[m + k] = b[k] /\ b[k] \in W
      BY <1>1
    <3>2. b[k] \in some <=> b[k] \in someB
      BY DEF n
    <3>. DEFINE p == g[k - 1]
    <3>3. p \in Seq(W) /\ h[m + (k - 1)] = f[m] \o p
      BY <2>2
    <3>4. /\ g[k] = IF b[k] \in someB THEN Append(p, b[k]) ELSE p
          /\ h[m + k] = IF b[k] \in some THEN Append(f[m] \o p, b[k]) ELSE f[m] \o p
      BY <1>6, <1>7, <3>1, <3>3
    <3>. HIDE DEF p
    <3>5. /\ Append(f[m] \o p, b[k]) = f[m] \o Append(p, b[k])
          /\ Append(p, b[k]) \in Seq(W)
      <4>. DEFINE s == f[m]
                  e == b[k]
      <4>1. p \in Seq(W) /\ e \in W /\ s \in Seq(W)
        BY <1>9, <3>1, <3>3
      <4>. HIDE DEF s, e
      <4>2. Append(s \o p, e) = s \o Append(p, e) /\ Append(p, e) \in Seq(W)
        BY <4>1, AppendedBehind
      <4>. QED  BY <4>2 DEF s, e
    <3>. QED  BY <3>1, <3>2, <3>3, <3>4, <3>5
  <2>3. 0 .. n \subseteq T
    <3>. HIDE DEF T
    <3>. QED  BY <1>1, <2>1, <2>2, BoundedInduction
  <2>4. n \in 0 .. n
    BY <1>1
  <2>. QED  BY <2>3, <2>4
<1>. QED  BY <1>2, <1>3, <1>4, <1>10 DEF c

-----------------------------------------------------------------------------
(* A batch.                                                                *)

AllFound == UNION {UNION {FoundBy(query, s) : s \in query.sources} : query \in Queries}
Outcome == Outcomes(AllFound)
SessionType == Sessions(Queries, AllFound)

LEMMA QueriesAreTyped ==
  ASSUME NEW query \in Queries
  PROVE  query.sources \in SUBSET SourceKind
<1>1. PICK form \in Forms : query = SearchQuery(form)
  BY DEF Queries
<1>2. form \in [query : {form.query}, sources : SUBSET SourceKind, culture : {form.culture}]
  BY TrialsAssumption
<1>. QED  BY <1>1, <1>2 DEF SearchQuery

\* What a museum may answer: its page at the place asked for, or a part of it.
PlaceOf(ask) == IF ask.cursor = NoCursor THEN 1 ELSE ask.cursor
PageFor(query, ask) == Museum(query, ask.source)[PlaceOf(ask)]
IsAnswer(query, ask, o) ==
  /\ o \in Outcome /\ o.source = ask.source
  /\ o.kind = "Success" =>
       /\ o.next = IF PlaceOf(ask) < Len(Museum(query, ask.source))
                   THEN PlaceOf(ask) + 1 ELSE NoCursor
       /\ o.artworks \in Seq(FoundBy(query, ask.source))
       /\ ToSet(o.artworks) \subseteq ToSet(PageFor(query, ask))
Askable(query, ask) ==
  /\ ask \in Asked /\ ask.source \in query.sources
  /\ ask.cursor <= Len(Museum(query, ask.source))

LEMMA PlacesExist ==
  ASSUME NEW query \in Queries, NEW ask, Askable(query, ask)
  PROVE  /\ PlaceOf(ask) \in 1 .. Len(Museum(query, ask.source))
         /\ PageFor(query, ask) \in Seq(FoundBy(query, ask.source))
         /\ Len(Museum(query, ask.source)) \in Nat
         /\ \A a \in FoundBy(query, ask.source) : a \in AllFound /\ a.source = ask.source
<1>. DEFINE s == ask.source
            pages == Museum(query, s)
            F == FoundBy(query, s)
<1>1. s \in query.sources /\ ask.cursor \in Nat /\ ask.cursor <= Len(pages)
  BY DEF Askable, Asked
<1>2. pages \in Seq(Seq(F)) /\ pages # <<>> /\ \A a \in F : a.source = s
  BY <1>1, MuseumAssumption
<1>3. \A a \in F : a \in AllFound
  BY <1>1 DEF AllFound
<1>. HIDE DEF pages, F
<1>4. Len(pages) \in Nat /\ Len(pages) # 0 /\ \A n \in 1 .. Len(pages) : pages[n] \in Seq(F)
  BY <1>2
<1>5. PlaceOf(ask) \in 1 .. Len(pages)
  BY <1>1, <1>4 DEF PlaceOf, NoCursor
<1>. QED  BY <1>2, <1>3, <1>4, <1>5 DEF PageFor, pages, F

LEMMA AnswersAreAnswers ==
  ASSUME NEW query \in Queries, NEW ask, Askable(query, ask), NEW o \in Answers(query, ask)
  PROVE  IsAnswer(query, ask, o)
<1>. DEFINE s == ask.source
            F == FoundBy(query, s)
            page == PageFor(query, ask)
            next == IF PlaceOf(ask) < Len(Museum(query, s)) THEN PlaceOf(ask) + 1 ELSE NoCursor
<1>1. s \in SourceKind
  BY DEF Askable, Asked
<1>2. page \in Seq(F) /\ PlaceOf(ask) \in Nat /\ F \subseteq AllFound /\ next \in Nat
  BY PlacesExist DEF NoCursor
<1>3. PageAt(query, s, ask.cursor) = [artworks |-> page, next |-> next]
  BY DEF PageAt, PageFor, PlaceOf
<1>. HIDE DEF page, next, F
<1>4. \/ o = Unavailable(s) \/ o = Failed(s)
      \/ \E some \in SomeOf(page, s) : o = Success(s, some, next)
  BY <1>3 DEF Answers
<1>5. CASE o = Unavailable(s) \/ o = Failed(s)
  BY <1>1, <1>5 DEF Unavailable, Failed, IsAnswer, Outcome, Outcomes, Notice
<1>6. CASE \E some \in SomeOf(page, s) : o = Success(s, some, next)
  <2>1. PICK some \in SomeOf(page, s) : o = Success(s, some, next)
    BY <1>6
  <2>2. some \in Seq(F) /\ ToSet(some) \subseteq ToSet(page)
    <3>1. CASE some = page
      BY <1>2, <3>1
    <3>2. CASE \E resolved : some = Kept(page, resolved)
      BY <1>2, <3>2, ElementsKept
    <3>. QED  BY <3>1, <3>2 DEF SomeOf
  <2>3. some \in Seq(AllFound)
    BY <1>2, <2>2, SeqMonotonic
  <2>4. o \in Outcome
    BY <1>1, <1>2, <2>1, <2>3 DEF Success, Outcome, Outcomes, Notice
  <2>5. o.source = s /\ o.next = next /\ o.artworks = some
    BY <2>1 DEF Success
  <2>. QED  BY <2>2, <2>4, <2>5 DEF IsAnswer, page, next, F
<1>. QED  BY <1>4, <1>5, <1>6

\* What holds of the session between two batches.
TakenOf(x, s) ==
  IF s \notin x.active THEN Len(Museum(x.query, s))
  ELSE IF x.cursors[s] = NoCursor THEN 0 ELSE x.cursors[s] - 1

\* Its places are places of its museums.
WellPlaced(x) ==
  /\ x \in SessionType
  /\ x.cursors \in [x.query.sources -> Nat]
  /\ x.active \subseteq x.query.sources
  /\ \A s \in x.active : x.cursors[s] <= Len(Museum(x.query, s))
\* It lists what its museums have, once.
ListsItsOwn(x) ==
  /\ Distinct(x.artworks)
  /\ \A a : a \in x.seen <=> \E i \in 1 .. Len(x.artworks) : x.artworks[i] = a
  /\ \A i \in 1 .. Len(x.artworks) :
       \E s \in x.query.sources : x.artworks[i] \in FoundBy(x.query, s)
\* And all of what they gave.
ListsAllTaken(x, missing) ==
  \A s \in x.query.sources :
    NoNotice(x, s) =>
      \A n \in 1 .. TakenOf(x, s) : \A a \in ToSet(Museum(x.query, s)[n]) :
        a \in x.seen \/ a \in missing
SessionOk(x, missing) == WellPlaced(x) /\ ListsItsOwn(x) /\ ListsAllTaken(x, missing)

\* A batch answers what the session asked.
Answered(x, batch, missing) ==
  LET c == NextBatch(x) IN
  /\ batch \in Seq(Outcome) /\ Len(batch) = Len(c)
  /\ \A i \in 1 .. Len(batch) :
       /\ Askable(x.query, c[i]) /\ IsAnswer(x.query, c[i], batch[i])
       /\ batch[i].kind = "Success" =>
            \A a \in ToSet(PageFor(x.query, c[i])) :
              a \in ToSet(batch[i].artworks) \/ a \in missing

LEMMA BatchesAnswer ==
  ASSUME NEW x, WellPlaced(x), NEW batch \in Batches(x.query, NextBatch(x))
  PROVE  Answered(x, batch, DroppedBy(x.query, NextBatch(x), batch))
<1>. DEFINE c == NextBatch(x)
            n == Len(c)
<1>1. /\ c \in Seq(Asked) /\ DOMAIN c = 1 .. n /\ n \in Nat
      /\ \A i \in 1 .. n : c[i].source \in x.active /\ c[i].cursor = x.cursors[c[i].source]
  BY NextBatchAsks DEF WellPlaced, SessionType
<1>2. batch \in Batches(x.query, c)
  OBVIOUS
<1>. HIDE DEF c
<1>3. \A i \in 1 .. n : Askable(x.query, c[i])
  BY <1>1 DEF Askable, WellPlaced
<1>4. x.query \in Queries
  BY DEF WellPlaced, SessionType, Sessions
<1>5. DOMAIN batch = 1 .. n /\ \A i \in 1 .. n : batch[i] \in Answers(x.query, c[i])
  BY <1>1, <1>2 DEF Batches
<1>6. \A i \in 1 .. n : IsAnswer(x.query, c[i], batch[i])
  BY <1>3, <1>4, <1>5, AnswersAreAnswers
<1>7. batch \in Seq(Outcome) /\ Len(batch) = n
  <2>1. \E V : batch \in [1 .. n -> V]
    BY <1>1, <1>2 DEF Batches
  <2>2. batch \in [1 .. n -> Outcome]
    BY <1>6, <2>1 DEF IsAnswer
  <2>. HIDE DEF n
  <2>. QED  BY <1>1, <2>2, FunctionsAreSequences
<1>8. ASSUME NEW i \in 1 .. n, batch[i].kind = "Success",
             NEW a \in ToSet(PageFor(x.query, c[i])), a \notin ToSet(batch[i].artworks)
      PROVE  a \in DroppedBy(x.query, c, batch)
  <2>1. PageAt(x.query, c[i].source, c[i].cursor).artworks = PageFor(x.query, c[i])
    BY DEF PageAt, PageFor, PlaceOf
  <2>2. i \in {k \in DOMAIN batch : batch[k].kind = "Success"}
    BY <1>5, <1>8
  <2>. QED  BY <1>8, <2>1, <2>2 DEF DroppedBy
<1>. QED  BY <1>3, <1>6, <1>7, <1>8 DEF Answered, c

\* The batch moves the museums that were asked, each by the page it gave.
Gave(x, batch, i, s) ==
  /\ batch[i].kind = "Success" /\ batch[i].source = s
  /\ PlaceOf(NextBatch(x)[i]) = TakenOf(x, s) + 1
LEMMA PlacesMove ==
  ASSUME NEW x, WellPlaced(x), NEW batch, NEW dropped, Answered(x, batch, dropped)
  PROVE  LET y == Moved(x, batch) IN
         /\ WellPlaced(y) /\ SameList(x, y)
         /\ \A s \in x.query.sources : NoNotice(y, s) =>
              /\ NoNotice(x, s) /\ TakenOf(x, s) \in Nat
              /\ \/ TakenOf(y, s) = TakenOf(x, s)
                 \/ /\ TakenOf(y, s) = TakenOf(x, s) + 1
                    /\ \E i \in 1 .. Len(batch) : Gave(x, batch, i, s)
<1>. DEFINE c == NextBatch(x)
            n == Len(batch)
            y == Moved(x, batch)
            L(s) == Len(Museum(x.query, s))
<1>1. /\ x \in SessionType /\ x.cursors \in [x.query.sources -> Nat]
      /\ x.active \subseteq x.query.sources
      /\ \A s \in x.active : x.cursors[s] <= L(s)
  BY DEF WellPlaced
<1>2. x.query \in Queries /\ x.query.sources \subseteq SourceKind
  BY <1>1, QueriesAreTyped DEF SessionType, Sessions
<1>3. /\ c \in Seq(Asked)
      /\ \A i \in 1 .. Len(c) : c[i].source \in x.active /\ c[i].cursor = x.cursors[c[i].source]
      /\ \A i, j \in 1 .. Len(c) : c[i].source = c[j].source => i = j
      /\ \A s \in x.active : \E i \in 1 .. Len(c) : c[i].source = s
  BY <1>1, NextBatchAsks DEF SessionType
<1>. HIDE DEF c
<1>4. /\ batch \in Seq(Outcome) /\ Len(c) = n
      /\ \A i \in 1 .. n : Askable(x.query, c[i]) /\ IsAnswer(x.query, c[i], batch[i])
  BY DEF Answered, c
<1>5. \A i \in 1 .. n : batch[i].source = c[i].source /\ batch[i].source \in x.active
  BY <1>3, <1>4 DEF IsAnswer
<1>6. /\ y \in SessionType /\ SameList(x, y)
      /\ \A i \in 1 .. n : Stands(x, y, batch[i])
      /\ \A s \in SourceKind : (\A i \in 1 .. n : batch[i].source # s) => Unmoved(x, y, s)
  <2>1. \A i \in 1 .. n : batch[i].source \in DOMAIN x.cursors
    BY <1>1, <1>5
  <2>2. \A i, j \in 1 .. n : batch[i].source = batch[j].source => i = j
    BY <1>3, <1>4, <1>5
  <2>. QED  BY <1>1, <1>4, <2>1, <2>2, EachMuseumMoves DEF SessionType, Outcome
<1>. HIDE DEF y
<1>7. \A s \in SourceKind \ x.active : Unmoved(x, y, s)
  BY <1>5, <1>6
<1>8. \A i \in 1 .. n : /\ PlaceOf(c[i]) \in 1 .. L(c[i].source) /\ L(c[i].source) \in Nat
  BY <1>2, <1>4, PlacesExist
<1>9. ASSUME NEW s \in x.active
      PROVE  \E i \in 1 .. n :
               /\ batch[i].source = s /\ Stands(x, y, batch[i])
               /\ PlaceOf(c[i]) \in 1 .. L(s) /\ L(s) \in Nat
               /\ PlaceOf(c[i]) = IF x.cursors[s] = 0 THEN 1 ELSE x.cursors[s]
               /\ batch[i].kind = "Success" =>
                    batch[i].next = IF PlaceOf(c[i]) < L(s) THEN PlaceOf(c[i]) + 1 ELSE 0
  <2>1. PICK i \in 1 .. n : c[i].source = s
    BY <1>3, <1>4
  <2>2. c[i].cursor = x.cursors[s]
    BY <1>3, <1>4, <2>1
  <2>3. PlaceOf(c[i]) = IF x.cursors[s] = 0 THEN 1 ELSE x.cursors[s]
    BY <2>2 DEF PlaceOf, NoCursor
  <2>. HIDE DEF n, L
  <2>4. IsAnswer(x.query, c[i], batch[i])
    BY <1>4
  <2>. QED  BY <1>5, <1>6, <1>8, <2>1, <2>3, <2>4 DEF IsAnswer, NoCursor, L
<1>10. \A s \in x.active : x.cursors[s] \in Nat
  BY <1>1
<1>. HIDE DEF n, L
<1>11. WellPlaced(y)
  <2>1. y.query = x.query /\ DOMAIN y.cursors = x.query.sources /\ y.active \subseteq SourceKind
    BY <1>1, <1>6 DEF SameList, SessionType, Sessions
  <2>2. y.cursors \in [y.query.sources -> Nat]
    BY <1>6, <2>1 DEF SessionType, Sessions
  <2>3. ASSUME NEW s \in y.active
        PROVE  s \in x.active /\ y.cursors[s] <= Len(Museum(y.query, s))
    <3>1. s \in x.active
      BY <1>7, <2>1, <2>3 DEF Unmoved
    <3>2. PICK i \in 1 .. n :
               /\ batch[i].source = s /\ Stands(x, y, batch[i])
               /\ PlaceOf(c[i]) \in 1 .. L(s) /\ L(s) \in Nat
               /\ batch[i].kind = "Success" =>
                    batch[i].next = IF PlaceOf(c[i]) < L(s) THEN PlaceOf(c[i]) + 1 ELSE 0
      BY <1>9, <3>1
    <3>3. batch[i].kind = "Success" /\ y.cursors[s] = batch[i].next /\ batch[i].next # 0
      BY <2>3, <3>2 DEF Stands, NoCursor
    <3>4. y.cursors[s] <= L(s)
      BY <3>2, <3>3
    <3>. QED  BY <2>1, <3>1, <3>4 DEF L
  <2>. QED  BY <1>1, <1>6, <2>1, <2>2, <2>3 DEF WellPlaced
<1>12. ASSUME NEW s \in x.query.sources, NoNotice(y, s)
       PROVE  /\ NoNotice(x, s) /\ TakenOf(x, s) \in Nat
              /\ \/ TakenOf(y, s) = TakenOf(x, s)
                 \/ /\ TakenOf(y, s) = TakenOf(x, s) + 1
                    /\ \E i \in 1 .. n : Gave(x, batch, i, s)
  <2>1. s \in SourceKind /\ NoNotice(x, s) /\ y.query = x.query
    BY <1>2, <1>6, <1>12 DEF SameList
  <2>2. CASE s \notin x.active
    <3>1. TakenOf(x, s) = L(s) /\ TakenOf(y, s) = L(s)
      BY <1>7, <2>1, <2>2 DEF TakenOf, Unmoved, L
    <3>2. L(s) \in Nat
      BY <1>2, MuseumAssumption DEF L
    <3>. QED  BY <2>1, <3>1, <3>2
  <2>3. CASE s \in x.active
    <3>1. PICK i \in 1 .. n :
               /\ batch[i].source = s /\ Stands(x, y, batch[i])
               /\ PlaceOf(c[i]) \in 1 .. L(s) /\ L(s) \in Nat
               /\ PlaceOf(c[i]) = IF x.cursors[s] = 0 THEN 1 ELSE x.cursors[s]
               /\ batch[i].kind = "Success" =>
                    batch[i].next = IF PlaceOf(c[i]) < L(s) THEN PlaceOf(c[i]) + 1 ELSE 0
      BY <1>9, <2>3
    <3>2. /\ batch[i].kind = "Success" /\ y.cursors[s] = batch[i].next
          /\ s \in y.active <=> batch[i].next # 0
      BY <1>12, <2>3, <3>1 DEF Stands, NoCursor
    <3>3. TakenOf(x, s) = IF x.cursors[s] = 0 THEN 0 ELSE x.cursors[s] - 1
      BY <2>3 DEF TakenOf, NoCursor
    <3>4. TakenOf(y, s) = IF batch[i].next = 0 THEN L(s) ELSE batch[i].next - 1
      BY <2>1, <3>2 DEF TakenOf, NoCursor, L
    <3>5. PlaceOf(c[i]) = TakenOf(x, s) + 1 /\ TakenOf(x, s) \in Nat
      BY <1>10, <2>3, <3>1, <3>3
    <3>6. TakenOf(y, s) = PlaceOf(c[i])
      BY <3>1, <3>2, <3>4
    <3>. QED  BY <2>1, <3>1, <3>2, <3>5, <3>6 DEF Gave, c
  <2>. QED  BY <2>2, <2>3
<1>. QED  BY <1>6, <1>11, <1>12 DEF y, n

\* What it adds is new and of the museums asked, and all that they gave.
Added(x, batch) == RoundRobinUnique(PagesOf(batch), x.seen)
LEMMA AnswersAreAdded ==
  ASSUME NEW x, WellPlaced(x), NEW batch, NEW dropped, Answered(x, batch, dropped)
  PROVE  LET u == Added(x, batch) IN
         /\ u.merged \in Seq(AllFound) /\ u.seen \in SUBSET AllFound
         /\ Distinct(u.merged)
         /\ \A a : a \in u.seen <=> a \in x.seen \/ \E i \in 1 .. Len(u.merged) : u.merged[i] = a
         /\ \A i \in 1 .. Len(u.merged) :
              /\ u.merged[i] \notin x.seen
              /\ \E s \in x.query.sources : u.merged[i] \in FoundBy(x.query, s)
         /\ \A i \in 1 .. Len(batch) : batch[i].kind = "Success" =>
              ToSet(batch[i].artworks) \subseteq u.seen
<1>. DEFINE c == NextBatch(x)
            n == Len(batch)
            P == PagesOf(batch)
            u == RoundRobinUnique(P, x.seen)
<1>1. /\ batch \in Seq(Outcome) /\ Len(c) = n
      /\ \A i \in 1 .. n : Askable(x.query, c[i]) /\ IsAnswer(x.query, c[i], batch[i])
  BY DEF Answered
<1>2. \A i, j \in 1 .. Len(c) : c[i].source = c[j].source => i = j
  BY NextBatchAsks DEF WellPlaced, SessionType
<1>. HIDE DEF c
<1>3. \A i, j \in 1 .. n : batch[i].source = batch[j].source => i = j
  BY <1>1, <1>2 DEF IsAnswer
<1>4. /\ P \in [SourceKind -> Seq(AllFound)]
      /\ \A i \in 1 .. n : batch[i].kind = "Success" => P[batch[i].source] = batch[i].artworks
      /\ \A s \in SourceKind : \A j \in 1 .. Len(P[s]) :
           \E i \in 1 .. n : /\ batch[i].kind = "Success" /\ batch[i].source = s
                             /\ P[s][j] \in ToSet(batch[i].artworks)
  BY <1>1, <1>3, PagesAreAnswers DEF Outcome
<1>. HIDE DEF P
<1>5. /\ u \in Rounds(AllFound) /\ RoundOk(P, x.seen, u)
      /\ \A s \in SourceKind : IsSeen(P, u, s)
  <2>1. x.seen \in SUBSET AllFound
    BY DEF WellPlaced, SessionType, Sessions
  <2>. QED  BY <1>4, <2>1, RoundRobinIsUnion
<1>. HIDE DEF u
<1>6. u.merged \in Seq(AllFound) /\ u.seen \in SUBSET AllFound
  BY <1>5 DEF Rounds
<1>7. ASSUME NEW i \in 1 .. n, batch[i].kind = "Success"
      PROVE  /\ batch[i].source \in SourceKind /\ batch[i].artworks \in Seq(AllFound)
             /\ batch[i].source \in x.query.sources
             /\ ToSet(batch[i].artworks) \subseteq FoundBy(x.query, batch[i].source)
  <2>1. batch[i] \in Outcome
    BY <1>1
  <2>2. /\ batch[i].source \in x.query.sources
        /\ batch[i].artworks \in Seq(FoundBy(x.query, batch[i].source))
    BY <1>1, <1>7 DEF IsAnswer, Askable
  <2>3. ToSet(batch[i].artworks) \subseteq FoundBy(x.query, batch[i].source)
    BY <2>2 DEF ToSet
  <2>. QED  BY <1>7, <2>1, <2>2, <2>3 DEF Outcome, Outcomes, Notice
<1>8. ASSUME NEW i \in 1 .. Len(u.merged)
      PROVE  /\ u.merged[i] \notin x.seen
             /\ \E s \in x.query.sources : u.merged[i] \in FoundBy(x.query, s)
  <2>0. PICK s \in SourceKind : \E j \in 1 .. Len(P[s]) : P[s][j] = u.merged[i]
    BY <1>5 DEF RoundOk
  <2>1. PICK j \in 1 .. Len(P[s]) : P[s][j] = u.merged[i]
    BY <2>0
  <2>2. PICK k \in 1 .. n : /\ batch[k].kind = "Success" /\ batch[k].source = s
                            /\ P[s][j] \in ToSet(batch[k].artworks)
    BY <1>4
  <2>3. u.merged[i] \in FoundBy(x.query, batch[k].source) /\ batch[k].source \in x.query.sources
    BY <1>7, <2>1, <2>2
  <2>4. u.merged[i] \notin x.seen
    BY <1>5 DEF RoundOk
  <2>. QED  BY <2>3, <2>4
<1>9. ASSUME NEW i \in 1 .. n, batch[i].kind = "Success"
      PROVE  ToSet(batch[i].artworks) \subseteq u.seen
  <2>. DEFINE s == batch[i].source
  <2>1. P[s] = batch[i].artworks /\ s \in SourceKind /\ P[s] \in Seq(AllFound)
    BY <1>4, <1>7, <1>9
  <2>2. \A j \in 1 .. Len(P[s]) : P[s][j] \in u.seen
    BY <1>5, <2>1 DEF IsSeen
  <2>3. ToSet(P[s]) \subseteq u.seen
    BY <2>1, <2>2 DEF ToSet
  <2>. QED  BY <2>1, <2>3
<1>. QED  BY <1>5, <1>6, <1>8, <1>9 DEF RoundOk, u, P, Added

\* The batch is merged into the session it was asked for.
LEMMA AnsweredIsMerged ==
  ASSUME NEW x, NEW missing, SessionOk(x, missing), NEW batch, NEW dropped,
         Answered(x, batch, dropped)
  PROVE  LET z == MergeBatch(x, batch) IN
         /\ SessionOk(z, missing \cup dropped)
         /\ z.query = x.query /\ z.artworks = x.artworks \o Appended(x, batch)
         /\ x.artworks \in Seq(AllFound) /\ Appended(x, batch) \in Seq(AllFound)
<1>. DEFINE y == Moved(x, batch)
            u == Added(x, batch)
            z == MergeBatch(x, batch)
<1>1. /\ x \in SessionType /\ WellPlaced(x) /\ ListsItsOwn(x) /\ ListsAllTaken(x, missing)
      /\ x.artworks \in Seq(AllFound)
  BY DEF SessionOk, WellPlaced, SessionType, Sessions
<1>2. /\ WellPlaced(y) /\ SameList(x, y)
      /\ \A s \in x.query.sources : NoNotice(y, s) =>
           /\ NoNotice(x, s) /\ TakenOf(x, s) \in Nat
           /\ \/ TakenOf(y, s) = TakenOf(x, s)
              \/ /\ TakenOf(y, s) = TakenOf(x, s) + 1
                 /\ \E i \in 1 .. Len(batch) : Gave(x, batch, i, s)
  BY <1>1, PlacesMove
<1>3. /\ u.merged \in Seq(AllFound) /\ u.seen \in SUBSET AllFound
      /\ Distinct(u.merged)
      /\ \A a : a \in u.seen <=> a \in x.seen \/ \E i \in 1 .. Len(u.merged) : u.merged[i] = a
      /\ \A i \in 1 .. Len(u.merged) :
           /\ u.merged[i] \notin x.seen
           /\ \E s \in x.query.sources : u.merged[i] \in FoundBy(x.query, s)
      /\ \A i \in 1 .. Len(batch) : batch[i].kind = "Success" =>
           ToSet(batch[i].artworks) \subseteq u.seen
  BY <1>1, AnswersAreAdded
<1>4. z = [y EXCEPT !.artworks = @ \o u.merged, !.seen = u.seen]
  BY DEF MergeBatch, Added
<1>5. Appended(x, batch) = u.merged
  BY DEF Appended, Added
<1>. HIDE DEF y, u, z
<1>6. y \in SessionType /\ y.query = x.query /\ y.artworks = x.artworks /\ y.seen = x.seen
  BY <1>2 DEF WellPlaced, SameList
<1>. DEFINE l == x.artworks \o u.merged
<1>7. /\ z.query = x.query /\ z.artworks = l /\ z.seen = u.seen
      /\ z.notices = y.notices /\ z.active = y.active /\ z.cursors = y.cursors
  BY <1>4, <1>6 DEF SessionType, Sessions
<1>8. /\ Distinct(l) /\ l \in Seq(AllFound)
      /\ \A a : (\E k \in 1 .. Len(l) : l[k] = a) <=>
                \/ \E i \in 1 .. Len(x.artworks) : x.artworks[i] = a
                \/ \E i \in 1 .. Len(u.merged) : u.merged[i] = a
  <2>. DEFINE p == x.artworks
              q == u.merged
  <2>1. p \in Seq(AllFound) /\ q \in Seq(AllFound) /\ Distinct(p) /\ Distinct(q)
    BY <1>1, <1>3 DEF ListsItsOwn
  <2>2. Apart(p, q)
    BY <1>1, <1>3 DEF ListsItsOwn, Apart
  <2>. HIDE DEF p, q
  <2>3. Distinct(p \o q) /\ p \o q \in Seq(AllFound) /\ ListsBoth(p \o q, p, q)
    BY <2>1, <2>2, DistinctBehind
  <2>. QED  BY <2>3 DEF p, q, ListsBoth
<1>. HIDE DEF l
<1>9. z \in SessionType
  <2>1. z = [y EXCEPT !.artworks = l, !.seen = u.seen]
    BY <1>4, <1>6 DEF l
  <2>. QED  BY <1>3, <1>6, <1>8, <2>1 DEF SessionType, Sessions
<1>10. WellPlaced(z)
  BY <1>2, <1>6, <1>7, <1>9 DEF WellPlaced
<1>11. ListsItsOwn(z)
  <2>1. \A a : a \in z.seen <=> \E k \in 1 .. Len(l) : l[k] = a
    BY <1>1, <1>3, <1>7, <1>8 DEF ListsItsOwn
  <2>2. ASSUME NEW k \in 1 .. Len(l)
        PROVE  \E s \in x.query.sources : l[k] \in FoundBy(x.query, s)
    <3>1. \/ \E i \in 1 .. Len(x.artworks) : x.artworks[i] = l[k]
          \/ \E i \in 1 .. Len(u.merged) : u.merged[i] = l[k]
      BY <1>8
    <3>2. \A i \in 1 .. Len(x.artworks) :
            \E s \in x.query.sources : x.artworks[i] \in FoundBy(x.query, s)
      BY <1>1 DEF ListsItsOwn
    <3>. QED  BY <1>3, <3>1, <3>2
  <2>. QED  BY <1>7, <1>8, <2>1, <2>2 DEF ListsItsOwn
<1>12. ASSUME NEW s \in x.query.sources, NoNotice(y, s), NEW n \in 1 .. TakenOf(y, s),
              NEW a \in ToSet(Museum(x.query, s)[n])
       PROVE  a \in u.seen \/ a \in missing \cup dropped
  <2>1. NoNotice(x, s) /\ TakenOf(x, s) \in Nat
    BY <1>2, <1>12
  <2>2. CASE n \in 1 .. TakenOf(x, s)
    <3>1. a \in x.seen \/ a \in missing
      BY <1>1, <1>12, <2>1, <2>2 DEF ListsAllTaken
    <3>. QED  BY <1>3, <3>1
  <2>3. CASE n \notin 1 .. TakenOf(x, s)
    <3>1. /\ TakenOf(y, s) = TakenOf(x, s) + 1
          /\ \E i \in 1 .. Len(batch) : Gave(x, batch, i, s)
      BY <1>2, <1>12, <2>3
    <3>2. PICK i \in 1 .. Len(batch) : Gave(x, batch, i, s)
      BY <3>1
    <3>3. n = PlaceOf(NextBatch(x)[i])
      BY <2>1, <2>3, <3>1, <3>2 DEF Gave
    <3>4. IsAnswer(x.query, NextBatch(x)[i], batch[i]) /\ batch[i].kind = "Success"
      BY <3>2 DEF Answered, Gave
    <3>5. a \in ToSet(PageFor(x.query, NextBatch(x)[i]))
      BY <1>12, <3>2, <3>3, <3>4 DEF PageFor, IsAnswer, Gave
    <3>6. a \in ToSet(batch[i].artworks) \/ a \in dropped
      BY <3>4, <3>5 DEF Answered
    <3>. QED  BY <1>3, <3>4, <3>6
  <2>. QED  BY <2>2, <2>3
<1>13. ListsAllTaken(z, missing \cup dropped)
  <2>1. \A s : TakenOf(z, s) = TakenOf(y, s) /\ (NoNotice(z, s) <=> NoNotice(y, s))
    BY <1>6, <1>7 DEF TakenOf, NoNotice
  <2>. QED  BY <1>7, <1>12, <2>1 DEF ListsAllTaken
<1>. QED  BY <1>1, <1>3, <1>5, <1>7, <1>10, <1>11, <1>13 DEF SessionOk, l, z

LEMMA MergeKeepsSession ==
  ASSUME NEW x, NEW missing, SessionOk(x, missing),
         NEW batch \in Batches(x.query, NextBatch(x))
  PROVE  LET z == MergeBatch(x, batch) IN
         /\ SessionOk(z, missing \cup DroppedBy(x.query, NextBatch(x), batch))
         /\ z.query = x.query /\ z.artworks = x.artworks \o Appended(x, batch)
         /\ x.artworks \in Seq(AllFound) /\ Appended(x, batch) \in Seq(AllFound)
<1>1. Answered(x, batch, DroppedBy(x.query, NextBatch(x), batch))
  BY BatchesAnswer DEF SessionOk
<1>. QED  BY <1>1, AnsweredIsMerged

\* A search begins with nothing listed, nothing taken and every museum to ask.
LEMMA NewSessionIsOk ==
  ASSUME NEW query \in Queries
  PROVE  SessionOk(NewSession(query), {}) /\ NewSession(query).query = query
<1>. DEFINE x == NewSession(query)
<1>1. query.sources \subseteq SourceKind
  BY QueriesAreTyped
<1>2. /\ x.query = query /\ x.notices = <<>> /\ x.artworks = <<>> /\ x.seen = {}
      /\ x.active = query.sources /\ x.cursors = [s \in query.sources |-> 0]
  BY DEF NewSession, NoCursor
<1>3. x \in SessionType
  <2>1. [s \in query.sources |-> NoCursor] \in UNION {[S -> Nat] : S \in SUBSET SourceKind}
    BY <1>1 DEF NoCursor
  <2>. QED  BY <1>1, <2>1 DEF NewSession, SessionType, Sessions
<1>. HIDE DEF x
<1>4. \A s \in query.sources : Len(Museum(query, s)) \in Nat
  BY MuseumAssumption
<1>5. WellPlaced(x)
  BY <1>2, <1>3, <1>4 DEF WellPlaced
<1>6. ListsItsOwn(x)
  BY <1>2 DEF ListsItsOwn, Distinct
<1>7. ListsAllTaken(x, {})
  <2>1. \A s \in query.sources : TakenOf(x, s) = 0
    BY <1>2 DEF TakenOf, NoCursor
  <2>. QED  BY <1>2, <2>1 DEF ListsAllTaken
<1>. QED  BY <1>2, <1>5, <1>6, <1>7 DEF SessionOk, x

-----------------------------------------------------------------------------
(* The gate.  The request whose batch is on its way is the first at the    *)
(* gate, and asks what the session still stands at: nobody moves it.       *)

PageType ==
  [ query : Queries \cup {NoForm}, cards : Seq(AllFound), more : BOOLEAN,
    sent : Forms \cup {NoForm} ]
TabType == [page : PageType, open : BOOLEAN, awaits : Nat, hasty : BOOLEAN]
RequestType ==
  [ tab : Tab, op : {"search", "more", "page"}, form : Forms \cup {NoForm},
    at : {"sent", "gate", "fetch", "render", "answered", "dropped"},
    query : Queries \cup {NoForm}, cursors : Seq(Asked) ]

Typed ==
  /\ trial \in Trials
  /\ requests \in Seq(RequestType) /\ gate \in Seq(Nat)
  /\ tab \in [Tab -> TabType]
  /\ \A r \in DOMAIN requests : requests[r].tab \in trial.tabs

GateKept ==
  \A r \in DOMAIN requests :
    /\ requests[r].at = "fetch" =>
         IsNext(r) /\ requests[r].query = session.query /\ requests[r].cursors = NextBatch(session)
    /\ requests[r].at = "gate" /\ requests[r].op = "search" => IsSearch(requests[r].form)

ArtInv == Typed /\ GateKept /\ SessionOk(session, lost)

LEMMA OthersKeepTheirPlace ==
  ASSUME NEW g \in Seq(Nat), NEW r
  PROVE  /\ RemoveFirst(g, r) \in Seq(Nat)
         /\ g # <<>> /\ g[1] # r => RemoveFirst(g, r) # <<>> /\ RemoveFirst(g, r)[1] = g[1]
<1>1. CASE ~\E i \in 1 .. Len(g) : g[i] = r
  BY <1>1 DEF RemoveFirst
<1>2. CASE \E i \in 1 .. Len(g) : g[i] = r
  <2>. DEFINE I == {i \in 1 .. Len(g) : g[i] = r}
              k == CHOOSE i \in I : \A j \in I : i <= j
              p == SubSeq(g, 1, k - 1)
              q == SubSeq(g, k + 1, Len(g))
  <2>1. RemoveFirst(g, r) = p \o q
    BY <1>2 DEF RemoveFirst, RemoveAt, SelectInSeq, Min
  <2>2. k \in I
    <3>1. I \subseteq Nat /\ I # {}
      BY <1>2
    <3>. HIDE DEF I
    <3>2. \E i \in I : \A j \in I : i <= j
      BY <3>1, LeastNatural
    <3>. QED  BY <3>2
  <2>. HIDE DEF k
  <2>3. k \in 1 .. Len(g) /\ g[k] = r /\ Len(g) \in Nat
    BY <2>2
  <2>4. p \in Seq(Nat) /\ Len(p) = k - 1 /\ \A i \in 1 .. k - 1 : p[i] = g[i]
    BY <2>3
  <2>5. q \in Seq(Nat)
    BY <2>3
  <2>. HIDE DEF p, q
  <2>6. p \o q \in Seq(Nat)
    BY <2>4, <2>5
  <2>7. ASSUME g[1] # r
        PROVE  p \o q # <<>> /\ (p \o q)[1] = g[1]
    <3>1. 1 \in 1 .. k - 1
      BY <2>3, <2>7
    <3>. QED  BY <2>3, <2>4, <2>5, <3>1
  <2>. QED  BY <2>1, <2>6, <2>7
<1>. QED  BY <1>1, <1>2

LEMMA FormsAreServed ==
  ASSUME NEW t \in Trials
  PROVE  /\ t.seed \in Forms /\ t.forms \subseteq Forms /\ t.tabs \subseteq Tab
         /\ SearchQuery(t.seed) \in Queries
BY TrialsAssumption DEF Forms, Queries

LEMMA SessionIsTyped ==
  ASSUME SessionOk(session, lost)
  PROVE  /\ session \in SessionType /\ session.query \in Queries
         /\ NextBatch(session) \in Seq(Asked)
         /\ NextBatch(session) = <<>> <=> ~HasMore(session)
         /\ HasMore(session) \in BOOLEAN
         /\ Cards(session.artworks) \in Seq(AllFound)
<1>1. WellPlaced(session) /\ session \in SessionType
  BY DEF SessionOk, WellPlaced
<1>2. session.query \in Queries /\ session.artworks \in Seq(AllFound)
  BY <1>1 DEF SessionType, Sessions
<1>3. NextBatch(session) \in Seq(Asked) /\ (NextBatch(session) = <<>> <=> session.active = {})
  BY <1>1, NextBatchAsks DEF WellPlaced, SessionType
<1>4. Cards(session.artworks) \in Seq(AllFound)
  BY <1>2, KeptIsPart DEF Cards
<1>. QED  BY <1>1, <1>2, <1>3, <1>4 DEF HasMore

LEMMA InitIsOk ==
  Init => ArtInv
<1>. SUFFICES ASSUME Init
              PROVE  ArtInv
  OBVIOUS
<1>. DEFINE fresh == NewSession(SearchQuery(trial.seed))
<1>1. trial \in Trials /\ SearchQuery(trial.seed) \in Queries
  BY FormsAreServed DEF Init
<1>2. SessionOk(fresh, {}) /\ fresh.query = SearchQuery(trial.seed)
  BY <1>1, NewSessionIsOk
<1>3. PICK outcomes \in Batches(fresh.query, NextBatch(fresh)) :
        /\ session = MergeBatch(fresh, outcomes)
        /\ lost = DroppedBy(fresh.query, NextBatch(fresh), outcomes)
  BY DEF Init
<1>. HIDE DEF fresh
<1>4. SessionOk(session, {} \cup lost)
  BY <1>2, <1>3, MergeKeepsSession
<1>5. requests = <<>> /\ gate = <<>> /\ tab = [t \in Tab |-> Closed]
  BY DEF Init
<1>6. Closed \in TabType
  BY DEF Closed, Nothing, NoRequest, TabType, PageType
<1>7. Typed /\ GateKept
  BY <1>1, <1>5, <1>6 DEF Typed, GateKept
<1>. QED  BY <1>4, <1>7 DEF ArtInv

\* A request goes from one place to the next, the others stay at theirs.
LEMMA OneRequestMoves ==
  ASSUME NEW q \in Seq(RequestType), NEW r \in DOMAIN q, NEW e \in RequestType,
         NEW p, p = [q EXCEPT ![r] = e]
  PROVE  /\ p \in Seq(RequestType) /\ DOMAIN p = DOMAIN q /\ p[r] = e
         /\ \A i \in DOMAIN q : i # r => p[i] = q[i]
<1>1. DOMAIN q = 1 .. Len(q) /\ Len(q) \in Nat /\ q \in [1 .. Len(q) -> RequestType]
  OBVIOUS
<1>2. p \in [1 .. Len(q) -> RequestType]
  BY <1>1
<1>3. p \in Seq(RequestType)
  BY <1>1, <1>2, FunctionsAreSequences
<1>. QED  BY <1>1, <1>2, <1>3

LEMMA TypedIs ==
  ASSUME Typed
  PROVE  /\ DOMAIN requests = 1 .. Len(requests) /\ Len(requests) \in Nat
         /\ \A r \in DOMAIN requests :
              /\ requests[r] \in RequestType /\ r \in Nat /\ r # NoRequest
              /\ tab[requests[r].tab] \in TabType /\ requests[r].tab \in Tab
         /\ trial.tabs \subseteq Tab
<1>1. /\ requests \in Seq(RequestType) /\ DOMAIN requests = 1 .. Len(requests)
      /\ Len(requests) \in Nat
  BY DEF Typed
<1>2. \A r \in DOMAIN requests : requests[r] \in RequestType /\ r \in Nat /\ r # NoRequest
  BY <1>1 DEF NoRequest
<1>3. \A r \in DOMAIN requests : requests[r].tab \in Tab
  BY <1>2 DEF RequestType
<1>. QED  BY <1>1, <1>2, <1>3, FormsAreServed DEF Typed

LEMMA ShowingIsTyped ==
  ASSUME tab \in [Tab -> TabType], NEW t \in Tab
  PROVE  /\ \A page \in PageType : Shown(t, page) \in [Tab -> TabType]
         /\ \A cards \in Seq(AllFound), more \in BOOLEAN :
              Shown(t, Longer(tab[t].page, cards, more)) \in [Tab -> TabType]
<1>1. tab[t] \in TabType /\ tab[t].page \in PageType /\ tab[t].page.cards \in Seq(AllFound)
  BY DEF TabType, PageType
<1>2. ASSUME NEW page \in PageType
      PROVE  Shown(t, page) \in [Tab -> TabType]
  <2>1. [tab[t] EXCEPT !.awaits = NoRequest, !.page = page] \in TabType
    BY <1>1 DEF TabType, NoRequest
  <2>. HIDE DEF TabType
  <2>. QED  BY <2>1 DEF Shown
<1>3. ASSUME NEW cards \in Seq(AllFound), NEW more \in BOOLEAN
      PROVE  Longer(tab[t].page, cards, more) \in PageType
  <2>1. tab[t].page.cards \o cards \in Seq(AllFound)
    BY <1>1
  <2>. QED  BY <1>1, <2>1 DEF PageType, Longer
<1>. QED  BY <1>2, <1>3

LEMMA SendingIsOk ==
  ASSUME ArtInv, UNCHANGED <<session, gate, lost, trial>>, NEW e \in RequestType,
         e.at = "sent", e.tab \in trial.tabs, requests' = Append(requests, e),
         tab' \in [Tab -> TabType]
  PROVE  ArtInv'
<1>. DEFINE n == Len(requests)
<1>1. DOMAIN requests = 1 .. n /\ n \in Nat
  BY TypedIs DEF ArtInv
<1>2. /\ requests' \in Seq(RequestType) /\ DOMAIN requests' = 1 .. n + 1
      /\ \A r \in 1 .. n : requests'[r] = requests[r]
      /\ requests'[n + 1] = e
  BY DEF ArtInv, Typed
<1>3. \A r \in DOMAIN requests' : r \in DOMAIN requests \/ r = n + 1
  BY <1>1, <1>2
<1>. HIDE DEF n
<1>4. Typed'
  BY <1>1, <1>2, <1>3 DEF ArtInv, Typed
<1>5. GateKept'
  BY <1>1, <1>2, <1>3 DEF ArtInv, GateKept, IsNext
<1>. QED  BY <1>4, <1>5 DEF ArtInv

LEMMA BrowseIsOk ==
  ASSUME ArtInv, NEW t \in Tab, Browse(t), UNCHANGED trial
  PROVE  ArtInv'
<1>1. t \in trial.tabs /\ tab[t] \in TabType /\ tab \in [Tab -> TabType] /\ trial \in Trials
  BY DEF Browse, ArtInv, Typed
<1>2. Left(t) \in TabType
  <2>1. Closed \in TabType
    BY DEF Closed, Nothing, NoRequest, TabType, PageType
  <2>. QED  BY <1>1, <2>1 DEF Left, TabType
<1>3. Len(requests) + 1 \in Nat
  BY TypedIs DEF ArtInv
<1>4. ASSUME NEW op \in {"search", "more", "page"}, NEW form \in Forms \cup {NoForm}
      PROVE  Request(t, op, form, "sent") \in RequestType
  BY DEF Request, RequestType
<1>5. \A op, form : Request(t, op, form, "sent").at = "sent" /\ Request(t, op, form, "sent").tab = t
  BY DEF Request
<1>6. ASSUME NEW op \in {"search", "page"}, NEW form \in Forms \cup {NoForm}, Visit(t, op, form)
      PROVE  ArtInv'
  <2>1. tab' \in [Tab -> TabType]
    <3>1. [Left(t) EXCEPT !.open = TRUE, !.awaits = Len(requests) + 1] \in TabType
      BY <1>2, <1>3 DEF TabType
    <3>. QED  BY <1>1, <1>6, <3>1 DEF Visit
  <2>. QED  BY <1>1, <1>4, <1>5, <1>6, <2>1, SendingIsOk DEF Visit
<1>7. CASE LoadMore(t)
  <2>1. tab' \in [Tab -> TabType]
    <3>1. [tab[t] EXCEPT !.awaits = Len(requests) + 1] \in TabType
      BY <1>1, <1>3 DEF TabType
    <3>. QED  BY <1>1, <1>7, <3>1 DEF LoadMore
  <2>. QED  BY <1>1, <1>4, <1>5, <1>7, <2>1, SendingIsOk DEF LoadMore
<1>8. CASE Close(t)
  <2>1. tab' \in [Tab -> TabType] /\ UNCHANGED <<session, gate, requests, lost, trial>>
    BY <1>1, <1>2, <1>8 DEF Close
  <2>. QED  BY <2>1 DEF ArtInv, Typed, GateKept, IsNext
<1>9. trial.forms \subseteq Forms
  BY <1>1, FormsAreServed
<1>. QED  BY <1>6, <1>7, <1>8, <1>9 DEF Browse

\* What a request leaves of the gate, and what the others there still find.
LEMMA MovingIsOk ==
  ASSUME ArtInv, NEW r \in DOMAIN requests, NEW e \in RequestType,
         requests' = [requests EXCEPT ![r] = e], e.tab = requests[r].tab,
         UNCHANGED <<session, lost, trial>>, tab' \in [Tab -> TabType],
         \/ gate' = gate
         \/ gate' = Append(gate, r)
         \/ gate' = Leaves(r) /\ e.at # "fetch",
         e.at = "fetch" => IsNext(r)' /\ e.query = session.query /\ e.cursors = NextBatch(session),
         e.at = "gate" /\ e.op = "search" => IsSearch(e.form)
  PROVE  ArtInv'
<1>1. /\ requests \in Seq(RequestType) /\ gate \in Seq(Nat) /\ r \in Nat
  BY TypedIs DEF ArtInv, Typed
<1>2. /\ requests' \in Seq(RequestType) /\ DOMAIN requests' = DOMAIN requests
      /\ requests'[r] = e /\ \A i \in DOMAIN requests : i # r => requests'[i] = requests[i]
  BY <1>1, OneRequestMoves
<1>3. gate' \in Seq(Nat)
  <2>1. Append(gate, r) \in Seq(Nat)
    BY <1>1
  <2>2. Leaves(r) \in Seq(Nat)
    BY <1>1, OthersKeepTheirPlace DEF Leaves
  <2>. HIDE DEF Leaves
  <2>. QED  BY <1>1, <2>1, <2>2
<1>4. Typed'
  BY <1>2, <1>3 DEF ArtInv, Typed
<1>5. ASSUME NEW i \in DOMAIN requests, i # r, IsNext(i)
      PROVE  IsNext(i)'
  <2>1. gate # <<>> /\ gate[1] = i
    BY <1>5 DEF IsNext
  <2>2. CASE gate' = gate
    BY <2>1, <2>2 DEF IsNext
  <2>3. CASE gate' = Append(gate, r)
    BY <1>1, <2>1, <2>3 DEF IsNext
  <2>4. CASE gate' = Leaves(r)
    BY <1>1, <1>5, <2>1, <2>4, OthersKeepTheirPlace DEF Leaves, IsNext
  <2>. QED  BY <2>2, <2>3, <2>4
<1>6. GateKept'
  BY <1>2, <1>5 DEF ArtInv, GateKept
<1>. QED  BY <1>4, <1>6 DEF ArtInv

LEMMA ArriveIsOk ==
  ASSUME ArtInv, NEW r \in Id, Arrive(r), UNCHANGED trial
  PROVE  ArtInv'
<1>. DEFINE q == requests[r]
            to(place) == [q EXCEPT !.at = place]
<1>1. r \in DOMAIN requests /\ q.at = "sent"
  BY DEF Arrive, At
<1>2. q \in RequestType /\ q.tab \in Tab /\ tab \in [Tab -> TabType] /\ tab[q.tab] \in TabType
  BY <1>1, TypedIs DEF ArtInv, Typed
<1>3. ASSUME NEW place \in {"render", "answered", "gate"}
      PROVE  to(place) \in RequestType /\ to(place).at = place /\ to(place).tab = q.tab
             /\ to(place).op = q.op /\ to(place).form = q.form
  BY <1>2 DEF RequestType
<1>4. tab' \in [Tab -> TabType]
  <2>1. [tab[q.tab] EXCEPT !.awaits = NoRequest] \in TabType
    BY <1>2 DEF TabType, NoRequest
  <2>. HIDE DEF q
  <2>2. tab' = tab \/ tab' = [tab EXCEPT ![q.tab] = [tab[q.tab] EXCEPT !.awaits = NoRequest]]
    BY DEF Arrive, q
  <2>. QED  BY <1>2, <2>1, <2>2
<1>5. UNCHANGED <<session, lost>>
  BY DEF Arrive
<1>. HIDE DEF q
<1>6. \/ requests' = [requests EXCEPT ![r] = to("render")] /\ gate' = gate
      \/ requests' = [requests EXCEPT ![r] = to("answered")] /\ gate' = gate
      \/ /\ requests' = [requests EXCEPT ![r] = to("gate")] /\ gate' = Append(gate, r)
         /\ q.op = "search" => IsSearch(q.form)
  BY DEF Arrive, q
<1>. HIDE DEF to
<1>7. CASE requests' = [requests EXCEPT ![r] = to("render")] /\ gate' = gate
  BY <1>1, <1>3, <1>4, <1>5, <1>7, MovingIsOk DEF q
<1>8. CASE requests' = [requests EXCEPT ![r] = to("answered")] /\ gate' = gate
  BY <1>1, <1>3, <1>4, <1>5, <1>8, MovingIsOk DEF q
<1>9. CASE /\ requests' = [requests EXCEPT ![r] = to("gate")] /\ gate' = Append(gate, r)
           /\ q.op = "search" => IsSearch(q.form)
  <2>. DEFINE e == to("gate")
  <2>1. e \in RequestType /\ e.tab = requests[r].tab /\ e.at = "gate"
        /\ (e.op = "search" => IsSearch(e.form))
    BY <1>3, <1>9 DEF q
  <2>2. requests' = [requests EXCEPT ![r] = e] /\ gate' = Append(gate, r)
    BY <1>9
  <2>. HIDE DEF e
  <2>. QED  BY <1>1, <1>4, <1>5, <2>1, <2>2, MovingIsOk
<1>. QED  BY <1>6, <1>7, <1>8, <1>9

LEMMA StartMoreIsOk ==
  ASSUME ArtInv, NEW r \in Id, StartMore(r), UNCHANGED trial
  PROVE  ArtInv'
<1>. DEFINE q == requests[r]
            c == NextBatch(session)
            answered == [q EXCEPT !.at = "answered"]
            asks == [q EXCEPT !.at = "fetch", !.query = session.query, !.cursors = c]
<1>1. r \in DOMAIN requests /\ q.at = "gate" /\ IsNext(r) /\ UNCHANGED <<session, lost>>
  BY DEF StartMore, At
<1>2. q \in RequestType /\ q.tab \in Tab /\ tab \in [Tab -> TabType] /\ tab[q.tab] \in TabType
  BY <1>1, TypedIs DEF ArtInv, Typed
<1>3. session.query \in Queries /\ c \in Seq(Asked)
  BY SessionIsTyped DEF ArtInv
<1>4. answered \in RequestType /\ answered.tab = q.tab /\ answered.at = "answered"
  BY <1>2 DEF RequestType
<1>5. asks \in RequestType /\ asks.tab = q.tab /\ asks.at = "fetch"
      /\ asks.query = session.query /\ asks.cursors = c
  BY <1>2, <1>3 DEF RequestType
<1>6. CASE c = <<>>
  <2>1. requests' = [requests EXCEPT ![r] = answered] /\ gate' = Leaves(r)
    BY <1>6 DEF StartMore
  <2>2. tab' \in [Tab -> TabType]
    <3>1. <<>> \in Seq(AllFound)
      OBVIOUS
    <3>2. tab' = tab \/ tab' = Shown(q.tab, Longer(tab[q.tab].page, <<>>, FALSE))
      BY <1>6 DEF StartMore
    <3>. QED  BY <1>2, <3>1, <3>2, ShowingIsTyped
  <2>. HIDE DEF answered, q
  <2>. QED  BY <1>1, <1>4, <2>1, <2>2, MovingIsOk DEF q
<1>7. CASE c # <<>>
  <2>1. requests' = [requests EXCEPT ![r] = asks] /\ UNCHANGED <<gate, tab>>
    BY <1>7 DEF StartMore
  <2>2. IsNext(r)'
    BY <1>1, <2>1 DEF IsNext
  <2>. HIDE DEF asks
  <2>. QED  BY <1>1, <1>2, <1>5, <2>1, <2>2, MovingIsOk
<1>. QED  BY <1>6, <1>7

LEMMA RenderIsOk ==
  ASSUME ArtInv, NEW r \in Id, Render(r), UNCHANGED trial
  PROVE  ArtInv'
<1>. DEFINE q == requests[r]
            answered == [q EXCEPT !.at = "answered"]
            page == [ query |-> session.query, cards |-> Cards(session.artworks),
                      more  |-> HasMore(session), sent  |-> q.form ]
<1>1. r \in DOMAIN requests /\ UNCHANGED <<session, gate, lost>>
  BY DEF Render, At
<1>2. q \in RequestType /\ q.tab \in Tab /\ tab \in [Tab -> TabType] /\ tab[q.tab] \in TabType
  BY <1>1, TypedIs DEF ArtInv, Typed
<1>3. answered \in RequestType /\ answered.tab = q.tab /\ answered.at = "answered"
  BY <1>2 DEF RequestType
<1>4. page \in PageType
  <2>1. q.form \in Forms \cup {NoForm}
    BY <1>2 DEF RequestType
  <2>. QED  BY <2>1, SessionIsTyped DEF ArtInv, PageType
<1>5. requests' = [requests EXCEPT ![r] = answered] /\ (tab' = tab \/ tab' = Shown(q.tab, page))
  BY DEF Render
<1>. HIDE DEF page
<1>6. tab' \in [Tab -> TabType]
  BY <1>2, <1>4, <1>5, ShowingIsTyped
<1>. HIDE DEF answered
<1>. QED  BY <1>1, <1>3, <1>5, <1>6, MovingIsOk

LEMMA DropIsOk ==
  ASSUME ArtInv, NEW r \in Id, Drop(r), UNCHANGED trial
  PROVE  ArtInv'
<1>. DEFINE dropped == [requests[r] EXCEPT !.at = "dropped"]
<1>1. r \in DOMAIN requests /\ UNCHANGED <<session, tab, lost>> /\ gate' = Leaves(r)
  BY DEF Drop, InFlight, GivesUpPlace
<1>2. requests[r] \in RequestType /\ tab \in [Tab -> TabType]
  BY <1>1, TypedIs DEF ArtInv, Typed
<1>3. dropped \in RequestType /\ dropped.tab = requests[r].tab /\ dropped.at = "dropped"
  BY <1>2 DEF RequestType
<1>4. requests' = [requests EXCEPT ![r] = dropped]
  BY DEF Drop
<1>. HIDE DEF dropped
<1>. QED  BY <1>1, <1>2, <1>3, <1>4, MovingIsOk

\* The search that begins is the one whose turn it is; nobody else asks.
LEMMA StartSearchIsOk ==
  ASSUME ArtInv, NEW r \in Id, StartSearch(r), UNCHANGED trial
  PROVE  /\ ArtInv'
         /\ DOMAIN requests' = DOMAIN requests
         /\ \A i \in DOMAIN requests : i # r => requests'[i] = requests[i]
         /\ requests'[r].op = "search"
<1>. DEFINE q == requests[r]
            query == SearchQuery(q.form)
            c == NextBatch(session')
            asks == [q EXCEPT !.at = "fetch", !.query = query, !.cursors = c]
<1>1. /\ r \in DOMAIN requests /\ q.at = "gate" /\ q.op = "search" /\ IsNext(r)
      /\ session' = NewSession(query) /\ lost' = {} /\ UNCHANGED <<gate, tab>>
  BY DEF StartSearch, At, BeginSearch
<1>2. q \in RequestType /\ IsSearch(q.form)
  BY <1>1, TypedIs DEF ArtInv, GateKept
<1>3. q.form \in Forms
  BY <1>2 DEF RequestType, IsSearch, NoForm
<1>4. query \in Queries
  BY <1>2, <1>3 DEF Queries
<1>5. SessionOk(session', {}) /\ session'.query = query
  BY <1>1, <1>4, NewSessionIsOk
<1>6. c \in Seq(Asked)
  BY <1>5, NextBatchAsks DEF SessionOk, WellPlaced, SessionType
<1>. HIDE DEF query, c
<1>7. /\ asks \in RequestType /\ asks.tab = q.tab /\ asks.at = "fetch" /\ asks.op = "search"
      /\ asks.query = query /\ asks.cursors = c
  BY <1>1, <1>2, <1>4, <1>6 DEF RequestType
<1>8. requests' = [requests EXCEPT ![r] = asks]
  <2>1. requests' = [requests EXCEPT ![r].at = "fetch", ![r].query = query, ![r].cursors = c]
    BY DEF StartSearch, query, c
  <2>2. requests \in [1 .. Len(requests) -> RequestType] /\ r \in 1 .. Len(requests)
    BY <1>1, TypedIs DEF ArtInv, Typed
  <2>. QED  BY <2>1, <2>2
<1>. HIDE DEF asks
<1>9. requests \in Seq(RequestType)
  BY DEF ArtInv, Typed
<1>10. /\ requests' \in Seq(RequestType) /\ DOMAIN requests' = DOMAIN requests
       /\ requests'[r] = asks /\ \A i \in DOMAIN requests : i # r => requests'[i] = requests[i]
  BY <1>1, <1>7, <1>8, <1>9, OneRequestMoves
<1>11. Typed'
  BY <1>1, <1>7, <1>10 DEF ArtInv, Typed
<1>12. GateKept'
  <2>1. \A i \in DOMAIN requests : requests[i].at = "fetch" => i = r
    BY <1>1 DEF ArtInv, GateKept, IsNext
  <2>2. IsNext(r)'
    BY <1>1 DEF IsNext
  <2>. QED  BY <1>1, <1>5, <1>7, <1>10, <2>1, <2>2 DEF ArtInv, GateKept, c
<1>. QED  BY <1>1, <1>5, <1>7, <1>10, <1>11, <1>12 DEF ArtInv

\* The batch that is merged answers the session it is merged into.
LEMMA MergeIsOk ==
  ASSUME ArtInv, NEW r \in Id, Merge(r), UNCHANGED trial
  PROVE  /\ ArtInv'
         /\ DOMAIN requests' = DOMAIN requests
         /\ \A i \in DOMAIN requests : i # r => requests'[i] = requests[i]
         /\ requests'[r] \in {[requests[r] EXCEPT !.at = "answered"],
                              [requests[r] EXCEPT !.at = "render"]}
         /\ session'.query = session.query
         /\ \E new \in Seq(AllFound) :
              /\ session'.artworks = session.artworks \o new
              /\ session.artworks \in Seq(AllFound)
              /\ tab' = IF requests[r].op = "more" /\ Wanted(r)
                        THEN Shown(requests[r].tab, Longer(tab[requests[r].tab].page,
                                                           Cards(new), HasMore(session')))
                        ELSE tab
<1>. DEFINE q == requests[r]
            e == [q EXCEPT !.at = IF q.op = "more" THEN "answered" ELSE "render"]
            new(outcomes) == Appended(session, outcomes)
<1>1. r \in DOMAIN requests /\ q.at = "fetch" /\ gate' = Leaves(r)
  BY DEF Merge, At
<1>2. /\ IsNext(r) /\ q.query = session.query /\ q.cursors = NextBatch(session)
      /\ q \in RequestType /\ tab \in [Tab -> TabType] /\ requests \in Seq(RequestType)
      /\ gate \in Seq(Nat) /\ q.tab \in Tab /\ tab[q.tab] \in TabType
  BY <1>1, TypedIs DEF ArtInv, GateKept, Typed
<1>3. PICK outcomes \in Batches(session.query, NextBatch(session)) :
        /\ session' = MergeBatch(session, outcomes)
        /\ lost' = lost \cup DroppedBy(session.query, NextBatch(session), outcomes)
        /\ tab' = IF q.op = "more" /\ Wanted(r)
                  THEN Shown(q.tab, Longer(tab[q.tab].page, Cards(new(outcomes)),
                                           HasMore(session')))
                  ELSE tab
  BY <1>2 DEF Merge, Fragment
<1>4. /\ SessionOk(session', lost') /\ session'.query = session.query
      /\ session'.artworks = session.artworks \o new(outcomes)
      /\ session.artworks \in Seq(AllFound) /\ new(outcomes) \in Seq(AllFound)
  BY <1>3, MergeKeepsSession DEF ArtInv
<1>. HIDE DEF new
<1>5. e \in RequestType /\ e.tab = q.tab /\ e.at \in {"answered", "render"}
      /\ e \in {[q EXCEPT !.at = "answered"], [q EXCEPT !.at = "render"]}
  BY <1>2 DEF RequestType
<1>6. requests' = [requests EXCEPT ![r] = e]
  BY DEF Merge
<1>. HIDE DEF e
<1>7. /\ requests' \in Seq(RequestType) /\ DOMAIN requests' = DOMAIN requests
      /\ requests'[r] = e /\ \A i \in DOMAIN requests : i # r => requests'[i] = requests[i]
  BY <1>1, <1>2, <1>5, <1>6, OneRequestMoves
<1>8. tab' \in [Tab -> TabType]
  <2>1. Cards(new(outcomes)) \in Seq(AllFound)
    BY <1>4, KeptIsPart DEF Cards
  <2>2. HasMore(session') \in BOOLEAN
    BY DEF HasMore
  <2>. QED  BY <1>2, <1>3, <2>1, <2>2, ShowingIsTyped
<1>9. Typed'
  <2>1. gate' \in Seq(Nat)
    BY <1>1, <1>2, OthersKeepTheirPlace DEF Leaves
  <2>. QED  BY <1>1, <1>5, <1>7, <1>8, <2>1 DEF ArtInv, Typed
<1>10. GateKept'
  <2>1. \A i \in DOMAIN requests : i # r => requests[i].at # "fetch"
    BY <1>2 DEF ArtInv, GateKept, IsNext
  <2>. QED  BY <1>5, <1>7, <2>1 DEF ArtInv, GateKept
<1>. QED  BY <1>3, <1>4, <1>5, <1>7, <1>9, <1>10 DEF ArtInv

LEMMA NextIsOk ==
  ArtInv /\ [Next]_vars => ArtInv'
<1>. SUFFICES ASSUME ArtInv, [Next]_vars
              PROVE  ArtInv'
  OBVIOUS
<1>1. CASE UNCHANGED <<galleryVars, trial>>
  BY <1>1 DEF ArtInv, Typed, GateKept, IsNext, galleryVars
<1>2. CASE InPage(\E t \in Tab : Browse(t))
  BY <1>2, BrowseIsOk DEF InPage
<1>3. CASE InPage(\E r \in Id : Handle(r) \/ Drop(r))
  BY <1>3, ArriveIsOk, StartSearchIsOk, StartMoreIsOk, MergeIsOk, RenderIsOk, DropIsOk
     DEF InPage, Handle
<1>. QED  BY <1>1, <1>2, <1>3 DEF Next, InLife, vars

LEMMA SessionOkIsTheSearch ==
  SessionOk(session, lost) => SessionIsTheSearch
<1>. SUFFICES ASSUME SessionOk(session, lost)
              PROVE  SessionIsTheSearch
  OBVIOUS
<1>1. /\ session \in SessionType /\ ListsItsOwn(session) /\ ListsAllTaken(session, lost)
      /\ session.query \in Queries /\ session.artworks \in Seq(AllFound)
  BY DEF SessionOk, WellPlaced, SessionType, Sessions
<1>2. DOMAIN session.artworks = 1 .. Len(session.artworks)
  BY <1>1
<1>3. NothingStrangeIsListed
  <2>1. ASSUME NEW i \in 1 .. Len(session.artworks)
        PROVE  /\ session.artworks[i].source \in session.query.sources
               /\ session.artworks[i] \in FoundBy(session.query, session.artworks[i].source)
    <3>1. PICK s \in session.query.sources : session.artworks[i] \in FoundBy(session.query, s)
      BY <1>1 DEF ListsItsOwn
    <3>2. session.artworks[i].source = s
      BY <1>1, <3>1, MuseumAssumption
    <3>. QED  BY <3>1, <3>2
  <2>2. IsInjective(session.artworks)
    BY <1>1, <1>2 DEF ListsItsOwn, Distinct, IsInjective
  <2>. QED  BY <1>2, <2>1, <2>2 DEF NothingStrangeIsListed
<1>4. NothingTakenIsMissing
  <2>1. \A a \in session.seen : a \in ToSet(session.artworks)
    BY <1>1, <1>2 DEF ListsItsOwn, ToSet
  <2>2. \A s : PagesTaken(s) = TakenOf(session, s)
    BY DEF PagesTaken, TakenOf
  <2>. QED  BY <1>1, <2>1, <2>2 DEF ListsAllTaken, NoNotice, NothingTakenIsMissing
<1>. QED  BY <1>3, <1>4 DEF SessionIsTheSearch

(***************************************************************************)
(* Whatever the tabs ask for, cancel or retry, the one session lists what  *)
(* its own query found, once, and all of it as far as its cursors say: for *)
(* every number of tabs and requests and all museums (server.rs, index and *)
(* more; core.rs, merge_batch).                                            *)
(***************************************************************************)
THEOREM SessionIsTheSearchAlways == Spec => []SessionIsTheSearch
<1>1. Init => ArtInv
  BY InitIsOk
<1>2. ArtInv /\ [Next]_vars => ArtInv'
  BY NextIsOk
<1>3. ArtInv => SessionIsTheSearch
  BY SessionOkIsTheSearch DEF ArtInv
<1>. QED  BY <1>1, <1>2, <1>3, PTL DEF Spec

-----------------------------------------------------------------------------
(* The page of one tab that waits.  Every request on its way is the one    *)
(* the tab waits for; unless that one makes a new page, the page is what   *)
(* the session lists.                                                      *)

Shows(t, x) ==
  /\ tab[t].page.query = x.query
  /\ tab[t].page.cards = Cards(x.artworks)
  /\ tab[t].page.more = HasMore(x)

Patient(t) == trial.tabs = {t} /\ ~tab[t].hasty

WaitsInOrder(t) ==
  /\ \A r \in DOMAIN requests : InFlight(r) => tab[t].awaits = r
  /\ tab[t].awaits # NoRequest =>
       /\ tab[t].awaits \in DOMAIN requests
       /\ tab[t].page # Nothing <=> requests[tab[t].awaits].op = "more"
  /\ tab[t].page # Nothing => Shows(t, session)

PatientOk == \A t \in Tab : Patient(t) => WaitsInOrder(t)

LEMMA PatientIs ==
  ASSUME ArtInv, NEW t \in Tab, Patient(t), WaitsInOrder(t), NEW r, InFlight(r)
  PROVE  /\ r \in DOMAIN requests /\ requests[r] \in RequestType /\ r # NoRequest
         /\ requests[r].tab = t /\ tab[t].awaits = r /\ Wanted(r)
         /\ tab[t] \in TabType /\ tab \in [Tab -> TabType]
         /\ tab[t].page # Nothing <=> requests[r].op = "more"
<1>1. r \in DOMAIN requests
  BY DEF InFlight
<1>2. requests[r] \in RequestType /\ r # NoRequest /\ requests[r].tab = t
  BY <1>1, TypedIs DEF ArtInv, Typed, Patient
<1>3. tab[t].awaits = r
  BY <1>1 DEF WaitsInOrder
<1>4. tab[t] \in TabType /\ tab \in [Tab -> TabType]
  BY DEF ArtInv, Typed
<1>. QED  BY <1>1, <1>2, <1>3, <1>4 DEF WaitsInOrder, Wanted

\* The one request on its way goes on, or is answered.
LEMMA HandlingIsPatient ==
  ASSUME ArtInv, NEW t \in Tab, Patient(t), WaitsInOrder(t), NEW r, InFlight(r),
         DOMAIN requests' = DOMAIN requests, requests'[r].op = requests[r].op,
         \A i \in DOMAIN requests : i # r => requests'[i] = requests[i],
         \/ tab' = tab /\ (requests[r].op = "more" => session' = session)
         \/ /\ tab'[t].awaits = NoRequest /\ ~InFlight(r)'
            /\ tab'[t].page # Nothing => Shows(t, session)'
  PROVE  WaitsInOrder(t)'
<1>1. /\ r \in DOMAIN requests /\ tab[t].awaits = r /\ r # NoRequest
      /\ tab[t].page # Nothing <=> requests[r].op = "more"
  BY PatientIs
<1>2. \A i \in DOMAIN requests' : InFlight(i)' => i = r
  BY <1>1 DEF InFlight, WaitsInOrder
<1>3. CASE tab' = tab /\ (requests[r].op = "more" => session' = session)
  <2>1. tab'[t].page # Nothing => Shows(t, session)'
    BY <1>1, <1>3 DEF WaitsInOrder, Shows
  <2>. QED  BY <1>1, <1>2, <1>3, <2>1 DEF WaitsInOrder
<1>4. CASE /\ tab'[t].awaits = NoRequest /\ ~InFlight(r)'
           /\ tab'[t].page # Nothing => Shows(t, session)'
  BY <1>1, <1>2, <1>4 DEF WaitsInOrder
<1>. QED  BY <1>3, <1>4

LEMMA ArriveIsPatient ==
  ASSUME ArtInv, NEW t \in Tab, Patient(t), WaitsInOrder(t), NEW r \in Id, Arrive(r)
  PROVE  WaitsInOrder(t)'
<1>. DEFINE q == requests[r]
<1>1. InFlight(r)
  BY DEF Arrive, At, InFlight
<1>2. /\ r \in DOMAIN requests /\ q \in RequestType /\ q.tab = t /\ Wanted(r)
      /\ tab[t] \in TabType /\ tab \in [Tab -> TabType]
      /\ tab[t].page # Nothing <=> q.op = "more"
  BY <1>1, PatientIs
<1>3. requests \in Seq(RequestType)
  BY DEF ArtInv, Typed
<1>4. \E place \in {"render", "answered", "gate"} :
        /\ requests' = [requests EXCEPT ![r] = [q EXCEPT !.at = place]]
        /\ place = "answered" => q.op = "search"
  BY DEF Arrive
<1>5. PICK place \in {"render", "answered", "gate"} :
        /\ requests' = [requests EXCEPT ![r] = [q EXCEPT !.at = place]]
        /\ place = "answered" => q.op = "search"
  BY <1>4
<1>6. [q EXCEPT !.at = place] \in RequestType
  BY <1>2 DEF RequestType
<1>7. /\ DOMAIN requests' = DOMAIN requests /\ requests'[r] = [q EXCEPT !.at = place]
      /\ \A i \in DOMAIN requests : i # r => requests'[i] = requests[i]
  BY <1>2, <1>3, <1>5, <1>6, OneRequestMoves
<1>8. requests'[r].op = q.op /\ requests'[r].at = place
  BY <1>2, <1>7 DEF RequestType
<1>9. CASE place = "answered"
  <2>1. tab' = [tab EXCEPT ![t].awaits = NoRequest]
    BY <1>2, <1>8, <1>9 DEF Arrive
  <2>2. tab'[t].awaits = NoRequest /\ tab'[t].page = tab[t].page
    BY <1>2, <2>1 DEF TabType
  <2>3. tab[t].page = Nothing
    BY <1>2, <1>5, <1>9
  <2>4. ~InFlight(r)'
    BY <1>8, <1>9 DEF InFlight
  <2>. QED  BY <1>1, <1>7, <1>8, <2>2, <2>3, <2>4, HandlingIsPatient
<1>10. CASE place # "answered"
  <2>1. tab' = tab /\ session' = session
    BY <1>8, <1>10 DEF Arrive
  <2>. QED  BY <1>1, <1>7, <1>8, <2>1, HandlingIsPatient
<1>. QED  BY <1>9, <1>10

LEMMA StartSearchIsPatient ==
  ASSUME ArtInv, NEW t \in Tab, Patient(t), WaitsInOrder(t), NEW r \in Id, StartSearch(r),
         UNCHANGED trial
  PROVE  WaitsInOrder(t)'
<1>1. InFlight(r) /\ requests[r].op = "search" /\ tab' = tab
  BY DEF StartSearch, At, InFlight
<1>2. /\ DOMAIN requests' = DOMAIN requests /\ requests'[r].op = "search"
      /\ \A i \in DOMAIN requests : i # r => requests'[i] = requests[i]
  BY StartSearchIsOk
<1>. QED  BY <1>1, <1>2, HandlingIsPatient

LEMMA PageIsShown ==
  ASSUME tab \in [Tab -> TabType], NEW t \in Tab, NEW page
  PROVE  /\ Shown(t, page)[t].awaits = NoRequest /\ Shown(t, page)[t].page = page
         /\ Shown(t, page)[t].hasty = tab[t].hasty
<1>1. tab[t] \in TabType
  OBVIOUS
<1>2. Shown(t, page)[t] = [tab[t] EXCEPT !.awaits = NoRequest, !.page = page]
  BY DEF Shown
<1>. QED  BY <1>1, <1>2 DEF TabType

LEMMA PageIsLonger ==
  ASSUME tab \in [Tab -> TabType], NEW t \in Tab, NEW cards, NEW more
  PROVE  LET p == Longer(tab[t].page, cards, more) IN
         /\ p.query = tab[t].page.query /\ p.more = more
         /\ p.cards = tab[t].page.cards \o cards
<1>1. tab[t].page \in PageType
  BY DEF TabType
<1>. QED  BY <1>1 DEF Longer, PageType

LEMMA StartMoreIsPatient ==
  ASSUME ArtInv, NEW t \in Tab, Patient(t), WaitsInOrder(t), NEW r \in Id, StartMore(r)
  PROVE  WaitsInOrder(t)'
<1>. DEFINE q == requests[r]
            c == NextBatch(session)
            place == IF c = <<>> THEN "answered" ELSE "fetch"
            e == IF c = <<>> THEN [q EXCEPT !.at = "answered"]
                 ELSE [q EXCEPT !.at = "fetch", !.query = session.query, !.cursors = c]
<1>1. InFlight(r) /\ q.op = "more" /\ session' = session
  BY DEF StartMore, At, InFlight
<1>2. /\ r \in DOMAIN requests /\ q \in RequestType /\ q.tab = t /\ Wanted(r)
      /\ tab[t] \in TabType /\ tab \in [Tab -> TabType] /\ tab[t].page # Nothing
  BY <1>1, PatientIs
<1>3. /\ requests \in Seq(RequestType) /\ session.query \in Queries
      /\ c \in Seq(Asked) /\ (c = <<>> <=> ~HasMore(session)) /\ HasMore(session) \in BOOLEAN
  BY SessionIsTyped DEF ArtInv, Typed
<1>. HIDE DEF c
<1>4. e \in RequestType /\ e.at = place /\ e.op = q.op
  BY <1>2, <1>3 DEF RequestType
<1>5. requests' = [requests EXCEPT ![r] = e]
  <2>1. CASE c = <<>>
    BY <2>1 DEF StartMore, c
  <2>2. CASE c # <<>>
    <3>1. requests' = [requests EXCEPT ![r].at = "fetch", ![r].query = session.query,
                                       ![r].cursors = c]
      BY <2>2 DEF StartMore, c
    <3>2. requests \in [1 .. Len(requests) -> RequestType] /\ r \in 1 .. Len(requests)
      BY <1>2, <1>3
    <3>. QED  BY <2>2, <3>1, <3>2
  <2>. QED  BY <2>1, <2>2
<1>. HIDE DEF e
<1>6. /\ DOMAIN requests' = DOMAIN requests /\ requests'[r] = e
      /\ \A i \in DOMAIN requests : i # r => requests'[i] = requests[i]
  BY <1>2, <1>3, <1>4, <1>5, OneRequestMoves
<1>7. CASE c # <<>>
  <2>1. tab' = tab
    BY <1>7 DEF StartMore, c
  <2>. QED  BY <1>1, <1>4, <1>6, <2>1, HandlingIsPatient
<1>8. CASE c = <<>>
  <2>. DEFINE page == Longer(tab[t].page, <<>>, FALSE)
  <2>1. tab' = Shown(t, page)
    BY <1>2, <1>8 DEF StartMore, c
  <2>2. page.query = tab[t].page.query /\ page.more = FALSE /\ page.cards = tab[t].page.cards
    <3>1. tab[t].page.cards \in Seq(AllFound)
      BY <1>2 DEF TabType, PageType
    <3>2. tab[t].page.cards \o <<>> = tab[t].page.cards
      BY <3>1
    <3>3. tab[t].page \in PageType
      BY <1>2 DEF TabType
    <3>. QED  BY <3>2, <3>3 DEF PageType, Longer
  <2>. HIDE DEF page
  <2>3. tab'[t].awaits = NoRequest /\ tab'[t].page = page
    BY <1>2, <2>1, PageIsShown
  <2>4. Shows(t, session)
    BY <1>2 DEF WaitsInOrder
  <2>5. Shows(t, session)'
    BY <1>1, <1>3, <1>8, <2>2, <2>3, <2>4 DEF Shows
  <2>6. ~InFlight(r)'
    BY <1>4, <1>6, <1>8 DEF InFlight
  <2>. QED  BY <1>1, <1>4, <1>6, <2>3, <2>5, <2>6, HandlingIsPatient
<1>. QED  BY <1>7, <1>8

\* The cards of a list with more behind it are the cards of both.
LEMMA CardsOfBoth ==
  ASSUME NEW a \in Seq(AllFound), NEW b \in Seq(AllFound)
  PROVE  Cards(a \o b) = Cards(a) \o Cards(b)
<1>. DEFINE c == a \o b
            some == {x \in ToSet(c) : Keyed(x)}
            someA == {x \in ToSet(a) : Keyed(x)}
            someB == {x \in ToSet(b) : Keyed(x)}
<1>1. \A i \in 1 .. Len(a) : a[i] \in ToSet(c) /\ a[i] \in ToSet(a)
  <2>. SUFFICES ASSUME NEW i \in 1 .. Len(a)
                PROVE  a[i] \in ToSet(c) /\ a[i] \in ToSet(a)
    OBVIOUS
  <2>1. i \in DOMAIN c /\ c[i] = a[i] /\ i \in DOMAIN a
    OBVIOUS
  <2>. HIDE DEF c
  <2>. QED  BY <2>1 DEF ToSet
<1>2. \A i \in 1 .. Len(b) : b[i] \in ToSet(c) /\ b[i] \in ToSet(b)
  <2>. SUFFICES ASSUME NEW i \in 1 .. Len(b)
                PROVE  b[i] \in ToSet(c) /\ b[i] \in ToSet(b)
    OBVIOUS
  <2>1. Len(a) + i \in DOMAIN c /\ c[Len(a) + i] = b[i] /\ i \in DOMAIN b
    OBVIOUS
  <2>. HIDE DEF c
  <2>. QED  BY <2>1 DEF ToSet
<1>3. \A i \in 1 .. Len(a) : a[i] \in some <=> a[i] \in someA
  BY <1>1
<1>4. \A i \in 1 .. Len(b) : b[i] \in some <=> b[i] \in someB
  BY <1>2
<1>. HIDE DEF some, someA, someB
<1>5. Kept(a \o b, some) = Kept(a, someA) \o Kept(b, someB)
  BY <1>3, <1>4, KeptOfBoth
<1>. QED  BY <1>5 DEF Cards, some, someA, someB, c

LEMMA MergeIsPatient ==
  ASSUME ArtInv, NEW t \in Tab, Patient(t), WaitsInOrder(t), NEW r \in Id, Merge(r),
         UNCHANGED trial
  PROVE  WaitsInOrder(t)'
<1>. DEFINE q == requests[r]
<1>1. InFlight(r)
  BY DEF Merge, At, InFlight
<1>2. /\ r \in DOMAIN requests /\ q \in RequestType /\ q.tab = t /\ Wanted(r)
      /\ tab[t] \in TabType /\ tab \in [Tab -> TabType]
      /\ tab[t].page # Nothing <=> q.op = "more"
  BY <1>1, PatientIs
<1>3. /\ DOMAIN requests' = DOMAIN requests
      /\ \A i \in DOMAIN requests : i # r => requests'[i] = requests[i]
      /\ requests'[r] \in {[q EXCEPT !.at = "answered"], [q EXCEPT !.at = "render"]}
      /\ session'.query = session.query
  BY MergeIsOk
<1>4. PICK new \in Seq(AllFound) :
        /\ session'.artworks = session.artworks \o new
        /\ session.artworks \in Seq(AllFound)
        /\ tab' = IF q.op = "more" /\ Wanted(r)
                  THEN Shown(q.tab, Longer(tab[q.tab].page, Cards(new), HasMore(session')))
                  ELSE tab
  BY MergeIsOk
<1>5. requests'[r].op = q.op
  BY <1>2, <1>3 DEF RequestType
<1>6. CASE q.op # "more"
  <2>1. tab' = tab
    BY <1>4, <1>6
  <2>. QED  BY <1>1, <1>3, <1>5, <1>6, <2>1, HandlingIsPatient
<1>7. CASE q.op = "more"
  <2>. DEFINE page == Longer(tab[t].page, Cards(new), HasMore(session'))
  <2>1. tab' = Shown(t, page)
    BY <1>2, <1>4, <1>7
  <2>2. /\ page.query = tab[t].page.query /\ page.more = HasMore(session')
        /\ page.cards = tab[t].page.cards \o Cards(new)
    BY <1>2, PageIsLonger
  <2>. HIDE DEF page
  <2>3. tab'[t].awaits = NoRequest /\ tab'[t].page = page
    BY <1>2, <2>1, PageIsShown
  <2>4. Shows(t, session)
    BY <1>2, <1>7 DEF WaitsInOrder
  <2>5. Cards(session.artworks \o new) = Cards(session.artworks) \o Cards(new)
    BY <1>4, CardsOfBoth
  <2>6. Shows(t, session)'
    BY <1>3, <1>4, <2>2, <2>3, <2>4, <2>5 DEF Shows
  <2>7. ~InFlight(r)'
    <3>1. requests'[r].at = "answered"
      <4>1. requests' = [requests EXCEPT ![r].at = "answered"]
        BY <1>7 DEF Merge
      <4>2. requests \in [DOMAIN requests -> RequestType]
        BY DEF ArtInv, Typed
      <4>. QED  BY <1>2, <4>1, <4>2 DEF RequestType
    <3>. QED  BY <3>1 DEF InFlight
  <2>. QED  BY <1>1, <1>3, <1>5, <2>3, <2>6, <2>7, HandlingIsPatient
<1>. QED  BY <1>6, <1>7

LEMMA RenderIsPatient ==
  ASSUME ArtInv, NEW t \in Tab, Patient(t), WaitsInOrder(t), NEW r \in Id, Render(r)
  PROVE  WaitsInOrder(t)'
<1>. DEFINE q == requests[r]
            answered == [q EXCEPT !.at = "answered"]
            page == [ query |-> session.query, cards |-> Cards(session.artworks),
                      more  |-> HasMore(session), sent  |-> q.form ]
<1>1. InFlight(r) /\ session' = session
  BY DEF Render, At, InFlight
<1>2. /\ r \in DOMAIN requests /\ q \in RequestType /\ q.tab = t /\ Wanted(r)
      /\ tab \in [Tab -> TabType] /\ requests \in Seq(RequestType)
  BY <1>1, PatientIs DEF ArtInv, Typed
<1>3. answered \in RequestType /\ answered.op = q.op /\ answered.at = "answered"
  BY <1>2 DEF RequestType
<1>4. requests' = [requests EXCEPT ![r] = answered] /\ tab' = Shown(t, page)
  BY <1>2 DEF Render
<1>5. page.query = session.query /\ page.cards = Cards(session.artworks)
      /\ page.more = HasMore(session)
  OBVIOUS
<1>. HIDE DEF answered, page
<1>6. /\ DOMAIN requests' = DOMAIN requests /\ requests'[r] = answered
      /\ \A i \in DOMAIN requests : i # r => requests'[i] = requests[i]
  BY <1>2, <1>3, <1>4, OneRequestMoves
<1>7. tab'[t].awaits = NoRequest /\ tab'[t].page = page
  BY <1>2, <1>4, PageIsShown
<1>8. Shows(t, session)'
  BY <1>1, <1>5, <1>7 DEF Shows
<1>9. ~InFlight(r)'
  BY <1>3, <1>6 DEF InFlight
<1>. QED  BY <1>1, <1>3, <1>6, <1>7, <1>8, <1>9, HandlingIsPatient

\* Only a tab that goes elsewhere while it waits becomes hasty, and stays so.
LEMMA HandlingLeavesHaste ==
  ASSUME ArtInv, NEW r \in Id, Handle(r) \/ Drop(r), NEW t \in Tab
  PROVE  tab'[t].hasty = tab[t].hasty
<1>. DEFINE u == requests[r].tab
<1>1. r \in DOMAIN requests
  BY DEF Handle, Drop, Arrive, StartSearch, StartMore, Merge, Render, At, InFlight
<1>2. u \in Tab /\ tab \in [Tab -> TabType] /\ tab[t] \in TabType /\ tab[u] \in TabType
  BY <1>1, TypedIs DEF ArtInv, Typed
<1>. HIDE DEF u
<1>3. ASSUME NEW page
      PROVE  Shown(u, page)[t].hasty = tab[t].hasty
  <2>1. CASE t = u
    BY <1>2, <2>1, PageIsShown
  <2>2. CASE t # u
    BY <1>2, <2>2 DEF Shown
  <2>. QED  BY <2>1, <2>2
<1>4. [tab EXCEPT ![u].awaits = NoRequest][t].hasty = tab[t].hasty
  BY <1>2 DEF TabType
<1>5. CASE Arrive(r)
  BY <1>4, <1>5 DEF Arrive, u
<1>6. CASE StartSearch(r) \/ Drop(r)
  BY <1>6 DEF StartSearch, Drop
<1>7. CASE StartMore(r)
  <2>1. tab' = tab \/ \E page : tab' = Shown(u, page)
    BY <1>7 DEF StartMore, u
  <2>. QED  BY <1>3, <2>1
<1>8. CASE Merge(r)
  <2>1. tab' = tab \/ \E page : tab' = Shown(u, page)
    BY <1>8 DEF Merge, u
  <2>. QED  BY <1>3, <2>1
<1>9. CASE Render(r)
  <2>1. tab' = tab \/ \E page : tab' = Shown(u, page)
    BY <1>9 DEF Render, u
  <2>. QED  BY <1>3, <2>1
<1>. QED  BY <1>5, <1>6, <1>7, <1>8, <1>9 DEF Handle

LEMMA BrowseIsPatient ==
  ASSUME ArtInv, PatientOk, NEW u \in Tab, Browse(u), UNCHANGED trial,
         NEW t \in Tab, Patient(t)'
  PROVE  WaitsInOrder(t)'
<1>. DEFINE n == Len(requests)
<1>1. u = t /\ trial.tabs = {t}
  BY DEF Browse, Patient
<1>2. tab[t] \in TabType /\ tab \in [Tab -> TabType] /\ ~tab'[t].hasty
  BY DEF ArtInv, Typed, Patient
<1>3. DOMAIN requests = 1 .. n /\ n \in Nat /\ requests \in Seq(RequestType)
  BY TypedIs DEF ArtInv, Typed
<1>4. /\ Left(t).page = Nothing /\ Left(t).awaits = NoRequest
      /\ Left(t).hasty = (tab[t].hasty \/ tab[t].awaits # NoRequest)
      /\ DOMAIN Left(t) = {"page", "open", "awaits", "hasty"}
  BY DEF Left, Closed
<1>5. ASSUME ~tab[t].hasty, tab[t].awaits = NoRequest
      PROVE  WaitsInOrder(t) /\ \A r \in 1 .. n : ~InFlight(r)
  <2>1. WaitsInOrder(t)
    BY <1>1, <1>5 DEF PatientOk, Patient
  <2>2. \A r \in 1 .. n : r # NoRequest
    BY DEF NoRequest
  <2>. QED  BY <1>3, <1>5, <2>1, <2>2 DEF WaitsInOrder
<1>6. ASSUME NEW e, requests' = Append(requests, e), tab'[t].awaits = n + 1,
             \A r \in 1 .. n : ~InFlight(r),
             tab'[t].page # Nothing <=> e.op = "more",
             tab'[t].page # Nothing => Shows(t, session)'
      PROVE  WaitsInOrder(t)'
  <2>1. /\ DOMAIN requests' = 1 .. n + 1 /\ requests'[n + 1] = e
        /\ \A r \in 1 .. n : requests'[r] = requests[r]
        /\ n + 1 \in 1 .. n + 1
        /\ \A r \in 1 .. n + 1 : r \in 1 .. n \/ r = n + 1
    BY <1>3, <1>6
  <2>. HIDE DEF n
  <2>2. \A r \in 1 .. n : ~InFlight(r)'
    BY <1>3, <1>6, <2>1 DEF InFlight
  <2>. QED  BY <1>6, <2>1, <2>2 DEF WaitsInOrder
<1>7. ASSUME NEW op \in {"search", "page"}, NEW form, Visit(t, op, form)
      PROVE  WaitsInOrder(t)'
  <2>. DEFINE e == Request(t, op, form, "sent")
              l == [Left(t) EXCEPT !.open = TRUE, !.awaits = n + 1]
  <2>1. tab' = [tab EXCEPT ![t] = l] /\ requests' = Append(requests, e)
    BY <1>7 DEF Visit
  <2>2. l.page = Nothing /\ l.awaits = n + 1 /\ l.hasty = Left(t).hasty
    BY <1>4
  <2>. HIDE DEF l
  <2>3. tab'[t] = l
    BY <1>2, <2>1
  <2>4. ~tab[t].hasty /\ tab[t].awaits = NoRequest
    BY <1>2, <1>4, <2>2, <2>3
  <2>5. e.op # "more"
    BY DEF Request
  <2>. HIDE DEF e, n
  <2>. QED  BY <1>5, <1>6, <2>1, <2>2, <2>3, <2>4, <2>5
<1>8. CASE LoadMore(t)
  <2>. DEFINE e == Request(t, "more", NoForm, "sent")
  <2>1. /\ tab' = [tab EXCEPT ![t].awaits = n + 1] /\ requests' = Append(requests, e)
        /\ tab[t].page.more /\ tab[t].awaits = NoRequest /\ session' = session
    BY <1>8 DEF LoadMore
  <2>2. /\ tab'[t].page = tab[t].page /\ tab'[t].awaits = n + 1
        /\ tab'[t].hasty = tab[t].hasty
    BY <1>2, <2>1 DEF TabType
  <2>3. e.op = "more"
    BY DEF Request
  <2>4. tab[t].page # Nothing
    BY <2>1 DEF Nothing
  <2>. HIDE DEF e, n
  <2>5. WaitsInOrder(t) /\ \A r \in 1 .. n : ~InFlight(r)
    BY <1>2, <1>5, <2>1, <2>2
  <2>6. Shows(t, session)'
    BY <2>1, <2>2, <2>4, <2>5 DEF WaitsInOrder, Shows
  <2>. QED  BY <1>6, <2>1, <2>2, <2>3, <2>4, <2>5, <2>6
<1>9. CASE Close(t)
  <2>1. tab' = [tab EXCEPT ![t] = Left(t)] /\ requests' = requests
    BY <1>9 DEF Close
  <2>2. tab'[t] = Left(t)
    BY <1>2, <2>1
  <2>3. ~tab[t].hasty /\ tab[t].awaits = NoRequest
    BY <1>2, <1>4, <2>2
  <2>4. \A r \in DOMAIN requests' : ~InFlight(r)'
    BY <1>3, <1>5, <2>1, <2>3 DEF InFlight
  <2>. QED  BY <1>4, <2>2, <2>4 DEF WaitsInOrder
<1>. QED  BY <1>1, <1>7, <1>8, <1>9 DEF Browse

LEMMA NextIsPatient ==
  ArtInv /\ PatientOk /\ [Next]_vars => PatientOk'
<1>. SUFFICES ASSUME ArtInv, PatientOk, [Next]_vars, NEW t \in Tab, Patient(t)'
              PROVE  WaitsInOrder(t)'
  BY DEF PatientOk
<1>1. CASE UNCHANGED <<galleryVars, trial>>
  BY <1>1 DEF PatientOk, Patient, WaitsInOrder, InFlight, Shows, galleryVars
<1>2. CASE InPage(\E u \in Tab : Browse(u))
  BY <1>2, BrowseIsPatient DEF InPage
<1>3. CASE InPage(\E r \in Id : Handle(r) \/ Drop(r))
  <2>1. PICK r \in Id : (Handle(r) \/ Drop(r)) /\ UNCHANGED trial
    BY <1>3 DEF InPage
  <2>2. tab'[t].hasty = tab[t].hasty
    BY <2>1, HandlingLeavesHaste
  <2>3. Patient(t) /\ WaitsInOrder(t)
    BY <2>1, <2>2 DEF PatientOk, Patient
  <2>4. CASE Drop(r)
    <3>1. InFlight(r) /\ ~Wanted(r)
      BY <2>4 DEF Drop
    <3>. QED  BY <2>3, <3>1, PatientIs
  <2>. QED  BY <2>1, <2>3, <2>4, ArriveIsPatient, StartSearchIsPatient, StartMoreIsPatient,
               MergeIsPatient, RenderIsPatient DEF Handle
<1>. QED  BY <1>1, <1>2, <1>3 DEF Next, InLife, vars

(***************************************************************************)
(* The page of somebody who uses one tab and waits for its answers is the  *)
(* session, after any number of searches and batches: every card once, in  *)
(* the session's order, and the button exactly while a museum has another  *)
(* page (server.rs, more; render.rs, the script of the page).              *)
(***************************************************************************)
THEOREM SolePageIsTheSessionAlways == Spec => []SolePageIsTheSession
<1>1. Init => ArtInv /\ PatientOk
  <2>. SUFFICES ASSUME Init
                PROVE  ArtInv /\ PatientOk
    OBVIOUS
  <2>1. ArtInv
    BY InitIsOk
  <2>2. requests = <<>> /\ \A t \in Tab : tab[t] = Closed
    BY DEF Init
  <2>3. PatientOk
    BY <2>2 DEF PatientOk, WaitsInOrder, InFlight, Closed
  <2>. QED  BY <2>1, <2>3
<1>2. ArtInv /\ PatientOk /\ [Next]_vars => (ArtInv /\ PatientOk)'
  BY NextIsOk, NextIsPatient
<1>3. ArtInv /\ PatientOk => SolePageIsTheSession
  <2>. SUFFICES ASSUME ArtInv, PatientOk, NEW t \in trial.tabs, Patient(t),
                       tab[t].page # Nothing
                PROVE  Shows(t, session)
    BY DEF SolePageIsTheSession, Shows, Patient
  <2>1. t \in Tab
    BY TypedIs DEF ArtInv
  <2>. QED  BY <2>1 DEF PatientOk, WaitsInOrder
<1>. QED  BY <1>1, <1>2, <1>3, PTL DEF Spec
=============================================================================
