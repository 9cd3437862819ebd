----------------------------- MODULE TableProofs -----------------------------
(***************************************************************************)
(* What the pure functions of MCTables promise, of every input.            *)
(***************************************************************************)
EXTENDS MCTables, SearchProofs

-----------------------------------------------------------------------------
(* Payment.                                                                *)

Pools == [ManaType -> Int]

\* The walk always finds a pool: a largest one, and a named one only when it
\* is larger than every unnamed one.
LEMMA PickedPoolIsLargest ==
  ASSUME NEW pools \in Pools, NEW named
  PROVE  LET t == PickLargestPool(pools, named) IN
         /\ t \in ManaType
         /\ \A u \in ManaType :
              /\ pools[u] <= pools[t]
              /\ t \in named /\ u \notin named => pools[u] < pools[t]
<1>. DEFINE Wins(t) == \A u \in ManaType \ {t} : Outranks(t, u, pools, named)
<1>1. \A t \in ManaType : pools[t] \in Int
  BY DEF Pools
<1>2. \E t \in ManaType : Wins(t)
  BY <1>1 DEF ManaType, Outranks, PoolOrder
<1>3. PickLargestPool(pools, named) \in ManaType /\ Wins(PickLargestPool(pools, named))
  BY <1>2 DEF PickLargestPool
<1>. QED  BY <1>1, <1>3 DEF Outranks

LEMMA TotalOfPools ==
  ASSUME NEW pools \in Pools
  PROVE  /\ \A t \in ManaType : pools[t] \in Int
         /\ Total(pools) \in Int
BY DEF Pools, Total, ManaType

\* One generic unit less: the total falls by one, and only the pool picked.
LEMMA OneUnit ==
  ASSUME NEW pools \in Pools, NEW t \in ManaType
  PROVE  LET next == [pools EXCEPT ![t] = @ - 1] IN
         /\ next \in Pools
         /\ next[t] = pools[t] - 1
         /\ \A u \in ManaType : u # t => next[u] = pools[u]
         /\ Total(next) = Total(pools) - 1
BY DEF Pools, Total, ManaType

\* What n unhinted units leave of the pools they are taken from.
Levelled(rest, named, n, pools) ==
  /\ pools \in Pools
  /\ Total(pools) = Total(rest) - n
  /\ \A t \in ManaType : pools[t] <= rest[t]
  /\ Total(pools) >= 0 => \A t \in ManaType : pools[t] >= 0
  /\ \A t, u \in ManaType : pools[t] < rest[t] => pools[u] <= pools[t] + 1
  /\ \A t \in named \cap ManaType, u \in ManaType \ named :
       pools[t] < rest[t] => pools[u] <= pools[t]

LEMMA LevelledStarts ==
  ASSUME NEW rest \in Pools, NEW named, \A t \in ManaType : rest[t] >= 0
  PROVE  Levelled(rest, named, 0, rest)
BY TotalOfPools DEF Levelled

LEMMA LevelledGoesOn ==
  ASSUME NEW rest \in Pools, NEW named, NEW n \in Nat, NEW pools \in Pools,
         Levelled(rest, named, n, pools)
  PROVE  Levelled(rest, named, n + 1,
                  [pools EXCEPT ![PickLargestPool(pools, named)] = @ - 1])
<1>. DEFINE p == PickLargestPool(pools, named)
            next == [pools EXCEPT ![p] = @ - 1]
<1>1. /\ p \in ManaType
      /\ \A u \in ManaType :
           /\ pools[u] <= pools[p]
           /\ p \in named /\ u \notin named => pools[u] < pools[p]
  BY PickedPoolIsLargest
<1>2. /\ next \in Pools /\ next[p] = pools[p] - 1
      /\ \A u \in ManaType : u # p => next[u] = pools[u]
      /\ Total(next) = Total(pools) - 1
  BY <1>1, OneUnit
<1>3. /\ \A t \in ManaType : pools[t] \in Int /\ rest[t] \in Int /\ next[t] \in Int
      /\ Total(pools) \in Int /\ Total(rest) \in Int
  BY <1>2, TotalOfPools
<1>. HIDE DEF p, next
<1>4. Total(next) = Total(rest) - (n + 1)
  BY <1>2, <1>3 DEF Levelled
<1>5. \A t \in ManaType : next[t] <= rest[t]
  BY <1>1, <1>2, <1>3 DEF Levelled
<1>6. ASSUME Total(next) >= 0, NEW t \in ManaType
      PROVE  next[t] >= 0
  <2>1. \A u \in ManaType : pools[u] >= 0
    BY <1>2, <1>3, <1>6 DEF Levelled
  <2>2. pools[p] > 0
    <3>1. Total(pools) > 0
      BY <1>2, <1>3, <1>6
    <3>. QED  BY <1>1, <1>3, <3>1 DEF Total, ManaType
  <2>. QED  BY <1>1, <1>2, <1>3, <2>1, <2>2
<1>7. ASSUME NEW t \in ManaType, NEW u \in ManaType, next[t] < rest[t]
      PROVE  next[u] <= next[t] + 1
  BY <1>1, <1>2, <1>3, <1>7 DEF Levelled
<1>8. ASSUME NEW t \in named \cap ManaType, NEW u \in ManaType \ named, next[t] < rest[t]
      PROVE  next[u] <= next[t]
  BY <1>1, <1>2, <1>3, <1>8 DEF Levelled
<1>. QED  BY <1>2, <1>4, <1>5, <1>6, <1>7, <1>8 DEF Levelled, p, next

\* However many units are taken.
LEMMA AfterGenericIsLevelled ==
  ASSUME NEW rest \in Pools, NEW named, NEW n \in Nat,
         \A t \in ManaType : rest[t] >= 0
  PROVE  Levelled(rest, named, n, AfterGeneric(rest, named, n))
<1>. DEFINE Unit(pools) == [pools EXCEPT ![PickLargestPool(pools, named)] = @ - 1]
            step == [i \in 1 .. n |-> [pools \in Pools |-> Unit(pools)]]
            IsLeft(f) ==
              f = [i \in 0 .. n |-> IF i = 0 THEN rest ELSE Unit(f[i - 1])]
            left == CHOOSE f : IsLeft(f)
            T == {i \in 0 .. n : left[i] \in Pools /\ Levelled(rest, named, i, left[i])}
<1>1. \A pools \in Pools : Unit(pools) \in Pools
  BY PickedPoolIsLargest, OneUnit
<1>2. step \in [1 .. n -> [Pools -> Pools]]
  BY <1>1
<1>3. PICK f \in [0 .. n -> Pools] :
        f[0] = rest /\ \A i \in 1 .. n : f[i] = step[i][f[i - 1]]
  <2>. HIDE DEF step
  <2>. QED  BY <1>2, IterationExists, SMTT(60)
<1>4. IsLeft(f)
  <2>1. ASSUME NEW i \in 0 .. n
        PROVE  f[i] = IF i = 0 THEN rest ELSE Unit(f[i - 1])
    <3>. HIDE DEF Unit
    <3>1. CASE i # 0
      <4>1. i \in 1 .. n /\ i - 1 \in 0 .. n
        BY <3>1
      <4>2. f[i - 1] \in Pools
        BY <4>1
      <4>. QED  BY <1>3, <3>1, <4>1, <4>2
    <3>. QED  BY <1>3, <3>1
  <2>. HIDE DEF Unit, step
  <2>. QED  BY <1>3, <2>1
<1>5. IsLeft(left)
  <2>. HIDE DEF IsLeft
  <2>. QED  BY <1>4
<1>6. AfterGeneric(rest, named, n) = left[n]
  BY DEF AfterGeneric
<1>7. left[0] = rest /\ \A i \in 1 .. n : left[i] = Unit(left[i - 1])
  <2>. HIDE DEF left, Unit
  <2>1. 0 \in 0 .. n /\ \A i \in 1 .. n : i \in 0 .. n /\ i # 0
    OBVIOUS
  <2>. QED  BY <1>5, <2>1
<1>8. 0 \in T
  BY <1>7, LevelledStarts
<1>9. ASSUME NEW i \in 1 .. n, i - 1 \in T
      PROVE  i \in T
  <2>. HIDE DEF left
  <2>1. left[i - 1] \in Pools /\ Levelled(rest, named, i - 1, left[i - 1]) /\ i - 1 \in Nat
    BY <1>9
  <2>2. Levelled(rest, named, (i - 1) + 1, Unit(left[i - 1]))
    BY <2>1, LevelledGoesOn
  <2>3. (i - 1) + 1 = i /\ left[i] = Unit(left[i - 1]) /\ i \in 0 .. n
    BY <1>7
  <2>4. left[i] \in Pools
    BY <1>1, <2>1, <2>3
  <2>. HIDE DEF Unit
  <2>. QED  BY <2>2, <2>3, <2>4
<1>10. 0 .. n \subseteq T
  <2>. HIDE DEF T
  <2>. QED  BY <1>8, <1>9, BoundedInduction
<1>11. n \in 0 .. n
  OBVIOUS
<1>. HIDE DEF left
<1>. QED  BY <1>6, <1>10, <1>11

LEMMA AfterTypedIsPools ==
  ASSUME NEW bank \in Bank, NEW cost \in Cost
  PROVE  LET rest == AfterTyped(bank, cost) IN
         /\ rest \in Pools
         /\ \A t \in ManaType : rest[t] = bank[t] - cost.typed[t]
         /\ Total(rest) = Total(bank) - Total(cost.typed)
         /\ Total(bank) \in Nat /\ Total(cost.typed) \in Nat /\ cost.generic \in Nat
         /\ \A t \in ManaType : bank[t] \in Nat /\ cost.typed[t] \in Nat /\ rest[t] \in Int
<1>1. /\ cost.typed \in [ManaType -> Nat] /\ cost.generic \in Nat
      /\ bank \in [ManaType -> Nat]
  BY DEF Cost, Bank
<1>2. /\ \A t \in ManaType : bank[t] \in Nat /\ cost.typed[t] \in Nat
      /\ \A t \in ManaType : AfterTyped(bank, cost)[t] = bank[t] - cost.typed[t]
  BY <1>1 DEF AfterTyped
<1>3. AfterTyped(bank, cost) \in Pools
  BY <1>2 DEF AfterTyped, Pools
<1>4. /\ Total(AfterTyped(bank, cost)) = Total(bank) - Total(cost.typed)
      /\ Total(bank) \in Nat /\ Total(cost.typed) \in Nat
  BY <1>2 DEF Total, ManaType
<1>. QED  BY <1>1, <1>2, <1>3, <1>4

\* Paying without a hint, and when it can be done.
LEMMA UnhintedPayment ==
  ASSUME NEW bank \in Bank, NEW cost \in Cost
  PROVE  /\ Affords(bank, cost, NoHint) <=>
              /\ \A t \in ManaType : cost.typed[t] <= bank[t]
              /\ Total(cost.typed) + cost.generic <= Total(bank)
         /\ Affords(bank, cost, NoHint) =>
              /\ Levelled(AfterTyped(bank, cost), NamedPools(cost), cost.generic,
                          Paid(bank, cost, NoHint))
              /\ \A t \in ManaType : Paid(bank, cost, NoHint)[t] >= 0
<1>. DEFINE rest == AfterTyped(bank, cost)
            left == AfterGeneric(rest, NamedPools(cost), cost.generic)
<1>1. /\ rest \in Pools
      /\ \A t \in ManaType : rest[t] = bank[t] - cost.typed[t]
      /\ Total(rest) = Total(bank) - Total(cost.typed)
      /\ Total(bank) \in Nat /\ Total(cost.typed) \in Nat /\ cost.generic \in Nat
      /\ \A t \in ManaType : bank[t] \in Nat /\ cost.typed[t] \in Nat /\ rest[t] \in Int
  BY AfterTypedIsPools
<1>2. left = Simulated(bank, cost, NoHint) /\ left = Paid(bank, cost, NoHint)
  BY DEF Simulated, Paid
<1>3. Affords(bank, cost, NoHint) <=> ~AnyNegative(rest) /\ ~AnyNegative(left)
  BY <1>2 DEF Affords, PaymentError, HintIsInvalid
<1>. HIDE DEF rest, left
<1>4. AnyNegative(rest) <=> ~\A t \in ManaType : cost.typed[t] <= bank[t]
  BY <1>1 DEF AnyNegative
<1>5. CASE AnyNegative(rest)
  BY <1>3, <1>4, <1>5
<1>6. CASE ~AnyNegative(rest)
  <2>1. \A t \in ManaType : rest[t] >= 0
    BY <1>1, <1>6 DEF AnyNegative
  <2>2. Levelled(rest, NamedPools(cost), cost.generic, left)
    BY <1>1, <2>1, AfterGenericIsLevelled DEF left
  <2>3. left \in Pools /\ Total(left) = Total(rest) - cost.generic
    BY <2>2 DEF Levelled
  <2>4. Total(left) \in Int /\ \A t \in ManaType : left[t] \in Int
    BY <2>3, TotalOfPools
  <2>5. AnyNegative(left) <=> Total(left) < 0
    <3>1. Total(left) >= 0 => \A t \in ManaType : left[t] >= 0
      BY <2>2 DEF Levelled
    <3>2. (\A t \in ManaType : left[t] >= 0) => Total(left) >= 0
      BY <2>4 DEF Total, ManaType
    <3>. QED  BY <2>4, <3>1, <3>2 DEF AnyNegative
  <2>6. Affords(bank, cost, NoHint) <=>
          /\ \A t \in ManaType : cost.typed[t] <= bank[t]
          /\ Total(cost.typed) + cost.generic <= Total(bank)
    BY <1>1, <1>3, <1>4, <1>6, <2>3, <2>4, <2>5
  <2>7. ~AnyNegative(left) => \A t \in ManaType : left[t] >= 0
    BY <2>4 DEF AnyNegative
  <2>. QED  BY <1>2, <1>3, <2>2, <2>6, <2>7 DEF rest
<1>. QED  BY <1>5, <1>6

\* Paying with one, and what a refusal of it means.
LEMMA HintedPayment ==
  ASSUME NEW bank \in Bank, NEW cost \in Cost, NEW hint \in ManaType
  PROVE  LET left == Paid(bank, cost, hint)
             error == PaymentError(bank, cost, hint)
         IN /\ error = "None" =>
                 /\ left \in Pools
                 /\ cost.generic > 0
                 /\ Total(left) = Total(bank) - Total(cost.typed) - cost.generic
                 /\ \A t \in ManaType :
                      /\ left[t] >= 0
                      /\ left[t] = bank[t] - cost.typed[t] - (IF t = hint THEN cost.generic ELSE 0)
            /\ error = "InvalidHint" =>
                 cost.generic = 0 \/ bank[hint] = cost.typed[hint]
<1>. DEFINE rest == AfterTyped(bank, cost)
            left == AfterHinted(rest, hint, cost.generic)
<1>1. /\ rest \in Pools
      /\ \A t \in ManaType : rest[t] = bank[t] - cost.typed[t]
      /\ Total(rest) = Total(bank) - Total(cost.typed)
      /\ Total(bank) \in Nat /\ Total(cost.typed) \in Nat /\ cost.generic \in Nat
      /\ \A t \in ManaType : bank[t] \in Nat /\ cost.typed[t] \in Nat /\ rest[t] \in Int
  BY AfterTypedIsPools
<1>2. hint # NoHint
  BY DEF ManaType, NoHint
<1>3. left = Simulated(bank, cost, hint) /\ left = Paid(bank, cost, hint)
  BY <1>2 DEF Simulated, Paid
<1>4. PaymentError(bank, cost, hint) = "None" =>
        /\ ~(cost.generic = 0 \/ rest[hint] = 0)
        /\ ~AnyNegative(left)
  BY <1>2, <1>3 DEF PaymentError, HintIsInvalid
<1>5. PaymentError(bank, cost, hint) = "InvalidHint" => cost.generic = 0 \/ rest[hint] = 0
  BY <1>2 DEF PaymentError, HintIsInvalid
<1>. HIDE DEF rest
<1>6. /\ left \in Pools
      /\ \A t \in ManaType :
           left[t] = bank[t] - cost.typed[t] - (IF t = hint THEN cost.generic ELSE 0)
  BY <1>1 DEF Pools, AfterHinted
<1>7. Total(left) = Total(bank) - Total(cost.typed) - cost.generic
  <2>. HIDE DEF left
  <2>. QED  BY <1>1, <1>6 DEF Total, ManaType
<1>8. ~AnyNegative(left) => \A t \in ManaType : left[t] >= 0
  <2>. HIDE DEF left
  <2>1. \A t \in ManaType : left[t] \in Int
    BY <1>6 DEF Pools
  <2>. QED  BY <2>1 DEF AnyNegative
<1>. HIDE DEF left
<1>9. rest[hint] = 0 => bank[hint] = cost.typed[hint]
  BY <1>1
<1>. QED  BY <1>1, <1>3, <1>4, <1>5, <1>6, <1>7, <1>8, <1>9

\* A payment that was asked for is answered by deduct or not at all yet.
PaymentInv ==
  call.fn = "deduct" =>
    /\ call \in PaymentCalls
    /\ result.made =>
         /\ result.error = PaymentError(call.bank, call.cost, call.hint)
         /\ result.error = "None" => result.left = Paid(call.bank, call.cost, call.hint)

LEMMA PaymentCallTypes ==
  ASSUME NEW c \in PaymentCalls
  PROVE  c.bank \in Bank /\ c.cost \in Cost /\ c.hint \in Hint
<1>1. {MaxPool, MaxTyped, MaxGeneric} \subseteq Nat
  BY PaymentBounds
<1>2. 0 .. MaxPool \subseteq Nat /\ 0 .. MaxTyped \subseteq Nat /\ 0 .. MaxGeneric \subseteq Nat
  BY <1>1
<1>3. c.bank \in [ManaType -> 0 .. MaxPool] /\ c.hint \in Hint
  BY DEF PaymentCalls
<1>4. c.cost \in [typed : [ManaType -> 0 .. MaxTyped], generic : 0 .. MaxGeneric]
  BY DEF PaymentCalls
<1>. QED  BY <1>2, <1>3, <1>4 DEF Bank, Cost

LEMMA PaymentStarts == Init => PaymentInv
<1>. SUFFICES ASSUME Init, call.fn = "deduct"
              PROVE  call \in PaymentCalls /\ ~result.made
  BY DEF PaymentInv
<1>1. \A c \in MuseumCalls : c.fn # "deduct"
  BY DEF MuseumCalls, RecordCalls, SearchCalls
<1>2. \A c \in CardCalls : c.fn # "deduct"
  BY DEF CardCalls, DealCalls
<1>. QED  BY <1>1, <1>2 DEF Init, NotCalled

LEMMA PaymentGoesOn == PaymentInv /\ [Next]_vars => PaymentInv'
<1>. SUFFICES ASSUME PaymentInv, [Next]_vars, call'.fn = "deduct"
              PROVE  PaymentInv'
  BY DEF PaymentInv
<1>1. CASE UNCHANGED vars
  BY <1>1 DEF PaymentInv, vars
<1>2. CASE Deduct
  BY <1>2 DEF Deduct, Returns, PaymentInv
<1>3. ASSUME Next, ~Deduct
      PROVE  PaymentInv'
  <2>1. UNCHANGED call /\ call.fn # "deduct"
    BY <1>3 DEF Next, ReadRecord, SearchMuseums, LoadSet, DealMatch, ParseScenario, Returns
  <2>. QED  BY <2>1
<1>. QED  BY <1>1, <1>2, <1>3

LEMMA PaidAsPromised == PaymentInv => DeductKeepsItsPromises
<1>. SUFFICES ASSUME PaymentInv, Deducted
              PROVE  DeductKeepsItsPromises
  BY DEF DeductKeepsItsPromises, PaysExactlyTheCost, UnhintedPaysWheneverAffordable,
         GenericLevelsThePools, NamedPoolsAreSpared, HintIsHonouredOrRefused, Succeeded
<1>. DEFINE bank == call.bank
            cost == call.cost
            hint == call.hint
            left == result.left
            rest == AfterTyped(bank, cost)
<1>1. /\ bank \in Bank /\ cost \in Cost /\ hint \in Hint
      /\ result.error = PaymentError(bank, cost, hint)
      /\ Succeeded => left = Paid(bank, cost, hint)
      /\ Succeeded <=> Affords(bank, cost, hint)
  BY PaymentCallTypes DEF PaymentInv, Deducted, Made, Succeeded, Affords
<1>2. /\ rest \in Pools
      /\ \A t \in ManaType : rest[t] = bank[t] - cost.typed[t]
      /\ Total(rest) = Total(bank) - Total(cost.typed)
      /\ Total(bank) \in Nat /\ Total(cost.typed) \in Nat /\ cost.generic \in Nat
      /\ \A t \in ManaType : bank[t] \in Nat /\ cost.typed[t] \in Nat /\ rest[t] \in Int
  BY <1>1, AfterTypedIsPools
<1>3. CASE hint = NoHint
  <2>1. /\ Affords(bank, cost, NoHint) <=>
             /\ \A t \in ManaType : cost.typed[t] <= bank[t]
             /\ Total(cost.typed) + cost.generic <= Total(bank)
        /\ Affords(bank, cost, NoHint) =>
             /\ Levelled(rest, NamedPools(cost), cost.generic, Paid(bank, cost, NoHint))
             /\ \A t \in ManaType : Paid(bank, cost, NoHint)[t] >= 0
    BY <1>1, UnhintedPayment
  <2>2. UnhintedPaysWheneverAffordable
    BY <1>1, <1>3, <2>1 DEF UnhintedPaysWheneverAffordable
  <2>3. HintIsHonouredOrRefused
    <3>1. PaymentError(bank, cost, NoHint) # "InvalidHint"
      BY DEF PaymentError, HintIsInvalid
    <3>. QED  BY <1>1, <1>3, <3>1 DEF HintIsHonouredOrRefused
  <2>4. SUFFICES ASSUME Succeeded
                 PROVE  PaysExactlyTheCost /\ GenericLevelsThePools /\ NamedPoolsAreSpared
    BY <2>2, <2>3 DEF DeductKeepsItsPromises, PaysExactlyTheCost, GenericLevelsThePools,
                      NamedPoolsAreSpared
  <2>5. Levelled(rest, NamedPools(cost), cost.generic, left) /\ \A t \in ManaType : left[t] >= 0
    BY <1>1, <1>3, <2>1, <2>4
  <2>6. Total(left) \in Int /\ \A t \in ManaType : left[t] \in Int
    BY <2>5, TotalOfPools DEF Levelled
  <2>7. \A t \in ManaType : GenericTaken(t) = rest[t] - left[t] /\ Left(t) = left[t]
    BY <1>2 DEF GenericTaken, Left
  <2>. HIDE DEF bank, cost, hint, left, rest
  <2>8. /\ Total(left) = Total(rest) - cost.generic
        /\ \A t \in ManaType : left[t] <= rest[t]
        /\ \A t, u \in ManaType : left[t] < rest[t] => left[u] <= left[t] + 1
        /\ \A t \in NamedPools(cost) \cap ManaType, u \in ManaType \ NamedPools(cost) :
             left[t] < rest[t] => left[u] <= left[t]
    BY <2>5 DEF Levelled
  <2>9. PaysExactlyTheCost
    <3>1. Total(bank) - Total(left) = Total(cost.typed) + cost.generic
      BY <1>2, <2>6, <2>8
    <3>2. \A t \in ManaType : Left(t) >= 0 /\ GenericTaken(t) >= 0
      BY <1>2, <2>5, <2>6, <2>7, <2>8
    <3>. QED  BY <3>1, <3>2 DEF PaysExactlyTheCost, bank, cost, left
  <2>10. GenericLevelsThePools
    BY <1>2, <2>6, <2>7, <2>8 DEF GenericLevelsThePools
  <2>11. NamedPoolsAreSpared
    <3>1. NamedPools(cost) \subseteq ManaType
      BY DEF NamedPools
    <3>2. \A t \in NamedPools(cost), u \in ManaType \ NamedPools(cost) :
            GenericTaken(t) > 0 => Left(u) <= Left(t)
      BY <1>2, <2>6, <2>7, <2>8, <3>1
    <3>. QED  BY <3>2 DEF NamedPoolsAreSpared, cost
  <2>. QED  BY <2>9, <2>10, <2>11
<1>4. CASE hint # NoHint
  <2>1. hint \in ManaType
    BY <1>1, <1>4 DEF Hint
  <2>2. /\ PaymentError(bank, cost, hint) = "None" =>
             /\ Paid(bank, cost, hint) \in Pools
             /\ cost.generic > 0
             /\ Total(Paid(bank, cost, hint)) =
                  Total(bank) - Total(cost.typed) - cost.generic
             /\ \A t \in ManaType :
                  /\ Paid(bank, cost, hint)[t] >= 0
                  /\ Paid(bank, cost, hint)[t] =
                       bank[t] - cost.typed[t] - (IF t = hint THEN cost.generic ELSE 0)
        /\ PaymentError(bank, cost, hint) = "InvalidHint" =>
             cost.generic = 0 \/ bank[hint] = cost.typed[hint]
    BY <1>1, <2>1, HintedPayment
  <2>3. result.error = "InvalidHint" => cost.generic = 0 \/ bank[hint] = cost.typed[hint]
    BY <1>1, <2>2
  <2>4. UnhintedPaysWheneverAffordable /\ GenericLevelsThePools /\ NamedPoolsAreSpared
    BY <1>4 DEF UnhintedPaysWheneverAffordable, GenericLevelsThePools, NamedPoolsAreSpared
  <2>5. ASSUME Succeeded
        PROVE  /\ cost.generic > 0
               /\ Total(left) = Total(bank) - Total(cost.typed) - cost.generic
               /\ \A t \in ManaType :
                    /\ left[t] >= 0
                    /\ left[t] = bank[t] - cost.typed[t] - (IF t = hint THEN cost.generic ELSE 0)
    BY <1>1, <2>2, <2>5 DEF Succeeded
  <2>6. ASSUME Succeeded
        PROVE  /\ Total(bank) - Total(left) = Total(cost.typed) + cost.generic
               /\ \A t \in ManaType : Left(t) >= 0 /\ GenericTaken(t) >= 0
               /\ GenericTaken(hint) = cost.generic
    <3>1. \A t \in ManaType : GenericTaken(t) = bank[t] - cost.typed[t] - left[t]
                              /\ Left(t) = left[t]
      BY DEF GenericTaken, Left
    <3>. HIDE DEF bank, cost, hint, left
    <3>. QED  BY <1>2, <2>1, <2>5, <2>6, <3>1
  <2>7. PaysExactlyTheCost
    BY <2>6 DEF PaysExactlyTheCost
  <2>8. HintIsHonouredOrRefused
    BY <2>3, <2>5, <2>6 DEF HintIsHonouredOrRefused
  <2>. QED  BY <2>4, <2>7, <2>8 DEF DeductKeepsItsPromises
<1>. QED  BY <1>3, <1>4

(***************************************************************************)
(* engine/payment.rs, deduct: whatever the bank, the cost and the hint,    *)
(* a payment takes the printed cost and no more, is refused only when it   *)
(* cannot be met, levels the pools, and spares the ones the cost names.    *)
(***************************************************************************)
THEOREM DeductKeepsItsPromisesAlways == Spec => []DeductKeepsItsPromises
<1>1. Spec => []PaymentInv
  BY PaymentStarts, PaymentGoesOn, PTL DEF Spec
<1>. QED  BY <1>1, PaidAsPromised, PTL

-----------------------------------------------------------------------------
(* The museums' records.                                                   *)

LEMMA VerdictAccepts ==
  ASSUME NEW checks, NEW artwork, Accepted(Verdict(checks, artwork))
  PROVE  /\ \A i \in DOMAIN checks : checks[i] = Passed
         /\ Verdict(checks, artwork).artwork = artwork
BY DEF Verdict, Accepted

\* A verdict that accepts speaks of an artwork that stands up to what the
\* project says of the shown ones: of any of its images, or of none when the
\* Art Institute's answer names no service.
StandsUp(source, record, verdict) ==
  Accepted(verdict) =>
    LET artwork == verdict.artwork IN
    /\ artwork.source = source
    /\ StatesOnlyOpen(record, artwork)
    /\ \A i \in {artwork.thumbnail, artwork.display, artwork.original} :
         CanRequest(artwork, i) <=> ~NamesNoService(source, record)
    /\ \A i \in {artwork.thumbnail, artwork.display} : ServedAs(artwork, i, record) = i.type

LEMMA AicStandsUp ==
  ASSUME NEW record \in AicRecord
  PROVE  StandsUp("aic", record, AicParse(record))
<1>. SUFFICES ASSUME Accepted(AicParse(record))
              PROVE  StandsUp("aic", record, AicParse(record))
  BY DEF StandsUp
<1>. DEFINE image == Image(record.service, "jpeg")
<1>1. /\ record.service # "absent" /\ record.public
      /\ AicParse(record).artwork =
           Artwork("aic", record.id, "PublicDomain", image, image, image)
  BY VerdictAccepts DEF AicParse, Check, Passed
<1>. QED  BY <1>1 DEF StandsUp, Artwork, Image, StatesOnlyOpen, CanRequest, NamesNoService,
                       AicAsks, ServedAs

\* A file of a Cleveland record: absent, or what its entry says.
ClevelandFile ==
  [url : Url, type : {"jpeg", "tiff", "none"}, area : Nat]

LEMMA BestIsUsable ==
  ASSUME NEW record, NEW type,
         {record.web, record.print, record.full} \subseteq ClevelandFile,
         Best(record, type) # NoFile
  PROVE  Usable(Best(record, type)) /\ Best(record, type).type = type
<1>. DEFINE files == <<record.web, record.print, record.full>>
            fit   == {i \in 1 .. 3 : Usable(files[i]) /\ files[i].type = type}
            beats(i, j) == IF files[i].area = files[j].area THEN i >= j
                           ELSE files[i].area > files[j].area
<1>1. fit # {} /\ Best(record, type) = files[CHOOSE i \in fit : \A j \in fit : beats(i, j)]
  BY DEF Best
<1>2. 1 .. 3 = {1, 2, 3} /\ \A i \in 1 .. 3 : files[i].area \in Nat
  BY DEF ClevelandFile
<1>3. fit \subseteq {1, 2, 3} /\ \A i \in {1, 2, 3} : files[i].area \in Nat
  BY <1>2
<1>. HIDE DEF files
<1>4. \E i \in fit : \A j \in fit : beats(i, j)
  <2>. HIDE DEF fit
  <2>1. \A i, j \in {1, 2, 3} : beats(i, j) \/ beats(j, i)
    BY <1>3
  <2>2. \A i, j, k \in {1, 2, 3} : beats(i, j) /\ beats(j, k) => beats(i, k)
    BY <1>3
  <2>. HIDE DEF beats
  <2>. QED  BY <1>1, <1>3, <2>1, <2>2, ZenonT(30)
<1>5. (CHOOSE i \in fit : \A j \in fit : beats(i, j)) \in fit
  <2>. HIDE DEF fit, beats
  <2>. QED  BY <1>4
<1>. QED  BY <1>1, <1>5 DEF files

LEMMA ClevelandStandsUp ==
  ASSUME NEW record,
         {record.web, record.print, record.full} \subseteq ClevelandFile
  PROVE  StandsUp("cleveland", record, ClevelandParse(record))
<1>. SUFFICES ASSUME Accepted(ClevelandParse(record))
              PROVE  StandsUp("cleveland", record, ClevelandParse(record))
  BY DEF StandsUp
<1>. DEFINE jpeg  == Best(record, "jpeg")
            tiff  == Best(record, "tiff")
            small == IF record.web.type = "jpeg" /\ Usable(record.web) THEN record.web ELSE jpeg
            whole == IF tiff = NoFile THEN jpeg ELSE tiff
<1>1. /\ record.license = "CC0" /\ jpeg # NoFile
      /\ ClevelandParse(record).artwork =
           Artwork("cleveland", record.id, "Cc0", Image(small.url, small.type),
                   Image(jpeg.url, jpeg.type), Image(whole.url, whole.type))
  BY VerdictAccepts DEF ClevelandParse, Check, Passed
<1>2. Usable(jpeg) /\ jpeg.type = "jpeg" /\ (tiff # NoFile => Usable(tiff))
  BY <1>1, BestIsUsable
<1>. HIDE DEF jpeg, tiff
<1>3. Usable(small) /\ small.type = "jpeg" /\ Usable(whole)
  BY <1>2
<1>. HIDE DEF small, whole
<1>. QED  BY <1>1, <1>2, <1>3
          DEF StandsUp, Artwork, Image, StatesOnlyOpen, CanRequest, NamesNoService, Usable,
              ServedAs

LEMMA MetStandsUp ==
  ASSUME NEW record
  PROVE  StandsUp("met", record, MetParse(record))
<1>. SUFFICES ASSUME Accepted(MetParse(record))
              PROVE  StandsUp("met", record, MetParse(record))
  BY DEF StandsUp
<1>. DEFINE small == Image(record.small, "jpeg")
<1>1. /\ record.public /\ MetAsks(record.primary) /\ MetAsks(record.small)
      /\ MetParse(record).artwork =
           Artwork("met", record.id, "PublicDomain", small, small, Image(record.primary, "jpeg"))
  BY VerdictAccepts DEF MetParse, Check, Passed
<1>. QED  BY <1>1 DEF StandsUp, Artwork, Image, StatesOnlyOpen, CanRequest, NamesNoService,
                       ServedAs

LEMMA SmithsonianStandsUp ==
  ASSUME NEW record, record.media \in Seq(Medium)
  PROVE  StandsUp("smithsonian", record, SmithsonianParse(record))
<1>. SUFFICES ASSUME Accepted(SmithsonianParse(record))
              PROVE  StandsUp("smithsonian", record, SmithsonianParse(record))
  BY DEF StandsUp
<1>. DEFINE media == record.media
            main  == SelectImage(media)
            open  == {i \in DOMAIN media : IsOpen(media, i)}
            first == CHOOSE i \in open : \A j \in open : i <= j
<1>1. /\ main # NoMedium
      /\ SmithsonianParse(record).artwork =
           Artwork("smithsonian", SmithsonianId(record), "Cc0", Image(main.thumbnail, "jpeg"),
                   Image(main.content, "jpeg"), Image(main.content, "jpeg"))
  BY VerdictAccepts DEF SmithsonianParse, Check, Passed
<1>2. open # {} /\ main = media[first]
  BY <1>1 DEF SelectImage
<1>3. DOMAIN media \subseteq Nat
  OBVIOUS
<1>4. \E i \in open : \A j \in open : i <= j
  <2>1. open \subseteq Nat
    BY <1>3
  <2>. HIDE DEF open
  <2>. QED  BY <1>2, <2>1, LeastNatural
<1>5. first \in open
  <2>. HIDE DEF open
  <2>. QED  BY <1>4
<1>6. first \in DOMAIN media /\ IsOpen(media, first)
  <2>. HIDE DEF first
  <2>. QED  BY <1>5
<1>. HIDE DEF open, first, main
<1>7. SmithsonianAsks(main.content) /\ SmithsonianAsks(main.thumbnail)
  BY <1>2, <1>6 DEF IsOpen
<1>8. StatesOnlyOpen(record, SmithsonianParse(record).artwork)
  BY <1>1, <1>2, <1>6 DEF StatesOnlyOpen, IsOpen, Artwork, Image
<1>. QED  BY <1>1, <1>7, <1>8 DEF StandsUp, Artwork, Image, CanRequest, NamesNoService, ServedAs

LEMMA CommonsStandsUp ==
  ASSUME NEW record
  PROVE  StandsUp("wikimedia", record, CommonsParse(record))
<1>. SUFFICES ASSUME Accepted(CommonsParse(record))
              PROVE  StandsUp("wikimedia", record, CommonsParse(record))
  BY DEF StandsUp
<1>. DEFINE small == Image(record.thumb, record.thumbmime)
            license == LicenseOf(record)
            stated == {record.license_url, record.license_name} \ {NoLicense}
<1>1. /\ license # NoLicense /\ ImagesFit(record)
      /\ CommonsAsks(record.url) /\ CommonsAsks(record.thumb)
      /\ CommonsParse(record).artwork =
           Artwork("wikimedia", record.title, license, small, small,
                   Image(record.url, record.mime))
  BY VerdictAccepts DEF CommonsParse, Check, Passed
<1>2. Cardinality(stated) = 1 /\ license = CHOOSE l \in stated : TRUE
  BY <1>1 DEF LicenseOf
<1>3. PICK l : stated = {l}
  <2>1. IsFiniteSet({record.license_url})
    BY FS_Singleton
  <2>2. IsFiniteSet({record.license_url} \cup {record.license_name})
    BY <2>1, FS_AddElement
  <2>3. {record.license_url, record.license_name} =
          {record.license_url} \cup {record.license_name}
    OBVIOUS
  <2>4. IsFiniteSet({record.license_url, record.license_name})
    BY <2>2, <2>3
  <2>5. IsFiniteSet(stated)
    BY <2>4, FS_RemoveElement
  <2>. HIDE DEF stated
  <2>. QED  BY <1>2, <2>5, FS_Singleton
<1>4. {record.license_url, record.license_name} \subseteq {NoLicense, license}
  BY <1>2, <1>3
<1>. HIDE DEF license
<1>. QED  BY <1>1, <1>4 DEF StandsUp, Artwork, Image, StatesOnlyOpen, CanRequest,
                            NamesNoService, ServedAs, ImagesFit

\* What a museum call is about, and that it is answered or not at all yet.
MuseumRecord(source, record) ==
  /\ source \in SourceKind
  /\ source = "aic" => record \in AicRecord
  /\ source = "cleveland" =>
       {record.web, record.print, record.full} \subseteq ClevelandFile
  /\ source = "smithsonian" => record.media \in Seq(Medium)

MuseumInv ==
  call.fn = "record" =>
    /\ MuseumRecord(call.source, call.record)
    /\ result.made =>
         /\ result.listed = ParseArtwork(call.source, call.record)
         /\ result.opened = LoadArtwork(call.source, call.id, call.record)

LEMMA EveryMuseumStandsUp ==
  ASSUME NEW source, NEW record, MuseumRecord(source, record)
  PROVE  StandsUp(source, record, ParseArtwork(source, record))
<1>1. source \in {"aic", "cleveland", "met", "smithsonian", "wikimedia"}
  BY DEF MuseumRecord, SourceKind, SourceOrder, ToSet
<1>2. CASE source = "aic"
  BY <1>2, AicStandsUp DEF MuseumRecord, ParseArtwork
<1>3. CASE source = "cleveland"
  BY <1>3, ClevelandStandsUp DEF MuseumRecord, ParseArtwork
<1>4. CASE source = "met"
  BY <1>4, MetStandsUp DEF ParseArtwork
<1>5. CASE source = "smithsonian"
  BY <1>5, SmithsonianStandsUp DEF MuseumRecord, ParseArtwork
<1>6. CASE source = "wikimedia"
  BY <1>6, CommonsStandsUp DEF ParseArtwork
<1>. QED  BY <1>1, <1>2, <1>3, <1>4, <1>5, <1>6

LEMMA MuseumStarts == Init => MuseumInv
<1>. SUFFICES ASSUME Init, call.fn = "record"
              PROVE  MuseumRecord(call.source, call.record) /\ ~result.made
  BY DEF MuseumInv
<1>1. call \in MuseumCalls \ SearchCalls
  BY DEF Init, PaymentCalls, CardCalls, DealCalls, SearchCalls
<1>2. {"aic", "cleveland", "met", "smithsonian", "wikimedia"} = SourceKind
  BY DEF SourceKind, SourceOrder, ToSet
<1>3. CASE call \in RecordCalls("aic", AicRecord, Numbers)
  BY <1>2, <1>3 DEF RecordCalls, MuseumRecord, Init, NotCalled
<1>4. CASE call \in RecordCalls("cleveland", ClevelandRecord(ClevelandFiles), {"7", Zero})
  <2>1. ClevelandFiles \subseteq ClevelandFile
    BY DEF ClevelandFiles, ClevelandFile, NoFile, File, Url
  <2>2. call.record \in ClevelandRecord(ClevelandFiles) /\ call.source = "cleveland"
    BY <1>4 DEF RecordCalls
  <2>3. {call.record.web, call.record.print, call.record.full} \subseteq ClevelandFile
    BY <2>1, <2>2 DEF ClevelandRecord
  <2>. QED  BY <1>2, <2>2, <2>3 DEF MuseumRecord, Init, NotCalled
<1>5. CASE call \in RecordCalls("met", MetRecord, Numbers)
  BY <1>2, <1>5 DEF RecordCalls, MuseumRecord, Init, NotCalled
<1>6. CASE call \in RecordCalls("smithsonian", SmithsonianRecord(Media), EdanIds)
  <2>1. call.record \in SmithsonianRecord(Media) /\ call.source = "smithsonian"
    BY <1>6 DEF RecordCalls
  <2>2. call.record.media \in BoundedSeq(Media, 2)
    BY <2>1 DEF SmithsonianRecord
  <2>3. call.record.media \in Seq(Media) /\ Media \subseteq Medium
    <3>1. Media \subseteq Medium
      BY DEF Media
    <3>2. PICK m \in 0 .. 2 : call.record.media \in [1 .. m -> Media]
      BY <2>2 DEF BoundedSeq, SeqOf
    <3>. HIDE DEF Media
    <3>. QED  BY <3>1, <3>2
  <2>4. call.record.media \in Seq(Medium)
    BY <2>3
  <2>. QED  BY <1>2, <2>1, <2>4 DEF MuseumRecord, Init, NotCalled
<1>7. CASE call \in RecordCalls("wikimedia", CommonsRecords, Files)
  BY <1>2, <1>7 DEF RecordCalls, MuseumRecord, Init, NotCalled
<1>. QED  BY <1>1, <1>3, <1>4, <1>5, <1>6, <1>7 DEF MuseumCalls

LEMMA MuseumGoesOn == MuseumInv /\ [Next]_vars => MuseumInv'
<1>. SUFFICES ASSUME MuseumInv, [Next]_vars, call'.fn = "record"
              PROVE  MuseumInv'
  BY DEF MuseumInv
<1>1. CASE UNCHANGED vars
  BY <1>1 DEF MuseumInv, vars
<1>2. CASE ReadRecord
  BY <1>2 DEF ReadRecord, Returns, MuseumInv
<1>3. ASSUME Next, ~ReadRecord
      PROVE  MuseumInv'
  <2>1. UNCHANGED call /\ call.fn # "record"
    BY <1>3 DEF Next, Deduct, SearchMuseums, LoadSet, DealMatch, ParseScenario, Returns
  <2>. QED  BY <2>1
<1>. QED  BY <1>1, <1>2, <1>3

LEMMA ShownStandsUp == MuseumInv => AcceptedWorksStandUp
<1>. SUFFICES ASSUME MuseumInv, Made("record")
              PROVE  AcceptedWorksStandUp
  BY DEF AcceptedWorksStandUp, OnlyOpenWorksAreShown, ShownImagesCanBeAsked,
         OpenedIsWhatWasAsked
<1>. DEFINE parsed == ParseArtwork(call.source, call.record)
<1>1. /\ MuseumRecord(call.source, call.record)
      /\ result.listed = parsed
      /\ result.opened = LoadArtwork(call.source, call.id, call.record)
  BY DEF MuseumInv, Made
<1>2. StandsUp(call.source, call.record, parsed)
  BY <1>1, EveryMuseumStandsUp
<1>3. result.opened \in {parsed, NotOpened}
  BY <1>1 DEF LoadArtwork
<1>4. ~Accepted(NotOpened)
  BY DEF Accepted, NotOpened
<1>5. \A v \in Shown : v = parsed /\ Accepted(v)
  BY <1>1, <1>3, <1>4 DEF Shown
<1>. HIDE DEF parsed
<1>6. OnlyOpenWorksAreShown
  BY <1>2, <1>5 DEF OnlyOpenWorksAreShown, StandsUp
<1>7. ShownImagesCanBeAsked
  BY <1>2, <1>5 DEF ShownImagesCanBeAsked, StandsUp
<1>8. OpenedIsWhatWasAsked
  <2>1. Accepted(result.opened) =>
          /\ CanAsk(call.source, call.id)
          /\ result.opened = parsed
          /\ parsed.artwork.source = call.source
          /\ parsed.artwork.source_id = call.id
    BY <1>1, <1>4 DEF LoadArtwork, parsed
  <2>. QED  BY <2>1 DEF OpenedIsWhatWasAsked, CanAsk
<1>. QED  BY <1>6, <1>7, <1>8 DEF AcceptedWorksStandUp

(***************************************************************************)
(* crates/cceroby/src/providers: whatever a museum answers, what is listed *)
(* or opened is free to use and is what was asked for, and all its images  *)
(* can be fetched as they are shown; only the Art Institute's works whose  *)
(* answer names an image service that is no URL are accepted with images   *)
(* none of which can be fetched (aic.rs:86, 195).                          *)
(***************************************************************************)
THEOREM AcceptedWorksStandUpAlways == Spec => []AcceptedWorksStandUp
<1>1. Spec => []MuseumInv
  BY MuseumStarts, MuseumGoesOn, PTL DEF Spec
<1>. QED  BY <1>1, ShownStandsUp, PTL

-----------------------------------------------------------------------------
(* Documents.                                                              *)

\* What is said first of several faults is nothing only when each is nothing.
LEMMA NothingSaid ==
  ASSUME NEW faults, DOMAIN faults \subseteq Nat, FirstFault(faults) = NoFault
  PROVE  \A i \in DOMAIN faults : faults[i] = NoFault
<1>. DEFINE found == {i \in DOMAIN faults : faults[i] # NoFault}
<1>1. SUFFICES ASSUME found # {}
               PROVE  FALSE
  OBVIOUS
<1>2. FirstFault(faults) = faults[Min(found)]
  BY <1>1 DEF FirstFault
<1>3. \E n \in found : \A m \in found : n <= m
  <2>1. found \subseteq Nat
    OBVIOUS
  <2>. HIDE DEF found
  <2>. QED  BY <1>1, <2>1, LeastNatural
<1>4. Min(found) \in found
  <2>. HIDE DEF found
  <2>. QED  BY <1>3 DEF Min
<1>. QED  BY <1>2, <1>4

\* The causes a fault is given are not the cause of none.
Causes == {"InvalidSemantics", "MissingRequiredField", "ForbiddenField", "InvalidStableKey",
           "DuplicateStableKey", "DuplicateValue", "DuplicateGeneratedId"}

LEMMA NotSaid ==
  ASSUME NEW bad, NEW cause \in Causes, NEW what, When(bad, Fault(cause, what)) = NoFault
  PROVE  ~bad
<1>1. cause # "None"
  BY DEF Causes
<1>2. Fault(cause, what) # NoFault
  BY <1>1 DEF Fault, NoFault
<1>. QED  BY <1>2 DEF When

LEMMA RulesKept ==
  /\ \A bad, rule : Rule(bad, rule) = NoFault => ~bad
  /\ \A field, name : Required(field, name) = NoFault => field # Absent
  /\ \A field, name : Forbidden(field, name) = NoFault => field = Absent
  /\ \A list, name : ForbiddenList(list, name) = NoFault => list = <<>>
  /\ \A key, kind : KeyFault(key, kind) = NoFault => key \in StableKeys
<1>1. "InvalidSemantics" \in Causes /\ "MissingRequiredField" \in Causes
      /\ "ForbiddenField" \in Causes /\ "InvalidStableKey" \in Causes
  BY DEF Causes
<1>2. \A bad, rule : Rule(bad, rule) = NoFault => ~bad
  BY <1>1, NotSaid DEF Rule
<1>3. \A field, name : Required(field, name) = NoFault => field # Absent
  BY <1>1, NotSaid DEF Required
<1>4. \A field, name : Forbidden(field, name) = NoFault => field = Absent
  BY <1>1, NotSaid DEF Forbidden
<1>5. \A list, name : ForbiddenList(list, name) = NoFault => list = <<>>
  BY <1>1, NotSaid DEF ForbiddenList
<1>6. \A key, kind : KeyFault(key, kind) = NoFault => key \in StableKeys
  BY <1>1, NotSaid DEF KeyFault, IsStableKey
<1>. QED  BY <1>2, <1>3, <1>4, <1>5, <1>6

\* No two entries have the same code when none is said to repeat one before it.
LEMMA NoneRepeated ==
  ASSUME NEW W, NEW entries \in Seq(W), NEW kind,
         \A i \in 1 .. Len(entries) : RepeatedKey(entries, i, kind) = NoFault
  PROVE  \A i, j \in 1 .. Len(entries) : entries[i].code = entries[j].code => i = j
<1>1. "DuplicateStableKey" \in Causes
  BY DEF Causes
<1>2. \A i \in 1 .. Len(entries) : ~ \E j \in 1 .. (i - 1) : entries[j].code = entries[i].code
  BY <1>1, NotSaid DEF RepeatedKey
<1>3. ASSUME NEW i \in 1 .. Len(entries), NEW j \in 1 .. Len(entries), j < i
      PROVE  entries[i].code # entries[j].code
  <2>1. j \in 1 .. (i - 1)
    BY <1>3
  <2>. QED  BY <1>2, <2>1
<1>4. \A i, j \in 1 .. Len(entries) : i < j \/ j < i \/ i = j
  OBVIOUS
<1>. QED  BY <1>3, <1>4

\* The value of an optional field that is there.
LEMMA TheValue ==
  ASSUME NEW S, NEW field \in Optional(S), field # Absent
  PROVE  The(field) \in S /\ field = Given(The(field))
<1>1. The(field) \in field
  BY DEF The, Absent
<1>2. field \subseteq S /\ \A v, w \in field : v = w
  BY DEF Optional
<1>. HIDE DEF The
<1>. QED  BY <1>1, <1>2 DEF Given

-----------------------------------------------------------------------------
(* Effects.                                                                *)

\* Where the leaves of an effect are read, what is there to be read.
There ==
  [Attack |-> {"target", "place", "declaration"}, Skill |-> {"target", "place", "checked"},
   Trigger |-> {"place"}, AttackSpell |-> {"target"}, SupportSpell |-> {"target"},
   Enchantment |-> {"target"}]

LEMMA LeafIsALeaf ==
  ASSUME NEW effect \in EffectEntry
  PROVE  Leaf(effect) \in EffectLeaf
<1>1. CASE effect \in [kind : {"Damage"}, target : Target, base : Nat,
                       constraints : Seq({"Unincreasable", "Unpreventable"}),
                       additions : Seq([condition : Condition, amount : Nat])]
  BY <1>1 DEF Leaf, EffectLeaf
<1>2. CASE effect \in [kind : {"Heal"}, target : Target, amount : Nat]
  BY <1>2 DEF Leaf, EffectLeaf, OwnTarget, AimedAt
<1>3. CASE effect \in [kind : {"MoveSummon", "SwapPositions", "ProduceMana",
                               "CannotBeMovedByOpponent", "ReadySummon"}, target : Target]
  BY <1>3 DEF Leaf, EffectLeaf, OwnTarget, AimedAt
<1>4. CASE effect \in [kind : {"BlockResponses"}, condition : Condition]
  BY <1>4 DEF Leaf, EffectLeaf
<1>5. CASE effect \in [kind : {"DrawCards"}, amount : Nat]
  BY <1>5 DEF Leaf, EffectLeaf
<1>6. CASE effect \in [kind : {"ReturnSpellFromDiscard", "LookAtPrizes", "ReturnSpellToDeckTop"}]
  BY <1>6 DEF Leaf, EffectLeaf
<1>. QED  BY <1>1, <1>2, <1>3, <1>4, <1>5, <1>6 DEF EffectEntry

LEMMA LegalLeafFinds ==
  ASSUME NEW effect \in EffectEntry, NEW context,
         <<context, effect.kind, TargetOf(effect)>> \in LegalUses
  PROVE  context \in DOMAIN There /\ Reads(Leaf(effect)) \subseteq There[context]
<1>1. context \in DOMAIN There
  BY DEF LegalUses, There
<1>2. CASE effect \in [kind : {"Damage"}, target : Target, base : Nat,
                       constraints : Seq({"Unincreasable", "Unpreventable"}),
                       additions : Seq([condition : Condition, amount : Nat])]
  BY <1>2 DEF Leaf, Reads, LegalUses, There, TargetOf
<1>3. CASE effect \in [kind : {"Heal"}, target : Target, amount : Nat]
  BY <1>3 DEF Leaf, Reads, LegalUses, There, TargetOf, OwnTarget
<1>4. CASE effect \in [kind : {"MoveSummon", "SwapPositions", "ProduceMana",
                               "CannotBeMovedByOpponent", "ReadySummon"}, target : Target]
  BY <1>4 DEF Leaf, Reads, LegalUses, There, TargetOf, OwnTarget
<1>5. CASE effect \in [kind : {"BlockResponses"}, condition : Condition]
  BY <1>5 DEF Leaf, Reads, LegalUses, There, TargetOf
<1>6. CASE effect \in [kind : {"DrawCards"}, amount : Nat]
  BY <1>6 DEF Leaf, Reads, LegalUses, There, TargetOf
<1>7. CASE effect \in [kind : {"ReturnSpellFromDiscard", "LookAtPrizes", "ReturnSpellToDeckTop"}]
  BY <1>7 DEF Leaf, Reads, LegalUses, There, TargetOf
<1>. QED  BY <1>1, <1>2, <1>3, <1>4, <1>5, <1>6, <1>7 DEF EffectEntry

LEMMA EffectIsLegal ==
  ASSUME NEW effect, NEW context, EffectFault(effect, context) = NoFault
  PROVE  <<context, effect.kind, TargetOf(effect)>> \in LegalUses
<1>. DEFINE is(kinds) == effect.kind \in kinds
            misused ==
              IF is({"Damage", "Heal", "SwapPositions", "ProduceMana"}) THEN "EffectTarget"
              ELSE "EffectCombination"
            faults ==
              <<Rule(AimsAtNoSource(effect, context), "EffectTarget"),
                Rule(is({"Damage"}) /\ effect.base = 0, "AmountMustBePositive"),
                Rule(is({"Heal"}) /\ effect.amount = 0, "AmountMustBePositive"),
                Rule(<<context, effect.kind, TargetOf(effect)>> \notin LegalUses, misused),
                Rule(is({"DrawCards"}) /\ effect.amount = 0, "AmountMustBePositive"),
                When(is({"Damage"}) /\ ~IsInjective(effect.constraints),
                     Fault("DuplicateValue", "constraints")),
                Rule(is({"Damage"}) /\ \E a \in Range(effect.additions) : a.amount = 0,
                     "AmountMustBePositive")>>
<1>1. FirstFault(faults) = NoFault
  BY DEF EffectFault
<1>2. DOMAIN faults \subseteq Nat /\ 4 \in DOMAIN faults
  OBVIOUS
<1>3. faults[4] = Rule(<<context, effect.kind, TargetOf(effect)>> \notin LegalUses, misused)
  OBVIOUS
<1>4. faults[4] = NoFault
  <2>. HIDE DEF faults
  <2>. QED  BY <1>1, <1>2, NothingSaid
<1>. QED  BY <1>3, <1>4, RulesKept

\* What accepted effects become.
LEMMA EffectsArePlayable ==
  ASSUME NEW effects \in Seq(EffectEntry), NEW context, EffectsFault(effects, context) = NoFault
  PROVE  /\ Leaves(effects) \in Seq(EffectLeaf) /\ Leaves(effects) # <<>>
         /\ context \in DOMAIN There
         /\ FindWhatTheyRead(Leaves(effects), There[context])
<1>. DEFINE faults == [i \in DOMAIN effects |-> EffectFault(effects[i], context)]
<1>1. effects # <<>> /\ FirstFault(faults) = NoFault
  BY DEF EffectsFault, Fault, NoFault
<1>2. DOMAIN faults \subseteq Nat /\ DOMAIN faults = DOMAIN effects
      /\ \A i \in DOMAIN effects : faults[i] = EffectFault(effects[i], context)
  OBVIOUS
<1>3. \A i \in DOMAIN effects : EffectFault(effects[i], context) = NoFault
  <2>. HIDE DEF faults
  <2>. QED  BY <1>1, <1>2, NothingSaid
<1>4. \A i \in DOMAIN effects :
        /\ effects[i] \in EffectEntry
        /\ <<context, effects[i].kind, TargetOf(effects[i])>> \in LegalUses
  BY <1>3, EffectIsLegal
<1>5. \A i \in DOMAIN effects :
        /\ Leaf(effects[i]) \in EffectLeaf
        /\ context \in DOMAIN There
        /\ Reads(Leaf(effects[i])) \subseteq There[context]
  BY <1>4, LeafIsALeaf, LegalLeafFinds
<1>6. effects = [i \in 1 .. Len(effects) |-> effects[i]] /\ Len(effects) \in Nat
      /\ DOMAIN effects = 1 .. Len(effects)
  OBVIOUS
<1>7. 1 \in DOMAIN effects
  BY <1>1, <1>6
<1>8. Leaves(effects) \in Seq(EffectLeaf) /\ DOMAIN Leaves(effects) = DOMAIN effects
  BY <1>5, <1>6 DEF Leaves
<1>. QED  BY <1>5, <1>7, <1>8 DEF Leaves, FindWhatTheyRead

-----------------------------------------------------------------------------
(* Abilities.                                                              *)

LEMMA CostIsACost ==
  ASSUME NEW symbols \in Symbols
  PROVE  ConvertedCost(symbols) \in Cost
<1>1. \A s : Count(symbols, s) \in Nat
  <2>. TAKE s
  <2>. DEFINE at == {i \in DOMAIN symbols : symbols[i] = s}
  <2>1. Len(symbols) \in Nat /\ DOMAIN symbols = 1 .. Len(symbols)
    BY DEF Symbols
  <2>2. IsFiniteSet(1 .. Len(symbols)) /\ at \in SUBSET (1 .. Len(symbols))
    BY <2>1, FS_Interval
  <2>3. IsFiniteSet(at)
    BY <2>2, FS_Subset
  <2>. HIDE DEF at
  <2>4. Cardinality(at) \in Nat
    BY <2>3, FS_CardinalityType
  <2>. QED  BY <2>4 DEF Count, at
<1>. QED  BY <1>1 DEF ConvertedCost, Cost, Bank

LEMMA ModifierIsInRange ==
  ASSUME NEW modifier, ModifierFault(modifier) = NoFault
  PROVE  ~(modifier.kind = "OpposingRetreatCost" /\ modifier.amount > LargestDelta)
<1>. DEFINE faults ==
              <<Rule(modifier.amount = 0, "AmountMustBePositive"),
                Rule(modifier.kind = "OpposingRetreatCost" /\ modifier.amount > LargestDelta,
                     "ModifierAmountOutOfRange")>>
<1>1. FirstFault(faults) = NoFault
  BY DEF ModifierFault
<1>2. DOMAIN faults \subseteq Nat /\ 2 \in DOMAIN faults
      /\ faults[2] = Rule(modifier.kind = "OpposingRetreatCost" /\ modifier.amount > LargestDelta,
                          "ModifierAmountOutOfRange")
  OBVIOUS
<1>3. faults[2] = NoFault
  <2>. HIDE DEF faults
  <2>. QED  BY <1>1, <1>2, NothingSaid
<1>. QED  BY <1>2, <1>3, RulesKept

\* An accepted ability has what its role needs and nothing its role forbids.
AbilityStandsUp(ability) ==
  CASE ability.kind \in {"Attack", "Skill"} ->
         /\ ability.modifier = Absent /\ ability.cost # Absent
         /\ EffectsFault(ability.effects, ability.kind) = NoFault
    [] ability.kind = "Passive" ->
         ability.modifier # Absent /\ ModifierFault(The(ability.modifier)) = NoFault
    [] ability.kind = "Trigger" ->
         ability.modifier = Absent /\ EffectsFault(ability.effects, "Trigger") = NoFault

LEMMA AcceptedAbility ==
  ASSUME NEW ability \in AbilityEntry, AbilityFault(ability) = NoFault
  PROVE  AbilityStandsUp(ability)
<1>1. ability.kind \in {"Attack", "Skill", "Passive", "Trigger"}
  BY DEF AbilityEntry
<1>2. CASE ability.kind \in {"Attack", "Skill"}
  <2>. DEFINE effects == EffectsFault(ability.effects, ability.kind)
              faults ==
                <<Forbidden(ability.event, "event"), Forbidden(ability.response, "response"),
                  Forbidden(ability.modifier, "modifier"), Required(ability.cost, "cost"),
                  effects>>
  <2>1. FirstFault(faults) = NoFault
    BY <1>2 DEF AbilityFault
  <2>2. /\ DOMAIN faults = 1 .. 5 /\ faults[3] = Forbidden(ability.modifier, "modifier")
        /\ faults[4] = Required(ability.cost, "cost") /\ faults[5] = effects
    OBVIOUS
  <2>. HIDE DEF faults, effects
  <2>3. faults[3] = NoFault /\ faults[4] = NoFault /\ faults[5] = NoFault
    BY <2>1, <2>2, NothingSaid
  <2>. QED  BY <1>2, <2>2, <2>3, RulesKept DEF AbilityStandsUp, effects
<1>3. CASE ability.kind = "Passive"
  <2>. DEFINE modifier == IF ability.modifier = Absent THEN NoFault
                          ELSE ModifierFault(The(ability.modifier))
              faults ==
                <<Forbidden(ability.cost, "cost"), Forbidden(ability.event, "event"),
                  Forbidden(ability.response, "response"),
                  ForbiddenList(ability.effects, "effects"),
                  Required(ability.modifier, "modifier"), modifier>>
  <2>1. FirstFault(faults) = NoFault
    BY <1>3 DEF AbilityFault
  <2>2. /\ DOMAIN faults = 1 .. 6 /\ faults[5] = Required(ability.modifier, "modifier")
        /\ faults[6] = modifier
    OBVIOUS
  <2>. HIDE DEF faults, modifier
  <2>3. faults[5] = NoFault /\ faults[6] = NoFault
    BY <2>1, <2>2, NothingSaid
  <2>. QED  BY <1>3, <2>2, <2>3, RulesKept DEF AbilityStandsUp, modifier
<1>4. CASE ability.kind = "Trigger"
  <2>. DEFINE effects == EffectsFault(ability.effects, "Trigger")
              faults ==
                <<Forbidden(ability.cost, "cost"), Forbidden(ability.modifier, "modifier"),
                  Required(ability.event, "event"), Required(ability.response, "response"),
                  effects>>
  <2>1. FirstFault(faults) = NoFault
    BY <1>4 DEF AbilityFault
  <2>2. /\ DOMAIN faults = 1 .. 5 /\ faults[2] = Forbidden(ability.modifier, "modifier")
        /\ faults[5] = effects
    OBVIOUS
  <2>. HIDE DEF faults, effects
  <2>3. faults[2] = NoFault /\ faults[5] = NoFault
    BY <2>1, <2>2, NothingSaid
  <2>. QED  BY <1>4, <2>2, <2>3, RulesKept DEF AbilityStandsUp, effects
<1>. QED  BY <1>1, <1>2, <1>3, <1>4

\* Those of one role are those printed with it.
LEMMA RoleIsKept ==
  ASSUME NEW W, NEW abilities \in Seq(W), NEW role
  PROVE  LET kept == OfRole(abilities, role) IN
         /\ kept \in Seq(W)
         /\ \A i \in DOMAIN kept : kept[i].kind = role /\ kept[i] \in Range(abilities)
<1>. DEFINE some == {a \in Range(abilities) : a.kind = role}
            kept == Kept(abilities, some)
<1>1. kept \in Seq(W) /\ Keeps(kept, abilities, some, Len(abilities))
  <2>. HIDE DEF some
  <2>. QED  BY KeptIsPart
<1>2. \A i \in 1 .. Len(kept) : kept[i] \in some
  BY <1>1 DEF Keeps
<1>3. DOMAIN kept = 1 .. Len(kept)
  BY <1>1
<1>4. \A i \in DOMAIN kept : kept[i].kind = role /\ kept[i] \in Range(abilities)
  <2>. HIDE DEF kept
  <2>. QED  BY <1>2, <1>3
<1>. QED  BY <1>1, <1>4 DEF OfRole

\* What is accepted of a card's abilities.
LEMMA AcceptedAbilities ==
  ASSUME NEW abilities \in Seq(AbilityEntry), AbilitiesFault(abilities) = NoFault
  PROVE  /\ \A i \in 1 .. Len(abilities) :
              abilities[i].code \in StableKeys /\ AbilityStandsUp(abilities[i])
         /\ \A i, j \in 1 .. Len(abilities) : abilities[i].code = abilities[j].code => i = j
<1>. DEFINE said(i) == <<KeyFault(abilities[i].code, "Ability"),
                         RepeatedKey(abilities, i, "Ability"), AbilityFault(abilities[i])>>
            faults == [i \in DOMAIN abilities |-> FirstFault(said(i))]
<1>1. FirstFault(faults) = NoFault
  BY DEF AbilitiesFault, Fault, NoFault
<1>2. DOMAIN faults \subseteq Nat /\ DOMAIN faults = 1 .. Len(abilities)
      /\ \A i \in 1 .. Len(abilities) : faults[i] = FirstFault(said(i))
  OBVIOUS
<1>3. \A i \in 1 .. Len(abilities) : FirstFault(said(i)) = NoFault
  <2>. HIDE DEF faults, said
  <2>. QED  BY <1>1, <1>2, NothingSaid
<1>4. ASSUME NEW i \in 1 .. Len(abilities)
      PROVE  /\ KeyFault(abilities[i].code, "Ability") = NoFault
             /\ RepeatedKey(abilities, i, "Ability") = NoFault
             /\ AbilityFault(abilities[i]) = NoFault
  <2>. DEFINE told == said(i)
  <2>1. FirstFault(told) = NoFault
    BY <1>3
  <2>2. /\ DOMAIN told = 1 .. 3 /\ told[1] = KeyFault(abilities[i].code, "Ability")
        /\ told[2] = RepeatedKey(abilities, i, "Ability") /\ told[3] = AbilityFault(abilities[i])
    OBVIOUS
  <2>. HIDE DEF told
  <2>3. told[1] = NoFault /\ told[2] = NoFault /\ told[3] = NoFault
    BY <2>1, <2>2, NothingSaid
  <2>. QED  BY <2>2, <2>3
<1>5. \A i \in 1 .. Len(abilities) : abilities[i] \in AbilityEntry
  OBVIOUS
<1>6. \A i \in 1 .. Len(abilities) : abilities[i].code \in StableKeys
  BY <1>4, RulesKept
<1>7. \A i, j \in 1 .. Len(abilities) : abilities[i].code = abilities[j].code => i = j
  BY <1>4, NoneRepeated
<1>. QED  BY <1>4, <1>5, <1>6, <1>7, AcceptedAbility

-----------------------------------------------------------------------------
(* Cards.                                                                  *)

SummonStandsUp(card) ==
  /\ card.modifiers = <<>> /\ card.form # Absent /\ card.retreat # Absent
  /\ card.life # Absent /\ card.life # Given(0)
  /\ card.types # Absent /\ card.types # Given(<<>>)
  /\ AbilitiesFault(card.abilities) = NoFault
  /\ Len(OfRole(card.abilities, "Attack")) = 1

LEMMA AcceptedTypes ==
  ASSUME NEW types, TypesFault(types) = NoFault
  PROVE  types # Absent /\ types # Given(<<>>)
<1>. DEFINE faults ==
              <<Required(types, "types"), Rule(types = Given(<<>>), "SummonRequiresStatistics"),
                When(\E list \in types : ~IsInjective(list), Fault("DuplicateValue", "types"))>>
<1>1. FirstFault(faults) = NoFault
  BY DEF TypesFault
<1>2. /\ DOMAIN faults = 1 .. 3 /\ faults[1] = Required(types, "types")
      /\ faults[2] = Rule(types = Given(<<>>), "SummonRequiresStatistics")
  OBVIOUS
<1>. HIDE DEF faults
<1>3. faults[1] = NoFault /\ faults[2] = NoFault
  BY <1>1, <1>2, NothingSaid
<1>. QED  BY <1>2, <1>3, RulesKept

LEMMA AcceptedSummon ==
  ASSUME NEW card, SummonFault(card) = NoFault
  PROVE  SummonStandsUp(card)
<1>. DEFINE count == Len(OfRole(card.abilities, "Attack")) # 1
            faults ==
              <<Forbidden(card.timing, "timing"), Forbidden(card.persistence, "persistence"),
                Forbidden(card.cost, "cost"), ForbiddenList(card.effects, "effects"),
                ForbiddenList(card.modifiers, "modifiers"), Required(card.form, "form"),
                Required(card.life, "life"),
                Rule(card.life = Given(0), "SummonRequiresStatistics"), TypesFault(card.types),
                Required(card.retreat, "retreat"), AbilitiesFault(card.abilities),
                Rule(count, "SummonRequiresOneAttack")>>
<1>1. FirstFault(faults) = NoFault
  BY DEF SummonFault
<1>2. /\ DOMAIN faults = 1 .. 12
      /\ faults[5] = ForbiddenList(card.modifiers, "modifiers")
      /\ faults[6] = Required(card.form, "form") /\ faults[7] = Required(card.life, "life")
      /\ faults[8] = Rule(card.life = Given(0), "SummonRequiresStatistics")
      /\ faults[9] = TypesFault(card.types) /\ faults[10] = Required(card.retreat, "retreat")
      /\ faults[11] = AbilitiesFault(card.abilities)
      /\ faults[12] = Rule(count, "SummonRequiresOneAttack")
  <2>. HIDE DEF count
  <2>. QED  OBVIOUS
<1>. HIDE DEF faults, count
<1>3. /\ faults[5] = NoFault /\ faults[6] = NoFault /\ faults[7] = NoFault
      /\ faults[8] = NoFault /\ faults[9] = NoFault /\ faults[10] = NoFault
      /\ faults[11] = NoFault /\ faults[12] = NoFault
  BY <1>1, <1>2, NothingSaid
<1>4. ~count /\ card.life # Given(0)
  BY <1>2, <1>3, RulesKept
<1>5. /\ card.modifiers = <<>> /\ card.form # Absent /\ card.life # Absent
      /\ card.retreat # Absent
  BY <1>2, <1>3, RulesKept
<1>6. AbilitiesFault(card.abilities) = NoFault /\ TypesFault(card.types) = NoFault
  BY <1>2, <1>3
<1>. QED  BY <1>4, <1>5, <1>6, AcceptedTypes DEF SummonStandsUp, count

\* A Spell or Enchantment.
CastStandsUp(card) ==
  /\ card.abilities = <<>> /\ card.timing # Absent /\ card.cost # Absent
  /\ \A i \in DOMAIN card.modifiers : ModifierFault(card.modifiers[i]) = NoFault
  /\ \E context \in {"AttackSpell", "SupportSpell", "Enchantment"} :
       EffectsFault(card.effects, context) = NoFault

LEMMA NoSummonFields ==
  ASSUME NEW card, SummonFieldFault(card) = NoFault
  PROVE  card.abilities = <<>>
<1>. DEFINE faults ==
              <<Forbidden(card.form, "form"), Forbidden(card.life, "life"),
                Forbidden(card.types, "types"), Forbidden(card.retreat, "retreat"),
                ForbiddenList(card.abilities, "abilities")>>
<1>1. FirstFault(faults) = NoFault
  BY DEF SummonFieldFault
<1>2. DOMAIN faults = 1 .. 5 /\ faults[5] = ForbiddenList(card.abilities, "abilities")
  OBVIOUS
<1>. HIDE DEF faults
<1>3. faults[5] = NoFault
  BY <1>1, <1>2, NothingSaid
<1>. QED  BY <1>2, <1>3, RulesKept

LEMMA AcceptedSpell ==
  ASSUME NEW card, SpellFault(card) = NoFault
  PROVE  CastStandsUp(card)
<1>. DEFINE context == IF card.timing = Given("Attack") THEN "AttackSpell" ELSE "SupportSpell"
            effects == EffectsFault(card.effects, context)
            faults ==
              <<SummonFieldFault(card), ForbiddenList(card.modifiers, "modifiers"),
                Required(card.timing, "timing"), Required(card.persistence, "persistence"),
                Rule(card.persistence # Given("Discard"), "SpellShape"),
                Required(card.cost, "cost"), effects>>
<1>1. FirstFault(faults) = NoFault
  BY DEF SpellFault
<1>2. context \in {"AttackSpell", "SupportSpell", "Enchantment"}
  OBVIOUS
<1>3. /\ DOMAIN faults = 1 .. 7 /\ faults[1] = SummonFieldFault(card)
      /\ faults[2] = ForbiddenList(card.modifiers, "modifiers")
      /\ faults[3] = Required(card.timing, "timing")
      /\ faults[6] = Required(card.cost, "cost") /\ faults[7] = effects
  <2>. HIDE DEF effects
  <2>. QED  OBVIOUS
<1>. HIDE DEF faults, effects, context
<1>4. /\ faults[1] = NoFault /\ faults[2] = NoFault /\ faults[3] = NoFault
      /\ faults[6] = NoFault /\ faults[7] = NoFault
  BY <1>1, <1>3, NothingSaid
<1>5. card.modifiers = <<>> /\ card.timing # Absent /\ card.cost # Absent
  BY <1>3, <1>4, RulesKept
<1>6. card.abilities = <<>>
  BY <1>3, <1>4, NoSummonFields
<1>7. EffectsFault(card.effects, context) = NoFault
  BY <1>3, <1>4 DEF effects
<1>. QED  BY <1>2, <1>5, <1>6, <1>7 DEF CastStandsUp

LEMMA AcceptedEnchantment ==
  ASSUME NEW card \in CardEntry, EnchantmentFault(card) = NoFault
  PROVE  CastStandsUp(card)
<1>. DEFINE effects == EffectsFault(card.effects, "Enchantment")
            said == [i \in DOMAIN card.modifiers |-> ModifierFault(card.modifiers[i])]
            modifiers == FirstFault(said)
            shape == Rule(card.timing # Given("Support") \/ card.persistence # Given("Persistent"),
                          "EnchantmentShape")
            faults ==
              <<SummonFieldFault(card), Required(card.timing, "timing"),
                Required(card.persistence, "persistence"), shape, Required(card.cost, "cost"),
                effects, modifiers>>
<1>1. FirstFault(faults) = NoFault
  BY DEF EnchantmentFault
<1>2. /\ DOMAIN faults = 1 .. 7 /\ faults[1] = SummonFieldFault(card)
      /\ faults[2] = Required(card.timing, "timing")
      /\ faults[5] = Required(card.cost, "cost") /\ faults[6] = effects
      /\ faults[7] = modifiers
  <2>. HIDE DEF effects, modifiers, shape
  <2>. QED  OBVIOUS
<1>3. /\ DOMAIN said \subseteq Nat /\ DOMAIN said = DOMAIN card.modifiers
      /\ \A i \in DOMAIN card.modifiers : said[i] = ModifierFault(card.modifiers[i])
  <2>1. card.modifiers \in Seq(ModifierEntry)
    BY DEF CardEntry
  <2>. QED  BY <2>1
<1>. HIDE DEF faults, effects, said, shape
<1>4. /\ faults[1] = NoFault /\ faults[2] = NoFault /\ faults[5] = NoFault
      /\ faults[6] = NoFault /\ faults[7] = NoFault
  BY <1>1, <1>2, NothingSaid
<1>5. card.timing # Absent /\ card.cost # Absent
  BY <1>2, <1>4, RulesKept
<1>6. card.abilities = <<>>
  BY <1>2, <1>4, NoSummonFields
<1>7. EffectsFault(card.effects, "Enchantment") = NoFault
  BY <1>2, <1>4 DEF effects
<1>8. \A i \in DOMAIN card.modifiers : ModifierFault(card.modifiers[i]) = NoFault
  BY <1>2, <1>3, <1>4, NothingSaid
<1>. QED  BY <1>5, <1>6, <1>7, <1>8 DEF CastStandsUp

LEMMA AcceptedCard ==
  ASSUME NEW card \in CardEntry, CardFault(card) = NoFault
  PROVE  /\ card.kind = "Summon" => SummonStandsUp(card)
         /\ card.kind # "Summon" => CastStandsUp(card)
<1>. DEFINE faults == <<NameFault(card.name), FamilyFault(card)>>
<1>1. FirstFault(faults) = NoFault
  BY DEF CardFault
<1>2. DOMAIN faults = 1 .. 2 /\ faults[2] = FamilyFault(card)
  OBVIOUS
<1>. HIDE DEF faults
<1>3. FamilyFault(card) = NoFault
  BY <1>1, <1>2, NothingSaid
<1>4. card.kind \in {"Summon", "Spell", "Enchantment"}
  BY DEF CardEntry
<1>5. CASE card.kind = "Summon"
  BY <1>3, <1>5, AcceptedSummon DEF FamilyFault
<1>6. CASE card.kind = "Spell"
  BY <1>3, <1>6, AcceptedSpell DEF FamilyFault
<1>7. CASE card.kind = "Enchantment"
  BY <1>3, <1>7, AcceptedEnchantment DEF FamilyFault
<1>. QED  BY <1>4, <1>5, <1>6, <1>7

-----------------------------------------------------------------------------
(* Faces.                                                                  *)

LEMMA ReductionIsANumber ==
  ASSUME NEW modifiers \in Seq(ModifierEntry)
  PROVE  AttackReduction(modifiers) \in Nat /\ RetreatDelta(modifiers) \in Int
<1>. DEFINE amounts == [i \in DOMAIN modifiers |->
                          IF modifiers[i].kind = "IncomingAttackDamageReduction"
                          THEN modifiers[i].amount ELSE 0]
<1>1. /\ Len(modifiers) \in Nat /\ DOMAIN modifiers = 1 .. Len(modifiers)
      /\ \A i \in DOMAIN modifiers : modifiers[i].amount \in Nat
  <2>1. /\ Len(modifiers) \in Nat /\ DOMAIN modifiers = 1 .. Len(modifiers)
        /\ \A i \in DOMAIN modifiers : modifiers[i] \in ModifierEntry
    OBVIOUS
  <2>2. \A m \in ModifierEntry : m.amount \in Nat
    BY DEF ModifierEntry
  <2>. QED  BY <2>1, <2>2
<1>2. amounts \in Seq(Nat)
  BY <1>1
<1>3. SumOf(amounts) \in Nat
  <2>. HIDE DEF amounts
  <2>. QED  BY <1>2, SumIsANumber
<1>4. modifiers # <<>> => 1 \in DOMAIN modifiers
  BY <1>1
<1>. QED  BY <1>1, <1>3, <1>4 DEF AttackReduction, RetreatDelta

LEMMA MintedIsText ==
  ASSUME NEW set \in StableKeys, NEW card \in StableKeys, NEW ability \in StableKeys
  PROVE  AbilityId(set, card, "Trigger", ability) \in STRING
<1>. DEFINE name == <<card, "Trigger", ability>>
            minted == [n \in Name |-> MintedFor(set, n)]
<1>1. "Trigger" \in DOMAIN RoleName
  BY DEF RoleName
<1>2. name \in Name
  BY <1>1 DEF Name
<1>3. Range(minted) \subseteq STRING
  BY IdentityAssumption
<1>4. minted[name] \in STRING
  BY <1>2, <1>3 DEF Range
<1>5. MintedFor(set, name) = AbilityId(set, card, "Trigger", ability)
  BY DEF MintedFor
<1>. QED  BY <1>2, <1>4, <1>5

\* The skills of a Summon, as they are converted.
LEMMA SkillsArePlayable ==
  ASSUME NEW entries \in Seq(AbilityEntry),
         \A i \in DOMAIN entries : entries[i].kind = "Skill" /\ AbilityStandsUp(entries[i])
  PROVE  LET skills == [i \in DOMAIN entries |-> [cost |-> ConvertedCost(The(entries[i].cost)),
                                                  leaves |-> Leaves(entries[i].effects)]]
         IN /\ skills \in Seq(Skill)
            /\ \A i \in DOMAIN skills : FindWhatTheyRead(skills[i].leaves, There["Skill"])
<1>. DEFINE made(e) == [cost |-> ConvertedCost(The(e.cost)), leaves |-> Leaves(e.effects)]
            skills == [i \in DOMAIN entries |-> made(entries[i])]
<1>1. ASSUME NEW i \in DOMAIN entries
      PROVE  made(entries[i]) \in Skill /\ FindWhatTheyRead(made(entries[i]).leaves, There["Skill"])
  <2>. DEFINE e == entries[i]
  <2>1. e \in AbilityEntry /\ e.kind = "Skill" /\ AbilityStandsUp(e)
    OBVIOUS
  <2>. HIDE DEF e
  <2>2. e.cost \in Optional(Symbols) /\ e.effects \in Seq(EffectEntry)
    BY <2>1 DEF AbilityEntry
  <2>3. e.cost # Absent /\ EffectsFault(e.effects, "Skill") = NoFault
    BY <2>1 DEF AbilityStandsUp
  <2>4. ConvertedCost(The(e.cost)) \in Cost
    BY <2>2, <2>3, TheValue, CostIsACost
  <2>5. Leaves(e.effects) \in Seq(EffectLeaf) /\ FindWhatTheyRead(Leaves(e.effects), There["Skill"])
    BY <2>2, <2>3, EffectsArePlayable
  <2>6. made(e) \in Skill /\ FindWhatTheyRead(made(e).leaves, There["Skill"])
    BY <2>4, <2>5 DEF Skill
  <2>. QED  BY <2>6 DEF e
<1>2. entries = [i \in 1 .. Len(entries) |-> entries[i]] /\ Len(entries) \in Nat
      /\ DOMAIN entries = 1 .. Len(entries)
  OBVIOUS
<1>3. skills \in Seq(Skill) /\ DOMAIN skills = DOMAIN entries
      /\ \A i \in DOMAIN entries : skills[i] = made(entries[i])
  <2>. HIDE DEF made
  <2>. QED  BY <1>1, <1>2
<1>4. \A i \in DOMAIN skills : FindWhatTheyRead(skills[i].leaves, There["Skill"])
  <2>. HIDE DEF skills, made
  <2>. QED  BY <1>1, <1>3
<1>. QED  BY <1>3, <1>4

\* The triggers of a Summon on one event.
LEMMA TriggersArePlayable ==
  ASSUME NEW set \in StableKeys, NEW card \in StableKeys, NEW entries \in Seq(AbilityEntry),
         \A i \in DOMAIN entries : /\ entries[i].kind = "Trigger" /\ AbilityStandsUp(entries[i])
                                   /\ entries[i].code \in StableKeys
  PROVE  LET trigger(a) == [ id |-> AbilityId(set, card, "Trigger", a.code),
                             respondable |-> a.response = Given("Respondable"),
                             leaves |-> Leaves(a.effects) ]
             triggers == [i \in DOMAIN entries |-> trigger(entries[i])]
         IN /\ triggers \in Seq(Ability)
            /\ \A i \in DOMAIN triggers : FindWhatTheyRead(triggers[i].leaves, There["Trigger"])
<1>. DEFINE made(a) == [ id |-> AbilityId(set, card, "Trigger", a.code),
                         respondable |-> a.response = Given("Respondable"),
                         leaves |-> Leaves(a.effects) ]
            triggers == [i \in DOMAIN entries |-> made(entries[i])]
<1>1. ASSUME NEW i \in DOMAIN entries
      PROVE  /\ made(entries[i]) \in Ability
             /\ FindWhatTheyRead(made(entries[i]).leaves, There["Trigger"])
  <2>. DEFINE e == entries[i]
  <2>1. e \in AbilityEntry /\ e.kind = "Trigger" /\ AbilityStandsUp(e) /\ e.code \in StableKeys
    OBVIOUS
  <2>. HIDE DEF e
  <2>2. e.effects \in Seq(EffectEntry)
    BY <2>1 DEF AbilityEntry
  <2>3. EffectsFault(e.effects, "Trigger") = NoFault
    BY <2>1 DEF AbilityStandsUp
  <2>4. AbilityId(set, card, "Trigger", e.code) \in STRING
    BY <2>1, MintedIsText
  <2>5. Leaves(e.effects) \in Seq(EffectLeaf)
        /\ FindWhatTheyRead(Leaves(e.effects), There["Trigger"])
    BY <2>2, <2>3, EffectsArePlayable
  <2>. DEFINE respondable == e.response = Given("Respondable")
  <2>6. respondable \in BOOLEAN
    OBVIOUS
  <2>7. made(e) \in Ability /\ FindWhatTheyRead(made(e).leaves, There["Trigger"])
    <3>. HIDE DEF respondable
    <3>1. made(e) = [id |-> AbilityId(set, card, "Trigger", e.code), respondable |-> respondable,
                     leaves |-> Leaves(e.effects)]
      BY Zenon DEF respondable
    <3>. HIDE DEF made
    <3>. QED  BY <2>4, <2>5, <2>6, <3>1 DEF Ability
  <2>. QED  BY <2>7 DEF e
<1>2. entries = [i \in 1 .. Len(entries) |-> entries[i]] /\ Len(entries) \in Nat
      /\ DOMAIN entries = 1 .. Len(entries)
  OBVIOUS
<1>. HIDE DEF made
<1>3. triggers \in Seq(Ability) /\ DOMAIN triggers = DOMAIN entries
      /\ \A i \in DOMAIN entries : triggers[i] = made(entries[i])
  BY <1>1, <1>2
<1>4. \A i \in DOMAIN triggers : FindWhatTheyRead(triggers[i].leaves, There["Trigger"])
  <2>. HIDE DEF triggers
  <2>. QED  BY <1>1, <1>3
<1>. QED  BY <1>3, <1>4 DEF made

\* Those of one role are accepted as they are printed.
LEMMA RolesStandUp ==
  ASSUME NEW abilities \in Seq(AbilityEntry), AbilitiesFault(abilities) = NoFault, NEW role
  PROVE  LET kept == OfRole(abilities, role) IN
         /\ kept \in Seq(AbilityEntry)
         /\ \A i \in DOMAIN kept : /\ kept[i].kind = role /\ AbilityStandsUp(kept[i])
                                   /\ kept[i].code \in StableKeys
<1>. DEFINE kept == OfRole(abilities, role)
<1>1. /\ kept \in Seq(AbilityEntry)
      /\ \A i \in DOMAIN kept : kept[i].kind = role /\ kept[i] \in Range(abilities)
  BY RoleIsKept
<1>2. DOMAIN abilities = 1 .. Len(abilities)
  OBVIOUS
<1>3. \A a \in Range(abilities) : AbilityStandsUp(a) /\ a.code \in StableKeys
  BY <1>2, AcceptedAbilities DEF Range
<1>. HIDE DEF kept
<1>. QED  BY <1>1, <1>3 DEF kept

Fields ==
  {"kind", "form", "life", "produces", "retreat", "retreatDelta", "attackReduction", "attacks",
   "attackCost", "attackLeaves", "skills", "triggers", "timing", "cost", "leaves", "persistent"}

LEMMA FaceByFields ==
  ASSUME NEW face, face = [f \in DOMAIN face |-> face[f]], DOMAIN face = Fields,
         face.kind \in {"Summon", "Spell", "Enchantment"}, face.form \in 1 .. 3,
         face.life \in Nat \cup {NoLife}, face.produces \in SUBSET ManaType,
         face.retreat \in Nat \cup {NoRetreat}, face.retreatDelta \in Int,
         face.attackReduction \in Nat, face.attacks \in BOOLEAN, face.attackCost \in Cost,
         face.attackLeaves \in Seq(EffectLeaf), face.skills \in Seq(Skill),
         face.triggers \in [TriggerEvent -> Seq(Ability)], face.timing \in {"Support", "Attack"},
         face.cost \in Cost, face.leaves \in Seq(EffectLeaf), face.persistent \in BOOLEAN
  PROVE  face \in CardFace
BY SMTT(30) DEF CardFace, Fields

LEMMA PlainFields ==
  /\ \A kind : DOMAIN PlainCard(kind) = Fields
  /\ Free \in Cost /\ <<>> \in Seq(EffectLeaf) /\ <<>> \in Seq(Skill)
  /\ \A there : FindWhatTheyRead(<<>>, there)
BY DEF PlainCard, Fields, Free, Cost, Bank, EmptyBank, FindWhatTheyRead

BuiltFace(form, life, produces, retreat, cost, leaves, skills, triggers, delta, reduction) ==
  [ PlainCard("Summon") EXCEPT
      !.form = form, !.life = life, !.produces = produces, !.retreat = retreat,
      !.attacks = TRUE, !.attackCost = cost, !.attackLeaves = leaves, !.skills = skills,
      !.triggers = triggers, !.retreatDelta = delta, !.attackReduction = reduction ]

StatsAreWhole(form, life, produces, retreat, delta, reduction) ==
  /\ form \in 1 .. 3 /\ life \in Nat \ {0} /\ produces \in SUBSET ManaType /\ produces # {}
  /\ retreat \in Nat /\ delta \in Int /\ reduction \in Nat
AbilitiesAreWhole(cost, leaves, skills, triggers) ==
  /\ cost \in Cost /\ leaves \in Seq(EffectLeaf) /\ leaves # <<>>
  /\ FindWhatTheyRead(leaves, There["Attack"])
  /\ skills \in Seq(Skill)
  /\ \A i \in DOMAIN skills : FindWhatTheyRead(skills[i].leaves, There["Skill"])
  /\ triggers \in [TriggerEvent -> Seq(Ability)]
  /\ \A e \in TriggerEvent : \A i \in DOMAIN triggers[e] :
       FindWhatTheyRead(triggers[e][i].leaves, There["Trigger"])

LEMMA BuiltIsAFace ==
  ASSUME NEW form, NEW life, NEW produces, NEW retreat, NEW delta, NEW reduction,
         NEW cost, NEW leaves, NEW skills, NEW triggers,
         StatsAreWhole(form, life, produces, retreat, delta, reduction),
         AbilitiesAreWhole(cost, leaves, skills, triggers)
  PROVE  CanBePlayed(BuiltFace(form, life, produces, retreat, cost, leaves, skills, triggers,
                               delta, reduction))
<1>. DEFINE face == BuiltFace(form, life, produces, retreat, cost, leaves, skills, triggers,
                              delta, reduction)
<1>1. face = [f \in DOMAIN face |-> face[f]]
  BY Zenon DEF BuiltFace
<1>2. DOMAIN face = Fields
  BY PlainFields DEF BuiltFace
<1>3. /\ face.kind = "Summon" /\ face.form = form /\ face.life = life
      /\ face.produces = produces /\ face.retreat = retreat /\ face.retreatDelta = delta
      /\ face.attackReduction = reduction /\ face.attacks = TRUE /\ face.attackCost = cost
      /\ face.attackLeaves = leaves /\ face.skills = skills /\ face.triggers = triggers
      /\ face.timing = "Support" /\ face.cost = Free /\ face.leaves = <<>>
      /\ face.persistent = FALSE
  BY SMTT(30) DEF PlainCard, BuiltFace
<1>. HIDE DEF face
<1>4. /\ form \in 1 .. 3 /\ life \in Nat \ {0} /\ produces \in SUBSET ManaType
      /\ produces # {} /\ retreat \in Nat /\ delta \in Int /\ reduction \in Nat
  BY DEF StatsAreWhole
<1>5. /\ cost \in Cost /\ leaves \in Seq(EffectLeaf) /\ leaves # <<>>
      /\ FindWhatTheyRead(leaves, There["Attack"])
      /\ skills \in Seq(Skill)
      /\ \A i \in DOMAIN skills : FindWhatTheyRead(skills[i].leaves, There["Skill"])
      /\ triggers \in [TriggerEvent -> Seq(Ability)]
      /\ \A e \in TriggerEvent : \A i \in DOMAIN triggers[e] :
           FindWhatTheyRead(triggers[e][i].leaves, There["Trigger"])
  BY DEF AbilitiesAreWhole
<1>6. face \in CardFace
  BY <1>1, <1>2, <1>3, <1>4, <1>5, PlainFields, FaceByFields
<1>7. /\ There["Attack"] = {"target", "place", "declaration"}
      /\ There["Skill"] = {"target", "place", "checked"} /\ There["Trigger"] = {"place"}
  BY DEF There
<1>8. life > 0
  BY <1>4
<1>9. CanBePlayed(face)
  BY <1>3, <1>4, <1>5, <1>6, <1>7, <1>8, PlainFields DEF CanBePlayed
<1>. QED  BY <1>9 DEF face

LEMMA CastIsAFace ==
  ASSUME NEW kind \in {"Spell", "Enchantment"}, NEW timing \in {"Support", "Attack"},
         NEW cost \in Cost, NEW leaves \in Seq(EffectLeaf), leaves # <<>>,
         FindWhatTheyRead(leaves, {"target"}), NEW reduction \in Nat, NEW persistent \in BOOLEAN
  PROVE  CanBePlayed([ PlainCard(kind) EXCEPT
           !.timing = timing, !.cost = cost, !.leaves = leaves, !.persistent = persistent,
           !.attackReduction = reduction ])
<1>. DEFINE face ==
              [ PlainCard(kind) EXCEPT
                  !.timing = timing, !.cost = cost, !.leaves = leaves,
                  !.persistent = persistent, !.attackReduction = reduction ]
            none == [e \in TriggerEvent |-> <<>>]
<1>1. face = [f \in DOMAIN face |-> face[f]]
  BY Zenon
<1>2. DOMAIN face = Fields
  BY PlainFields
<1>3. /\ face.kind = kind /\ face.form = 1 /\ face.life = NoLife
      /\ face.produces = {} /\ face.retreat = NoRetreat /\ face.retreatDelta = 0
      /\ face.attackReduction = reduction /\ face.attacks = FALSE /\ face.attackCost = Free
      /\ face.attackLeaves = <<>> /\ face.skills = <<>> /\ face.triggers = none
      /\ face.timing = timing /\ face.cost = cost /\ face.leaves = leaves
      /\ face.persistent = persistent
  BY SMTT(30) DEF PlainCard
<1>4. none \in [TriggerEvent -> Seq(Ability)] /\ \A e \in TriggerEvent : none[e] = <<>>
  OBVIOUS
<1>. HIDE DEF face, none
<1>5. face \in CardFace
  <2>1. 1 \in 1 .. 3 /\ 0 \in Int /\ FALSE \in BOOLEAN /\ {} \in SUBSET ManaType
    OBVIOUS
  <2>. QED  BY <1>1, <1>2, <1>3, <1>4, <2>1, PlainFields, FaceByFields
<1>6. CanBePlayed(face)
  BY <1>3, <1>4, <1>5, PlainFields DEF CanBePlayed
<1>. QED  BY <1>6 DEF face

LEMMA PassiveModifiers ==
  ASSUME NEW passives \in Seq(AbilityEntry),
         \A i \in DOMAIN passives : passives[i].kind = "Passive" /\ AbilityStandsUp(passives[i])
  PROVE  [i \in DOMAIN passives |-> The(passives[i].modifier)] \in Seq(ModifierEntry)
<1>1. \A i \in DOMAIN passives :
        passives[i].modifier \in Optional(ModifierEntry) /\ passives[i].modifier # Absent
  <2>1. \A a \in AbilityEntry : a.modifier \in Optional(ModifierEntry)
    BY DEF AbilityEntry
  <2>2. \A i \in DOMAIN passives : passives[i] \in AbilityEntry
    OBVIOUS
  <2>. QED  BY <2>1, <2>2 DEF AbilityStandsUp
<1>2. \A i \in DOMAIN passives : The(passives[i].modifier) \in ModifierEntry
  BY <1>1, TheValue
<1>3. Len(passives) \in Nat /\ DOMAIN passives = 1 .. Len(passives)
  OBVIOUS
<1>. QED  BY <1>2, <1>3

LEMMA SummonCanBePlayed ==
  ASSUME NEW set \in StableKeys, NEW card \in CardEntry, card.code \in StableKeys,
         card.kind = "Summon", SummonStandsUp(card)
  PROVE  CanBePlayed(SummonFace(set, card))
<1>. DEFINE abilities == card.abilities
            attack == OfRole(abilities, "Attack")[1]
            skills == OfRole(abilities, "Skill")
            passives == OfRole(abilities, "Passive")
            modifiers == [i \in DOMAIN passives |-> The(passives[i].modifier)]
            triggers == OfRole(abilities, "Trigger")
            on(e) == Kept(triggers, {a \in Range(triggers) : a.event = Given(e)})
            trigger(a) == [ id |-> AbilityId(set, card.code, "Trigger", a.code),
                            respondable |-> a.response = Given("Respondable"),
                            leaves |-> Leaves(a.effects) ]
            form == FormRank[The(card.form)]
            life == The(card.life)
            produces == Range(The(card.types))
            retreat == The(card.retreat)
            cost == ConvertedCost(The(attack.cost))
            leaves == Leaves(attack.effects)
            facedSkills == [i \in DOMAIN skills |->
                              [cost |-> ConvertedCost(The(skills[i].cost)),
                               leaves |-> Leaves(skills[i].effects)]]
            facedTriggers == [e \in TriggerEvent |-> [i \in DOMAIN on(e) |-> trigger(on(e)[i])]]
            delta == RetreatDelta(modifiers)
            reduction == AttackReduction(modifiers)
<1>1. /\ card.form \in Optional({"Base", "Enhanced", "Elite"}) /\ card.life \in Optional(Nat)
      /\ card.types \in Optional(Seq(ManaType)) /\ card.retreat \in Optional(Nat)
      /\ abilities \in Seq(AbilityEntry)
  BY DEF CardEntry
<1>2. /\ card.form # Absent /\ card.retreat # Absent /\ card.life # Absent
      /\ card.life # Given(0) /\ card.types # Absent /\ card.types # Given(<<>>)
      /\ AbilitiesFault(abilities) = NoFault /\ Len(OfRole(abilities, "Attack")) = 1
  BY DEF SummonStandsUp
<1>. HIDE DEF abilities
<1>3. form \in 1 .. 3
  <2>1. The(card.form) \in {"Base", "Enhanced", "Elite"}
    BY <1>1, <1>2, TheValue
  <2>. QED  BY <2>1 DEF FormRank
<1>4. life \in Nat \ {0} /\ retreat \in Nat
  BY <1>1, <1>2, TheValue
<1>5. produces \in SUBSET ManaType /\ produces # {}
  <2>1. The(card.types) \in Seq(ManaType) /\ The(card.types) # <<>>
    BY <1>1, <1>2, TheValue
  <2>. DEFINE types == The(card.types)
  <2>2. 1 \in DOMAIN types /\ \A i \in DOMAIN types : types[i] \in ManaType
    BY <2>1
  <2>. QED  BY <2>2 DEF Range
<1>6. /\ attack \in AbilityEntry /\ attack.kind = "Attack" /\ AbilityStandsUp(attack)
  <2>. DEFINE attacks == OfRole(abilities, "Attack")
  <2>1. /\ attacks \in Seq(AbilityEntry)
        /\ \A i \in DOMAIN attacks : attacks[i].kind = "Attack" /\ AbilityStandsUp(attacks[i])
    BY <1>1, <1>2, RolesStandUp
  <2>2. 1 \in DOMAIN attacks
    BY <1>2, <2>1
  <2>. QED  BY <2>1, <2>2
<1>7. /\ cost \in Cost /\ leaves \in Seq(EffectLeaf) /\ leaves # <<>>
      /\ FindWhatTheyRead(leaves, There["Attack"])
  <2>. HIDE DEF attack
  <2>1. attack.cost \in Optional(Symbols) /\ attack.effects \in Seq(EffectEntry)
    BY <1>6 DEF AbilityEntry
  <2>2. attack.cost # Absent /\ EffectsFault(attack.effects, "Attack") = NoFault
    BY <1>6 DEF AbilityStandsUp
  <2>3. The(attack.cost) \in Symbols
    BY <2>1, <2>2, TheValue
  <2>. QED  BY <2>1, <2>2, <2>3, CostIsACost, EffectsArePlayable
<1>8. /\ facedSkills \in Seq(Skill)
      /\ \A i \in DOMAIN facedSkills : FindWhatTheyRead(facedSkills[i].leaves, There["Skill"])
  <2>1. /\ skills \in Seq(AbilityEntry)
        /\ \A i \in DOMAIN skills : skills[i].kind = "Skill" /\ AbilityStandsUp(skills[i])
    BY <1>1, <1>2, RolesStandUp
  <2>. HIDE DEF skills
  <2>. QED  BY <2>1, SkillsArePlayable
<1>9. /\ facedTriggers \in [TriggerEvent -> Seq(Ability)]
      /\ \A e \in TriggerEvent : \A i \in DOMAIN facedTriggers[e] :
           FindWhatTheyRead(facedTriggers[e][i].leaves, There["Trigger"])
  <2>1. /\ triggers \in Seq(AbilityEntry)
        /\ \A i \in DOMAIN triggers : /\ triggers[i].kind = "Trigger"
                                      /\ AbilityStandsUp(triggers[i])
                                      /\ triggers[i].code \in StableKeys
    BY <1>1, <1>2, RolesStandUp
  <2>. HIDE DEF triggers
  <2>2. ASSUME NEW e
        PROVE  /\ [i \in DOMAIN on(e) |-> trigger(on(e)[i])] \in Seq(Ability)
               /\ \A i \in DOMAIN on(e) :
                    FindWhatTheyRead(trigger(on(e)[i]).leaves, There["Trigger"])
    <3>. DEFINE some == {a \in Range(triggers) : a.event = Given(e)}
                entries == Kept(triggers, some)
    <3>1. entries \in Seq(AbilityEntry) /\ Keeps(entries, triggers, some, Len(triggers))
      <4>. HIDE DEF some
      <4>. QED  BY <2>1, KeptIsPart
    <3>2. \A i \in DOMAIN entries : \E j \in DOMAIN triggers : entries[i] = triggers[j]
      <4>1. DOMAIN entries = 1 .. Len(entries) /\ DOMAIN triggers = 1 .. Len(triggers)
        BY <2>1, <3>1
      <4>. HIDE DEF entries, some
      <4>. QED  BY <3>1, <4>1 DEF Keeps
    <3>. HIDE DEF entries
    <3>3. \A i \in DOMAIN entries : /\ entries[i].kind = "Trigger" /\ AbilityStandsUp(entries[i])
                                    /\ entries[i].code \in StableKeys
      BY <2>1, <3>2
    <3>4. /\ [i \in DOMAIN entries |-> trigger(entries[i])] \in Seq(Ability)
          /\ \A i \in DOMAIN entries : FindWhatTheyRead(trigger(entries[i]).leaves, There["Trigger"])
      BY <3>1, <3>3, TriggersArePlayable
    <3>. QED  BY <3>4 DEF entries
  <2>. HIDE DEF on, trigger
  <2>. QED  BY <2>2
<1>10. delta \in Int /\ reduction \in Nat
  <2>1. /\ passives \in Seq(AbilityEntry)
        /\ \A i \in DOMAIN passives : passives[i].kind = "Passive" /\ AbilityStandsUp(passives[i])
    BY <1>1, <1>2, RolesStandUp
  <2>. HIDE DEF passives
  <2>2. modifiers \in Seq(ModifierEntry)
    BY <2>1, PassiveModifiers
  <2>. HIDE DEF modifiers
  <2>. QED  BY <2>2, ReductionIsANumber
<1>11. SummonFace(set, card) =
         BuiltFace(form, life, produces, retreat, cost, leaves, facedSkills, facedTriggers,
                   delta, reduction)
  BY Zenon DEF SummonFace, BuiltFace, abilities
<1>. HIDE DEF form, life, produces, retreat, cost, leaves, facedSkills, facedTriggers, delta,
              reduction
<1>12. StatsAreWhole(form, life, produces, retreat, delta, reduction)
  BY <1>3, <1>4, <1>5, <1>10 DEF StatsAreWhole
<1>13. AbilitiesAreWhole(cost, leaves, facedSkills, facedTriggers)
  BY <1>7, <1>8, <1>9 DEF AbilitiesAreWhole
<1>. QED  BY <1>11, <1>12, <1>13, BuiltIsAFace

LEMMA CastCanBePlayed ==
  ASSUME NEW card \in CardEntry, card.kind \in {"Spell", "Enchantment"}, CastStandsUp(card)
  PROVE  CanBePlayed(CastFace(card))
<1>1. /\ card.timing \in Optional({"Support", "Attack"}) /\ card.cost \in Optional(Symbols)
      /\ card.effects \in Seq(EffectEntry) /\ card.modifiers \in Seq(ModifierEntry)
  BY DEF CardEntry
<1>2. /\ card.timing # Absent /\ card.cost # Absent
  BY DEF CastStandsUp
<1>3. PICK context \in {"AttackSpell", "SupportSpell", "Enchantment"} :
        EffectsFault(card.effects, context) = NoFault
  BY DEF CastStandsUp
<1>4. There[context] = {"target"}
  BY DEF There
<1>5. /\ Leaves(card.effects) \in Seq(EffectLeaf) /\ Leaves(card.effects) # <<>>
      /\ FindWhatTheyRead(Leaves(card.effects), {"target"})
  BY <1>1, <1>3, <1>4, EffectsArePlayable
<1>6. The(card.timing) \in {"Support", "Attack"} /\ The(card.cost) \in Symbols
  BY <1>1, <1>2, TheValue
<1>7. ConvertedCost(The(card.cost)) \in Cost
  BY <1>6, CostIsACost
<1>8. AttackReduction(card.modifiers) \in Nat
  BY <1>1, ReductionIsANumber
<1>. DEFINE persistent == card.kind = "Enchantment"
<1>9. persistent \in BOOLEAN
  OBVIOUS
<1>. QED  BY <1>5, <1>6, <1>7, <1>8, <1>9, CastIsAFace DEF CastFace

-----------------------------------------------------------------------------
(* Sets.                                                                   *)

LEMMA AcceptedSet ==
  ASSUME NEW document, DocumentFault(document) = NoFault
  PROVE  /\ document \in SetEntry /\ document.id \in StableKeys
         /\ \A i \in 1 .. Len(document.cards) :
              /\ document.cards[i] \in CardEntry /\ document.cards[i].code \in StableKeys
              /\ CardFault(document.cards[i]) = NoFault
         /\ \A i, j \in 1 .. Len(document.cards) :
              document.cards[i].code = document.cards[j].code => i = j
<1>. DEFINE cards == document.cards
            said(i) == <<KeyFault(cards[i].code, "Card"), RepeatedKey(cards, i, "Card"),
                         CardFault(cards[i])>>
            each == [i \in DOMAIN cards |-> FirstFault(said(i))]
            faults ==
              <<KeyFault(document.id, "Set"),
                Rule(document.revision = 0, "RevisionMustBePositive"), NameFault(document.name),
                Rule(cards = <<>>, "SetMustContainCards"), FirstFault(each)>>
<1>1. document \in SetEntry /\ SetFault(document) = NoFault
  BY DEF DocumentFault, Fault, NoFault
<1>2. FirstFault(faults) = NoFault
  BY <1>1 DEF SetFault
<1>3. /\ DOMAIN faults = 1 .. 5 /\ faults[1] = KeyFault(document.id, "Set")
      /\ faults[5] = FirstFault(each)
  <2>. HIDE DEF each
  <2>. QED  OBVIOUS
<1>4. KeyFault(document.id, "Set") = NoFault /\ FirstFault(each) = NoFault
  <2>. HIDE DEF faults, each
  <2>1. faults[1] = NoFault /\ faults[5] = NoFault
    BY <1>2, <1>3, NothingSaid
  <2>. QED  BY <1>3, <2>1
<1>5. cards \in Seq(CardEntry)
  BY <1>1 DEF SetEntry
<1>6. DOMAIN each \subseteq Nat /\ DOMAIN each = 1 .. Len(cards)
      /\ \A i \in 1 .. Len(cards) : each[i] = FirstFault(said(i))
  <2>. HIDE DEF said
  <2>. QED  BY <1>5
<1>. HIDE DEF each, cards
<1>7. \A i \in 1 .. Len(cards) : FirstFault(said(i)) = NoFault
  <2>. HIDE DEF said
  <2>. QED  BY <1>4, <1>6, NothingSaid
<1>8. ASSUME NEW i \in 1 .. Len(cards)
      PROVE  /\ KeyFault(cards[i].code, "Card") = NoFault
             /\ RepeatedKey(cards, i, "Card") = NoFault /\ CardFault(cards[i]) = NoFault
  <2>. DEFINE told == said(i)
  <2>1. FirstFault(told) = NoFault
    BY <1>7
  <2>2. /\ DOMAIN told = 1 .. 3 /\ told[1] = KeyFault(cards[i].code, "Card")
        /\ told[2] = RepeatedKey(cards, i, "Card") /\ told[3] = CardFault(cards[i])
    OBVIOUS
  <2>. HIDE DEF told
  <2>3. told[1] = NoFault /\ told[2] = NoFault /\ told[3] = NoFault
    BY <2>1, <2>2, NothingSaid
  <2>. QED  BY <2>2, <2>3
<1>9. document.id \in StableKeys /\ \A i \in 1 .. Len(cards) : cards[i].code \in StableKeys
  BY <1>4, <1>8, RulesKept
<1>10. \A i, j \in 1 .. Len(cards) : cards[i].code = cards[j].code => i = j
  BY <1>5, <1>8, NoneRepeated
<1>11. \A i \in 1 .. Len(cards) : cards[i] \in CardEntry
  BY <1>5
<1>. QED  BY <1>1, <1>8, <1>9, <1>10, <1>11 DEF cards

\* No two places of an accepted document have the same name.
LEMMA NamesAreDistinct ==
  ASSUME NEW document, DocumentFault(document) = NoFault
  PROVE  \A p \in Places(document) :
           /\ NameAt(document, p) \in Name
           /\ \A q \in Places(document) : NameAt(document, p) = NameAt(document, q) => p = q
<1>. DEFINE cards == document.cards
            n == Len(cards)
            abilities(i) == cards[i].abilities
<1>1. /\ document \in SetEntry
      /\ \A i \in 1 .. n : /\ cards[i] \in CardEntry /\ cards[i].code \in StableKeys
                           /\ CardFault(cards[i]) = NoFault
      /\ \A i, j \in 1 .. n : cards[i].code = cards[j].code => i = j
  BY AcceptedSet
<1>2. DOMAIN cards = 1 .. n
  BY <1>1 DEF SetEntry
<1>3. ASSUME NEW i \in 1 .. n
      PROVE  /\ DOMAIN abilities(i) = 1 .. Len(abilities(i))
             /\ \A j \in 1 .. Len(abilities(i)) :
                  /\ abilities(i)[j].code \in StableKeys
                  /\ abilities(i)[j].kind \in DOMAIN RoleName
             /\ \A j, k \in 1 .. Len(abilities(i)) :
                  abilities(i)[j].code = abilities(i)[k].code => j = k
  <2>. DEFINE card == cards[i]
  <2>1. card \in CardEntry /\ CardFault(card) = NoFault
    BY <1>1
  <2>. HIDE DEF card
  <2>2. card.abilities \in Seq(AbilityEntry)
    BY <2>1 DEF CardEntry
  <2>3. \A j \in 1 .. Len(card.abilities) : card.abilities[j].kind \in DOMAIN RoleName
    <3>1. \A a \in AbilityEntry : a.kind \in DOMAIN RoleName
      BY DEF AbilityEntry, RoleName
    <3>. QED  BY <2>2, <3>1
  <2>4. card.abilities = <<>> \/ AbilitiesFault(card.abilities) = NoFault
    BY <2>1, AcceptedCard DEF SummonStandsUp, CastStandsUp
  <2>5. /\ \A j \in 1 .. Len(card.abilities) : card.abilities[j].code \in StableKeys
        /\ \A j, k \in 1 .. Len(card.abilities) :
             card.abilities[j].code = card.abilities[k].code => j = k
    <3>1. CASE card.abilities = <<>>
      BY <3>1
    <3>2. CASE AbilitiesFault(card.abilities) = NoFault
      BY <2>2, <3>2, AcceptedAbilities
    <3>. QED  BY <2>4, <3>1, <3>2
  <2>6. DOMAIN card.abilities = 1 .. Len(card.abilities)
    BY <2>2
  <2>. QED  BY <2>3, <2>5, <2>6 DEF card
<1>. DEFINE IsCard(p) == \E i \in 1 .. n : p = <<i>>
            IsAbility(p) == \E i \in 1 .. n : \E j \in 1 .. Len(abilities(i)) : p = <<i, j>>
<1>4. ASSUME NEW p \in Places(document)
      PROVE  p = <<>> \/ IsCard(p) \/ IsAbility(p)
  <2>1. CASE p = <<>>
    BY <2>1
  <2>2. CASE p \in {<<i>> : i \in DOMAIN cards}
    BY <1>2, <2>2
  <2>3. CASE \E i \in DOMAIN cards : p \in {<<i, j>> : j \in DOMAIN abilities(i)}
    <3>. HIDE DEF n, cards
    <3>. QED  BY <1>2, <1>3, <2>3
  <2>. QED  BY <2>1, <2>2, <2>3 DEF Places
<1>5. NameAt(document, <<>>) = <<>>
  BY DEF NameAt
<1>6. ASSUME NEW i
      PROVE  NameAt(document, <<i>>) = <<cards[i].code>>
  BY DEF NameAt
<1>7. ASSUME NEW i, NEW j
      PROVE  NameAt(document, <<i, j>>) = <<cards[i].code, abilities(i)[j].kind, abilities(i)[j].code>>
  BY DEF NameAt
<1>. HIDE DEF n, abilities, cards
<1>8. ASSUME NEW p \in Places(document)
      PROVE  NameAt(document, p) \in Name
  BY <1>1, <1>3, <1>4, <1>5, <1>6, <1>7 DEF Name
<1>9. ASSUME NEW p \in Places(document), NEW q \in Places(document),
             NameAt(document, p) = NameAt(document, q)
      PROVE  p = q
  <2>1. CASE p = <<>>
    BY <1>4, <1>5, <1>6, <1>7, <1>9, <2>1
  <2>2. CASE IsCard(p)
    BY <1>1, <1>4, <1>5, <1>6, <1>7, <1>9, <2>2
  <2>3. CASE IsAbility(p)
    <3>1. PICK i \in 1 .. n : \E j \in 1 .. Len(abilities(i)) : p = <<i, j>>
      BY <2>3
    <3>2. PICK j \in 1 .. Len(abilities(i)) : p = <<i, j>>
      BY <3>1
    <3>3. IsAbility(q)
      BY <1>4, <1>5, <1>6, <1>7, <1>9, <3>2
    <3>4. PICK k \in 1 .. n : \E l \in 1 .. Len(abilities(k)) : q = <<k, l>>
      BY <3>3
    <3>5. PICK l \in 1 .. Len(abilities(k)) : q = <<k, l>>
      BY <3>4
    <3>6. cards[i].code = cards[k].code /\ abilities(i)[j].code = abilities(k)[l].code
      BY <1>7, <1>9, <3>2, <3>5
    <3>7. i = k
      BY <1>1, <3>6
    <3>8. j = l
      BY <1>3, <3>6, <3>7
    <3>. QED  BY <3>2, <3>5, <3>7, <3>8
  <2>. QED  BY <1>4, <2>1, <2>2, <2>3
<1>. QED  BY <1>8, <1>9

LEMMA IdentitiesAreDistinct ==
  ASSUME NEW document, DocumentFault(document) = NoFault
  PROVE  IsInjective(MintedIds(document))
<1>. DEFINE minted == [name \in Name |-> MintedFor(document.id, name)]
            ids == MintedIds(document)
<1>1. document.id \in StableKeys
  BY AcceptedSet
<1>2. IsInjective(minted)
  BY <1>1, IdentityAssumption
<1>3. \A p, q \in Name : MintedFor(document.id, p) = MintedFor(document.id, q) => p = q
  BY <1>2 DEF IsInjective
<1>4. DOMAIN ids = Places(document)
      /\ \A p \in Places(document) : ids[p] = MintedFor(document.id, NameAt(document, p))
  BY DEF MintedIds
<1>. HIDE DEF ids
<1>5. \A p, q \in Places(document) : ids[p] = ids[q] => p = q
  BY <1>3, <1>4, NamesAreDistinct
<1>. QED  BY <1>4, <1>5 DEF IsInjective, ids

\* The modifiers of an accepted document, whoever prints them.
LEMMA ModifiersAreInRange ==
  ASSUME NEW document, DocumentFault(document) = NoFault
  PROVE  \A m \in AllModifiers(document) :
           ~(m.kind = "OpposingRetreatCost" /\ m.amount > LargestDelta)
<1>. DEFINE cards == document.cards
            InRange(m) == ~(m.kind = "OpposingRetreatCost" /\ m.amount > LargestDelta)
<1>1. /\ document \in SetEntry
      /\ \A i \in 1 .. Len(cards) : cards[i] \in CardEntry /\ CardFault(cards[i]) = NoFault
  BY AcceptedSet
<1>2. DOMAIN cards = 1 .. Len(cards)
  BY <1>1 DEF SetEntry
<1>3. ASSUME NEW card \in CardEntry, CardFault(card) = NoFault
      PROVE  /\ \A m \in Range(card.modifiers) : InRange(m)
             /\ \A a \in Range(card.abilities) : \A m \in a.modifier : InRange(m)
  <2>1. CASE card.kind = "Summon"
    <3>1. card.modifiers = <<>> /\ AbilitiesFault(card.abilities) = NoFault
      BY <1>3, <2>1, AcceptedCard DEF SummonStandsUp
    <3>2. card.abilities \in Seq(AbilityEntry)
      BY DEF CardEntry
    <3>3. \A i \in DOMAIN card.abilities :
            card.abilities[i] \in AbilityEntry /\ AbilityStandsUp(card.abilities[i])
      BY <3>1, <3>2, AcceptedAbilities
    <3>4. ASSUME NEW a \in AbilityEntry, AbilityStandsUp(a), NEW m \in a.modifier
          PROVE  InRange(m)
      <4>1. a.modifier \in Optional(ModifierEntry)
            /\ a.kind \in {"Attack", "Skill", "Passive", "Trigger"}
        BY DEF AbilityEntry
      <4>2. a.modifier # Absent
        BY DEF Absent
      <4>3. ModifierFault(The(a.modifier)) = NoFault
        BY <3>4, <4>1, <4>2 DEF AbilityStandsUp
      <4>4. m = The(a.modifier)
        BY <4>1, <4>2, TheValue DEF Optional
      <4>. QED  BY <4>3, <4>4, ModifierIsInRange
    <3>5. Range(card.modifiers) = {}
      BY <3>1 DEF Range
    <3>. HIDE DEF InRange
    <3>. QED  BY <3>3, <3>4, <3>5 DEF Range
  <2>2. CASE card.kind # "Summon"
    <3>1. /\ card.abilities = <<>>
          /\ \A i \in DOMAIN card.modifiers : ModifierFault(card.modifiers[i]) = NoFault
      BY <1>3, <2>2, AcceptedCard DEF CastStandsUp
    <3>2. Range(card.abilities) = {}
      BY <3>1 DEF Range
    <3>3. \A i \in DOMAIN card.modifiers : InRange(card.modifiers[i])
      BY <3>1, ModifierIsInRange
    <3>. HIDE DEF InRange
    <3>. QED  BY <3>2, <3>3 DEF Range
  <2>. QED  BY <2>1, <2>2
<1>. HIDE DEF InRange
<1>4. ASSUME NEW i \in DOMAIN cards
      PROVE  /\ \A m \in Range(cards[i].modifiers) : InRange(m)
             /\ \A a \in Range(cards[i].abilities) : \A m \in a.modifier : InRange(m)
  BY <1>1, <1>2, <1>3
<1>5. \A m \in AllModifiers(document) : InRange(m)
  BY <1>4 DEF AllModifiers
<1>. QED  BY <1>5 DEF InRange

\* Conversion refuses nothing that the parser let through.
LEMMA ConversionAgrees ==
  ASSUME NEW document, DocumentFault(document) = NoFault
  PROVE  ConversionFault(document) = NoFault
<1>. DEFINE twice == ~IsInjective(MintedIds(document))
            outside == \E m \in AllModifiers(document) :
                         m.kind = "OpposingRetreatCost" /\ m.amount > LargestDelta
            faults == <<When(twice, Fault("DuplicateGeneratedId", "")),
                        Rule(outside, "ModifierAmountOutOfRange")>>
<1>1. ~twice /\ ~outside
  BY IdentitiesAreDistinct, ModifiersAreInRange
<1>. HIDE DEF twice, outside
<1>2. DOMAIN faults = 1 .. 2 /\ faults[1] = NoFault /\ faults[2] = NoFault
  BY <1>1 DEF When, Rule
<1>3. ConversionFault(document) = FirstFault(faults)
  BY DEF ConversionFault, twice, outside
<1>. HIDE DEF faults
<1>4. {i \in DOMAIN faults : faults[i] # NoFault} = {}
  BY <1>2
<1>. QED  BY <1>3, <1>4 DEF FirstFault

\* Every face of an accepted document can be played, whichever document it is.
LEMMA AcceptedCardsCanBePlayed ==
  ASSUME NEW document, DocumentFault(document) = NoFault
  PROVE  \A face \in Range(LoadedSet(document).cards) : CanBePlayed(face)
<1>. DEFINE entries == document.cards
            codes == {c.code : c \in Range(entries)}
            picked(code) == CHOOSE c \in Range(entries) : c.code = code
            cards == [code \in codes |-> ConvertedFace(document.id, picked(code))]
<1>1. /\ document \in SetEntry /\ document.id \in StableKeys
      /\ \A i \in 1 .. Len(entries) :
           /\ entries[i] \in CardEntry /\ entries[i].code \in StableKeys
           /\ CardFault(entries[i]) = NoFault
  BY AcceptedSet
<1>2. DOMAIN entries = 1 .. Len(entries)
  BY <1>1 DEF SetEntry
<1>3. \A c \in Range(entries) :
        c \in CardEntry /\ c.code \in StableKeys /\ CardFault(c) = NoFault
  BY <1>1, <1>2 DEF Range
<1>4. \A code \in codes : picked(code) \in Range(entries)
  OBVIOUS
<1>5. ASSUME NEW c \in CardEntry, c.code \in StableKeys, CardFault(c) = NoFault
      PROVE  CanBePlayed(ConvertedFace(document.id, c))
  <2>1. CASE c.kind = "Summon"
    BY <1>1, <1>5, <2>1, AcceptedCard, SummonCanBePlayed DEF ConvertedFace
  <2>2. CASE c.kind # "Summon"
    <3>1. c.kind \in {"Spell", "Enchantment"}
      BY <2>2 DEF CardEntry
    <3>. QED  BY <1>5, <2>2, <3>1, AcceptedCard, CastCanBePlayed DEF ConvertedFace
  <2>. QED  BY <2>1, <2>2
<1>6. LoadedSet(document).cards = cards
  BY DEF LoadedSet
<1>. HIDE DEF picked, codes, entries
<1>7. \A code \in codes : CanBePlayed(cards[code])
  BY <1>3, <1>4, <1>5
<1>8. DOMAIN cards = codes
  OBVIOUS
<1>. HIDE DEF cards
<1>. QED  BY <1>6, <1>7, <1>8 DEF Range

LoadInv ==
  call.fn = "load" /\ result.made =>
    /\ result.fault = DocumentFault(call.document)
    /\ result.fault = NoFault =>
         /\ result.conversion = ConversionFault(call.document)
         /\ result.faces = Range(LoadedSet(call.document).cards)

LEMMA LoadStarts == Init => LoadInv
BY DEF Init, NotCalled, LoadInv

LEMMA LoadGoesOn == LoadInv /\ [Next]_vars => LoadInv'
<1>. SUFFICES ASSUME LoadInv, [Next]_vars, call'.fn = "load"
              PROVE  LoadInv'
  BY DEF LoadInv
<1>1. CASE UNCHANGED vars
  BY <1>1 DEF LoadInv, vars
<1>2. CASE LoadSet
  BY <1>2 DEF LoadSet, Returns, LoadInv
<1>3. ASSUME Next, ~LoadSet
      PROVE  LoadInv'
  <2>1. UNCHANGED call /\ call.fn # "load"
    BY <1>3 DEF Next, Deduct, ReadRecord, SearchMuseums, DealMatch, ParseScenario, Returns
  <2>. QED  BY <2>1
<1>. QED  BY <1>1, <1>2, <1>3

LEMMA LoadedAsPromised == LoadInv => LoadedCardsCanBePlayed
<1>. SUFFICES ASSUME LoadInv, Made("load"), result.fault = NoFault
              PROVE  result.conversion = NoFault /\ \A face \in result.faces : CanBePlayed(face)
  BY DEF LoadedCardsCanBePlayed
<1>1. /\ DocumentFault(call.document) = NoFault
      /\ result.conversion = ConversionFault(call.document)
      /\ result.faces = Range(LoadedSet(call.document).cards)
  BY DEF LoadInv, Made
<1>. QED  BY <1>1, ConversionAgrees, AcceptedCardsCanBePlayed

(***************************************************************************)
(* crates/cards/src/v1 (model.rs, convert.rs): of whatever document the    *)
(* parser accepts, conversion refuses nothing, and every face it makes is  *)
(* one the engine was written for, each leaf finding what it reads.        *)
(***************************************************************************)
THEOREM LoadedCardsCanBePlayedAlways == Spec => []LoadedCardsCanBePlayed
<1>1. Spec => []LoadInv
  BY LoadStarts, LoadGoesOn, PTL DEF Spec
<1>. QED  BY <1>1, LoadedAsPromised, PTL

-----------------------------------------------------------------------------
(* Lists put together.                                                     *)

LEMMA Concatenated ==
  ASSUME NEW W, NEW s \in Seq(W), NEW t \in Seq(W)
  PROVE  /\ s \o t \in Seq(W) /\ Len(s \o t) = Len(s) + Len(t)
         /\ \A i \in 1 .. Len(s) : (s \o t)[i] = s[i]
         /\ \A i \in 1 .. Len(t) : (s \o t)[Len(s) + i] = t[i]
OBVIOUS

LaidOut(both, W, s, t) ==
  /\ both \in Seq(W) /\ Len(both) = Len(s) + Len(t)
  /\ \A i \in 1 .. Len(s) : both[i] = s[i]
  /\ \A i \in 1 .. Len(t) : both[Len(s) + i] = t[i]

LEMMA LaidEndToEnd ==
  ASSUME NEW W, NEW s \in Seq(W), NEW t \in Seq(W)
  PROVE  LaidOut(s \o t, W, s, t)
BY Concatenated DEF LaidOut

IsFlat(f, lists) ==
  f = [i \in 1 .. Len(lists) |-> IF i = 1 THEN lists[i] ELSE f[i - 1] \o lists[i]]

\* The lists put together, one at a time.
LEMMA FlatByStep ==
  ASSUME NEW W, NEW lists \in Seq(Seq(W)), lists # <<>>
  PROVE  \E f \in [1 .. Len(lists) -> Seq(W)] :
           /\ f[1] = lists[1] /\ FlattenSeq(lists) = f[Len(lists)]
           /\ \A i \in 2 .. Len(lists) : f[i] = f[i - 1] \o lists[i]
<1>. DEFINE n == Len(lists)
            S == Seq(W)
            none == <<>>
            step == [i \in 1 .. n |-> [q \in S |-> q \o lists[i]]]
<1>1. n \in Nat /\ n # 0 /\ none \in S /\ \A i \in 1 .. n : lists[i] \in S
  OBVIOUS
<1>2. step \in [1 .. n -> [S -> S]]
  <2>1. \A i \in 1 .. n, q \in S : q \o lists[i] \in S
    BY <1>1, Concatenated
  <2>. HIDE DEF S
  <2>. QED  BY <2>1
<1>3. PICK g : /\ g \in [0 .. n -> S] /\ g[0] = none
               /\ \A i \in 1 .. n : g[i] = step[i][g[i - 1]]
  <2>. HIDE DEF step, n, S, none
  <2>1. \E g : IsIteration(g, S, none, n, step)
    BY <1>1, <1>2, SomeIteration
  <2>. QED  BY <2>1 DEF IsIteration
<1>4. ASSUME NEW i \in 1 .. n
      PROVE  g[i] = g[i - 1] \o lists[i]
  <2>1. i - 1 \in 0 .. n
    BY <1>1
  <2>2. g[i - 1] \in S
    <3>. HIDE DEF step, S
    <3>. QED  BY <1>3, <2>1
  <2>3. step[i][g[i - 1]] = g[i - 1] \o lists[i]
    BY <2>2
  <2>. HIDE DEF step
  <2>. QED  BY <1>3, <2>3
<1>. HIDE DEF step
<1>5. g[1] = lists[1]
  <2>1. 1 \in 1 .. n /\ g[1 - 1] = none /\ lists[1] \in S
    BY <1>1, <1>3
  <2>2. none \o lists[1] = lists[1]
    BY <2>1
  <2>. HIDE DEF none, S
  <2>. QED  BY <1>4, <2>1, <2>2
<1>. DEFINE h == [i \in 1 .. n |-> g[i]]
<1>6. IsFlat(h, lists)
  <2>1. \A i \in 1 .. n : i # 1 => i - 1 \in 1 .. n
    BY <1>1
  <2>2. \A i \in 1 .. n : h[i] = IF i = 1 THEN lists[i] ELSE h[i - 1] \o lists[i]
    BY <1>4, <1>5, <2>1
  <2>3. h = [i \in 1 .. n |-> h[i]]
    OBVIOUS
  <2>. HIDE DEF h
  <2>. QED  BY <2>2, <2>3 DEF IsFlat
<1>. DEFINE f == CHOOSE f : IsFlat(f, lists)
<1>7. IsFlat(f, lists) /\ FlattenSeq(lists) = f[n]
  <2>1. IsFlat(f, lists)
    BY <1>6
  <2>2. FlattenSeq(lists) = f[n]
    BY <1>1 DEF FlattenSeq, IsFlat
  <2>. QED  BY <2>1, <2>2
<1>. HIDE DEF f, h
<1>8. \A i \in 1 .. n : f[i] = IF i = 1 THEN lists[i] ELSE f[i - 1] \o lists[i]
  BY <1>7 DEF IsFlat
<1>9. f = [i \in 1 .. n |-> f[i]]
  BY <1>7 DEF IsFlat
<1>. DEFINE T == {i \in 0 .. n : i = 0 \/ f[i] \in S}
<1>10. 0 \in T
  BY <1>1
<1>11. ASSUME NEW i \in 1 .. n, i - 1 \in T
       PROVE  i \in T
  <2>1. i \in 0 .. n /\ lists[i] \in S
    BY <1>1
  <2>2. CASE i = 1
    BY <1>8, <2>1, <2>2
  <2>3. CASE i # 1
    <3>1. f[i] = f[i - 1] \o lists[i]
      BY <1>8, <2>3, Zenon
    <3>4. i - 1 # 0
      BY <2>3
    <3>2. f[i - 1] \in S
      <4>. HIDE DEF S
      <4>. QED  BY <1>11, <3>4
    <3>3. f[i] \in S
      BY <2>1, <3>1, <3>2, Concatenated
    <3>. HIDE DEF S
    <3>. QED  BY <2>1, <3>3
  <2>. QED  BY <2>2, <2>3
<1>12. 0 .. n \subseteq T
  <2>. HIDE DEF T, n
  <2>. QED  BY <1>1, <1>10, <1>11, BoundedInduction
<1>13. f \in [1 .. n -> S]
  <2>1. \A i \in 1 .. n : i \in 0 .. n /\ i # 0
    BY <1>1
  <2>2. \A i \in 1 .. n : f[i] \in S
    BY <1>12, <2>1
  <2>. HIDE DEF S, n
  <2>. QED  BY <1>9, <2>2
<1>14. f[1] = lists[1] /\ \A i \in 2 .. n : f[i] = f[i - 1] \o lists[i]
  <2>1. 1 \in 1 .. n /\ \A i \in 2 .. n : i \in 1 .. n /\ i # 1
    BY <1>1
  <2>. QED  BY <1>8, <2>1, Zenon
<1>. QED  BY <1>7, <1>13, <1>14

\* Nothing is lost and nothing is added: the lengths add up.
LEMMA FlatIsWhole ==
  ASSUME NEW W, NEW lists \in Seq(Seq(W))
  PROVE  /\ FlattenSeq(lists) \in Seq(W)
         /\ Len(FlattenSeq(lists)) = SumOf([i \in DOMAIN lists |-> Len(lists[i])])
<1>. DEFINE n == Len(lists)
            lengths == [i \in DOMAIN lists |-> Len(lists[i])]
<1>1. n \in Nat /\ DOMAIN lists = 1 .. n /\ \A i \in 1 .. n : lists[i] \in Seq(W)
  OBVIOUS
<1>2. \A i \in 1 .. n : Len(lists[i]) \in Nat
  BY <1>1
<1>3. lengths \in Seq(Int) /\ Len(lengths) = n /\ \A i \in 1 .. n : lengths[i] = Len(lists[i])
  BY <1>1, <1>2
<1>. HIDE DEF lengths
<1>4. PICK sum \in [0 .. n -> Int] :
        /\ sum[0] = 0 /\ SumOf(lengths) = sum[n]
        /\ \A i \in 1 .. n : sum[i] = sum[i - 1] + lengths[i]
  BY <1>3, SumByStep
<1>5. CASE lists = <<>>
  <2>1. n = 0 /\ FlattenSeq(lists) = <<>>
    BY <1>5 DEF FlattenSeq
  <2>2. SumOf(lengths) = 0
    BY <1>4, <2>1
  <2>. QED  BY <2>1, <2>2 DEF lengths
<1>6. CASE lists # <<>>
  <2>1. PICK f \in [1 .. n -> Seq(W)] :
          /\ f[1] = lists[1] /\ FlattenSeq(lists) = f[n]
          /\ \A i \in 2 .. n : f[i] = f[i - 1] \o lists[i]
    BY <1>6, FlatByStep
  <2>. DEFINE T == {i \in 0 .. n : i = 0 \/ Len(f[i]) = sum[i]}
  <2>2. 0 \in T
    BY <1>1
  <2>3. ASSUME NEW i \in 1 .. n, i - 1 \in T
        PROVE  i \in T
    <3>1. i \in 0 .. n /\ sum[i] = sum[i - 1] + Len(lists[i])
      <4>1. i \in 0 .. n
        BY <1>1
      <4>2. sum[i] = sum[i - 1] + lengths[i] /\ lengths[i] = Len(lists[i])
        BY <1>3, <1>4, Zenon
      <4>. QED  BY <4>1, <4>2, Zenon
    <3>2. CASE i = 1
      <4>1. sum[1] = 0 + Len(lists[1]) /\ Len(lists[1]) \in Nat
        BY <1>2, <1>4, <3>1, <3>2
      <4>. QED  BY <2>1, <3>1, <3>2, <4>1
    <3>3. CASE i # 1
      <4>1. i \in 2 .. n /\ i - 1 \in 1 .. n /\ i - 1 # 0
        BY <1>1, <3>3
      <4>2. f[i - 1] \in Seq(W) /\ lists[i] \in Seq(W) /\ f[i] = f[i - 1] \o lists[i]
        BY <1>1, <2>1, <4>1
      <4>3. Len(f[i]) = Len(f[i - 1]) + Len(lists[i])
        BY <4>2, Concatenated
      <4>4. Len(f[i - 1]) = sum[i - 1]
        BY <2>3, <4>1
      <4>. QED  BY <3>1, <4>3, <4>4
    <3>. QED  BY <3>2, <3>3
  <2>4. 0 .. n \subseteq T
    <3>. HIDE DEF T, n
    <3>. QED  BY <1>1, <2>2, <2>3, BoundedInduction
  <2>5. n \in 0 .. n /\ n # 0 /\ n \in 1 .. n
    BY <1>1, <1>6
  <2>6. Len(f[n]) = sum[n] /\ f[n] \in Seq(W)
    <3>. HIDE DEF n
    <3>. QED  BY <2>1, <2>4, <2>5
  <2>. QED  BY <1>4, <2>1, <2>6 DEF lengths
<1>. QED  BY <1>5, <1>6

LEMMA FourListsFlat ==
  ASSUME NEW W, NEW lists \in Seq(Seq(W)), Len(lists) = 4
  PROVE  FlattenSeq(lists) = ((lists[1] \o lists[2]) \o lists[3]) \o lists[4]
<1>1. lists # <<>>
  OBVIOUS
<1>2. PICK f \in [1 .. Len(lists) -> Seq(W)] :
        /\ f[1] = lists[1] /\ FlattenSeq(lists) = f[Len(lists)]
        /\ \A i \in 2 .. Len(lists) : f[i] = f[i - 1] \o lists[i]
  BY <1>1, FlatByStep
<1>3. \A i \in {2, 3, 4} : f[i] = f[i - 1] \o lists[i]
  <2>1. 2 \in 2 .. Len(lists) /\ 3 \in 2 .. Len(lists) /\ 4 \in 2 .. Len(lists)
    OBVIOUS
  <2>. QED  BY <1>2, <2>1, Zenon
<1>4. f[2] = f[1] \o lists[2] /\ f[3] = f[2] \o lists[3] /\ f[4] = f[3] \o lists[4]
  <2>1. 2 - 1 = 1 /\ 3 - 1 = 2 /\ 4 - 1 = 3
    OBVIOUS
  <2>2. f[2] = f[2 - 1] \o lists[2] /\ f[3] = f[3 - 1] \o lists[3] /\ f[4] = f[4 - 1] \o lists[4]
    BY <1>3, Zenon
  <2>. QED  BY <2>1, <2>2, Zenon
<1>5. FlattenSeq(lists) = f[4] /\ f[1] = lists[1]
  BY <1>2
<1>. QED  BY <1>4, <1>5, Zenon

-----------------------------------------------------------------------------
(* Decks.                                                                  *)

\* The list of a Deck's cards, with how often each is in it.
Recipe(items) ==
  /\ \E n \in Nat : DOMAIN items = 1 .. n
  /\ \A i \in DOMAIN items : items[i].quantity \in Nat

\* An accepted Deck: a Base Summon to start with and a body of known cards,
\* as many as a body has.
Playable(deck, faces) ==
  /\ deck.starter \in DOMAIN faces
  /\ faces[deck.starter].kind = "Summon" /\ faces[deck.starter].form = FormRank["Base"]
  /\ deck.body \in Seq(DOMAIN faces) /\ Len(deck.body) = BodySize

LEMMA NothingWrong ==
  ASSUME NEW bad, NEW cause, cause # "None", NEW what,
         When(bad, Fault(cause, what)) = NoFault
  PROVE  ~bad
<1>1. Fault(cause, what).cause # NoFault.cause
  BY DEF Fault, NoFault
<1>. HIDE DEF Fault, NoFault
<1>. QED  BY <1>1 DEF When

LEMMA KeysLeadToFaces ==
  ASSUME NEW sets, NEW reference \in DOMAIN Library(sets).cards
  PROVE  Library(sets).cards[reference] \in DOMAIN Library(sets).faces
BY DEF Library

LEMMA AcceptedItem ==
  ASSUME NEW deck, Recipe(deck.cards), NEW library, DeckFault(deck, library) = NoFault,
         NEW i \in DOMAIN deck.cards
  PROVE  deck.cards[i].card \in DOMAIN library.cards
<1>. DEFINE faults == <<
              When(deck.schema_version # 1, Fault("UnsupportedSchemaVersion", "")),
              KeyFault(deck.id, "Deck"),
              When(deck.name \in {"", " "}, Fault("NameMustNotBeEmpty", "")),
              FirstFault([j \in DOMAIN deck.requires |-> RequirementFault(deck.requires, j, library)]),
              StarterFault(deck, library),
              FirstFault([j \in DOMAIN deck.cards |-> ItemFault(deck, j, library)]),
              When(BodyCount(deck.cards) # BodySize, Fault("BodyCardCount", "")) >>
<1>1. FirstFault(faults) = NoFault
  BY DEF DeckFault
<1>2. DOMAIN faults = 1 .. 7
  OBVIOUS
<1>3. faults[6] = FirstFault([j \in DOMAIN deck.cards |-> ItemFault(deck, j, library)])
  OBVIOUS
<1>4. faults[6] = NoFault
  <2>. HIDE DEF faults
  <2>. QED  BY <1>1, <1>2, NothingSaid
<1>. HIDE DEF faults
<1>. DEFINE items == [j \in DOMAIN deck.cards |-> ItemFault(deck, j, library)]
<1>5. DOMAIN items \subseteq Nat /\ FirstFault(items) = NoFault
      /\ items[i] = ItemFault(deck, i, library) /\ DOMAIN items = DOMAIN deck.cards
  BY <1>3, <1>4 DEF Recipe
<1>6. ItemFault(deck, i, library) = NoFault
  <2>. HIDE DEF items
  <2>. QED  BY <1>5, NothingSaid
<1>. DEFINE item == deck.cards[i]
            checks == <<
              QualifiedFault(item.card), BoundFault(item.card, deck.requires),
              When(item.quantity = 0, Fault("QuantityMustBePositive", "")),
              When(item.card = deck.starter, Fault("StarterInBody", "")),
              ResolveFault(item.card, library),
              When(Copies(deck.cards, i) > CopyLimit, Fault("CopyLimitExceeded", "")) >>
<1>7. FirstFault(checks) = NoFault
  BY <1>6 DEF ItemFault
<1>8. DOMAIN checks = 1 .. 6 /\ checks[5] = ResolveFault(item.card, library)
  OBVIOUS
<1>9. checks[5] = NoFault
  <2>. HIDE DEF checks
  <2>. QED  BY <1>7, <1>8, NothingSaid
<1>. HIDE DEF checks
<1>10. When(item.card \notin DOMAIN library.cards, Fault("UnresolvedCard", "")) = NoFault
  BY <1>8, <1>9 DEF ResolveFault
<1>. QED  BY <1>10, NothingWrong

LEMMA AcceptedCountAndStarter ==
  ASSUME NEW deck, NEW library, DeckFault(deck, library) = NoFault
  PROVE  /\ BodyCount(deck.cards) = BodySize
         /\ deck.starter \in DOMAIN library.cards
         /\ LET face == library.faces[library.cards[deck.starter]]
            IN face.kind = "Summon" /\ face.form = FormRank["Base"]
<1>. DEFINE faults == <<
              When(deck.schema_version # 1, Fault("UnsupportedSchemaVersion", "")),
              KeyFault(deck.id, "Deck"),
              When(deck.name \in {"", " "}, Fault("NameMustNotBeEmpty", "")),
              FirstFault([j \in DOMAIN deck.requires |-> RequirementFault(deck.requires, j, library)]),
              StarterFault(deck, library),
              FirstFault([j \in DOMAIN deck.cards |-> ItemFault(deck, j, library)]),
              When(BodyCount(deck.cards) # BodySize, Fault("BodyCardCount", "")) >>
<1>1. FirstFault(faults) = NoFault
  BY DEF DeckFault
<1>2. DOMAIN faults = 1 .. 7
  OBVIOUS
<1>3. /\ faults[5] = StarterFault(deck, library)
      /\ faults[7] = When(BodyCount(deck.cards) # BodySize, Fault("BodyCardCount", ""))
  OBVIOUS
<1>4. faults[5] = NoFault /\ faults[7] = NoFault
  <2>. HIDE DEF faults
  <2>. QED  BY <1>1, <1>2, NothingSaid
<1>. HIDE DEF faults
<1>5. BodyCount(deck.cards) = BodySize
  BY <1>3, <1>4, NothingWrong
<1>. DEFINE checks == << QualifiedFault(deck.starter), BoundFault(deck.starter, deck.requires),
                         ResolveFault(deck.starter, library) >>
<1>6. FirstFault(checks) = NoFault /\ BaseStarterFault(deck.starter, library) = NoFault
  BY <1>3, <1>4 DEF StarterFault
<1>7. DOMAIN checks = 1 .. 3 /\ checks[3] = ResolveFault(deck.starter, library)
  OBVIOUS
<1>8. checks[3] = NoFault
  <2>. HIDE DEF checks
  <2>. QED  BY <1>6, <1>7, NothingSaid
<1>. HIDE DEF checks
<1>9. deck.starter \in DOMAIN library.cards
  <2>1. When(deck.starter \notin DOMAIN library.cards, Fault("UnresolvedCard", "")) = NoFault
    BY <1>7, <1>8 DEF ResolveFault
  <2>. QED  BY <2>1, NothingWrong
<1>. DEFINE face == library.faces[library.cards[deck.starter]]
<1>10. face.kind = "Summon" /\ face.form = FormRank["Base"]
  <2>1. When(face.kind # "Summon" \/ face.form # FormRank["Base"],
             Fault("StarterMustBeBase", "")) = NoFault
    BY <1>6 DEF BaseStarterFault
  <2>. HIDE DEF face
  <2>. QED  BY <2>1 DEF When, Fault, NoFault
<1>. QED  BY <1>5, <1>9, <1>10

\* One pass over the recipe: each item gives its card as often as it says.
LEMMA AcceptedDeckIsPlayable ==
  ASSUME NEW sets, NEW deck, Recipe(deck.cards),
         DeckFault(deck, Library(sets)) = NoFault
  PROVE  Playable(ResolvedDeck(deck, Library(sets)), Library(sets).faces)
<1>. DEFINE library == Library(sets)
            resolved == ResolvedDeck(deck, library)
            W == DOMAIN library.faces
            items == deck.cards
            times(i) == [n \in 1 .. items[i].quantity |-> library.cards[items[i].card]]
            lists == [i \in DOMAIN items |-> times(i)]
<1>1. PICK n \in Nat : DOMAIN items = 1 .. n /\ \A i \in DOMAIN items : items[i].quantity \in Nat
  BY DEF Recipe
<1>2. \A i \in DOMAIN items : library.cards[items[i].card] \in W
  BY AcceptedItem, KeysLeadToFaces
<1>3. /\ deck.starter \in DOMAIN library.cards /\ BodyCount(items) = BodySize
      /\ library.faces[library.cards[deck.starter]].kind = "Summon"
      /\ library.faces[library.cards[deck.starter]].form = FormRank["Base"]
  BY AcceptedCountAndStarter
<1>4. library.cards[deck.starter] \in W
  BY <1>3, KeysLeadToFaces
<1>5. resolved.starter = library.cards[deck.starter] /\ resolved.body = FlattenSeq(lists)
  BY DEF ResolvedDeck
<1>. HIDE DEF library, W
<1>6. \A i \in DOMAIN items : times(i) \in Seq(W) /\ Len(times(i)) = items[i].quantity
  BY <1>1, <1>2
<1>. HIDE DEF times
<1>7. lists \in Seq(Seq(W)) /\ DOMAIN lists = DOMAIN items
  <2>1. lists \in [1 .. n -> Seq(W)]
    BY <1>1, <1>6
  <2>. HIDE DEF lists
  <2>. QED  BY <1>1, <2>1, SeqDef
<1>8. [i \in DOMAIN lists |-> Len(lists[i])] = [i \in DOMAIN items |-> items[i].quantity]
  BY <1>6
<1>. HIDE DEF lists, items
<1>9. resolved.body \in Seq(W) /\ Len(resolved.body) = BodySize
  BY <1>3, <1>5, <1>7, <1>8, FlatIsWhole DEF BodyCount
<1>. QED  BY <1>3, <1>4, <1>5, <1>9 DEF Playable, library, W

-----------------------------------------------------------------------------
(* Dealing.                                                                *)

\* The card dealt k-th from the top of the Deck, then the hand, the Prizes.
LeftInDeck == BodySize - HandSize - PrizeCount
DealtFrom(k) == IF k <= LeftInDeck THEN k + HandSize + PrizeCount ELSE k - LeftInDeck
DealtCard(deck, first, order, k) ==
  IF k <= BodySize
  THEN [instance |-> first + DealtFrom(k), def |-> deck.body[order[DealtFrom(k)]]]
  ELSE [instance |-> first, def |-> deck.starter]

LEMMA DealNumbers ==
  /\ BodySize \in Nat /\ HandSize \in Nat /\ PrizeCount \in Nat
  /\ LeftInDeck \in Nat /\ LeftInDeck + HandSize + PrizeCount = BodySize
BY DealAssumption DEF LeftInDeck

\* The places of a Deck's cards: each of the shuffled body once.
LEMMA DealtOnce ==
  /\ \A k \in 1 .. BodySize : DealtFrom(k) \in 1 .. BodySize
  /\ \A j, k \in 1 .. BodySize : DealtFrom(j) = DealtFrom(k) => j = k
BY DealNumbers DEF DealtFrom

LEMMA DealtFromWhere ==
  /\ \A k \in 1 .. LeftInDeck : DealtFrom(k) = HandSize + PrizeCount + k
  /\ \A k \in 1 .. HandSize : DealtFrom(LeftInDeck + k) = k
  /\ \A k \in 1 .. PrizeCount : DealtFrom(LeftInDeck + HandSize + k) = HandSize + k
BY DealNumbers DEF DealtFrom

DealtIn(d, Cards, deck, first, order) ==
  /\ d.deck \in Seq(Cards) /\ d.hand \in Seq(Cards) /\ d.prizes \in Seq(Cards)
  /\ d.discard = <<>>
  /\ Len(d.deck) = LeftInDeck /\ Len(d.hand) = HandSize /\ Len(d.prizes) = PrizeCount
  /\ \A k \in 1 .. LeftInDeck : d.deck[k] = DealtCard(deck, first, order, k)
  /\ \A k \in 1 .. HandSize : d.hand[k] = DealtCard(deck, first, order, LeftInDeck + k)
  /\ \A k \in 1 .. PrizeCount :
       d.prizes[k] = DealtCard(deck, first, order, LeftInDeck + HandSize + k)

LEMMA DealtPiles ==
  ASSUME NEW W, NEW deck, deck.starter \in W, deck.body \in Seq(W), Len(deck.body) = BodySize,
         NEW first \in Nat, NEW order \in Shuffles,
         NEW d, d = Deal(deck, first, order),
         NEW Cards, Cards = [instance : Nat, def : W]
  PROVE  DealtIn(d, Cards, deck, first, order)
<1>. DEFINE card(i) == [instance |-> first + i, def |-> deck.body[order[i]]]
            body == [i \in 1 .. BodySize |-> card(i)]
            H == HandSize
            P == PrizeCount
            N == BodySize
            D == LeftInDeck
<1>1. /\ N \in Nat /\ H \in Nat /\ P \in Nat /\ D \in Nat /\ D + H + P = N
  BY DealNumbers
<1>2. \A i \in 1 .. N : order[i] \in 1 .. N
  BY DEF Shuffles
<1>3. \A i \in 1 .. N : card(i) \in Cards
  <2>1. \A i \in 1 .. N : deck.body[i] \in W
    OBVIOUS
  <2>2. \A i \in 1 .. N : first + i \in Nat
    BY <1>1
  <2>. QED  BY <1>2, <2>1, <2>2
<1>4. /\ d.hand = SubSeq(body, 1, H)
      /\ d.prizes = SubSeq(body, H + 1, H + P)
      /\ d.deck = SubSeq(body, H + P + 1, N)
      /\ d.discard = <<>>
  BY DEF Deal
<1>5. \A i \in 1 .. N : body[i] = card(i)
  OBVIOUS
<1>6. \A i \in 1 .. N : body[i] \in Cards
  BY <1>3, <1>5
<1>. HIDE DEF body, H, P, N, D
<1>7. /\ d.hand \in Seq(Cards) /\ Len(d.hand) = H
      /\ \A k \in 1 .. H : d.hand[k] = body[k] /\ k \in 1 .. N
  <2>1. \A k \in 1 .. H : k \in 1 .. N /\ body[k] \in Cards
    BY <1>1, <1>6
  <2>2. /\ SubSeq(body, 1, H) \in Seq(Cards)
        /\ Len(SubSeq(body, 1, H)) = IF 1 <= H THEN H - 1 + 1 ELSE 0
        /\ \A k \in 1 .. H - 1 + 1 : SubSeq(body, 1, H)[k] = body[1 + k - 1]
    BY <1>1, <2>1, SubSeqProperties
  <2>. QED  BY <1>1, <1>4, <2>1, <2>2
<1>8. /\ d.prizes \in Seq(Cards) /\ Len(d.prizes) = P
      /\ \A k \in 1 .. P : d.prizes[k] = body[H + k] /\ H + k \in 1 .. N
  <2>1. \A k \in H + 1 .. H + P : k \in 1 .. N /\ body[k] \in Cards
    BY <1>1, <1>6
  <2>2. /\ SubSeq(body, H + 1, H + P) \in Seq(Cards)
        /\ Len(SubSeq(body, H + 1, H + P)) =
             IF H + 1 <= H + P THEN (H + P) - (H + 1) + 1 ELSE 0
        /\ \A k \in 1 .. (H + P) - (H + 1) + 1 :
             SubSeq(body, H + 1, H + P)[k] = body[H + 1 + k - 1]
    <3>. DEFINE m == H + 1
                n == H + P
    <3>1. m \in Int /\ n \in Int /\ \A k \in m .. n : body[k] \in Cards
      BY <1>1, <2>1
    <3>. HIDE DEF m, n
    <3>2. /\ SubSeq(body, m, n) \in Seq(Cards)
          /\ Len(SubSeq(body, m, n)) = IF m <= n THEN n - m + 1 ELSE 0
          /\ \A k \in 1 .. n - m + 1 : SubSeq(body, m, n)[k] = body[m + k - 1]
      BY <3>1, SubSeqProperties
    <3>. QED  BY <3>2 DEF m, n
  <2>3. /\ (H + P) - (H + 1) + 1 = P /\ (H + 1 <= H + P <=> P # 0)
        /\ \A k \in 1 .. P : H + 1 + k - 1 = H + k /\ H + k \in 1 .. N
    BY <1>1
  <2>4. Len(d.prizes) = P
    BY <1>1, <1>4, <2>2, <2>3
  <2>5. ASSUME NEW k \in 1 .. P
        PROVE  d.prizes[k] = body[H + k]
    <3>1. k \in 1 .. (H + P) - (H + 1) + 1 /\ H + 1 + k - 1 = H + k
      BY <2>3
    <3>2. SubSeq(body, H + 1, H + P)[k] = body[H + 1 + k - 1]
      BY <2>2, <3>1, Zenon
    <3>. QED  BY <1>4, <3>1, <3>2, Zenon
  <2>. QED  BY <1>4, <2>2, <2>3, <2>4, <2>5
<1>9. /\ d.deck \in Seq(Cards) /\ Len(d.deck) = D
      /\ \A k \in 1 .. D : d.deck[k] = body[H + P + k] /\ H + P + k \in 1 .. N
  <2>1. \A k \in H + P + 1 .. N : k \in 1 .. N /\ body[k] \in Cards
    BY <1>1, <1>6
  <2>2. /\ SubSeq(body, H + P + 1, N) \in Seq(Cards)
        /\ Len(SubSeq(body, H + P + 1, N)) =
             IF H + P + 1 <= N THEN N - (H + P + 1) + 1 ELSE 0
        /\ \A k \in 1 .. N - (H + P + 1) + 1 :
             SubSeq(body, H + P + 1, N)[k] = body[H + P + 1 + k - 1]
    BY <1>1, <2>1, SubSeqProperties
  <2>. QED  BY <1>1, <1>4, <2>1, <2>2
<1>10. \A k \in 1 .. D : DealtCard(deck, first, order, k) = card(H + P + k)
  <2>1. \A k \in 1 .. D : k <= N
    BY <1>1
  <2>2. \A k \in 1 .. D : DealtFrom(k) = H + P + k
    BY DealtFromWhere DEF D, H, P
  <2>. QED  BY <2>1, <2>2 DEF DealtCard, N
<1>11. \A k \in 1 .. H : DealtCard(deck, first, order, D + k) = card(k)
  <2>1. \A k \in 1 .. H : D + k <= N
    BY <1>1
  <2>2. \A k \in 1 .. H : DealtFrom(D + k) = k
    BY DealtFromWhere DEF D, H
  <2>. QED  BY <2>1, <2>2 DEF DealtCard, N
<1>12. \A k \in 1 .. P : DealtCard(deck, first, order, D + H + k) = card(H + k)
  <2>1. \A k \in 1 .. P : D + H + k <= N
    BY <1>1
  <2>2. \A k \in 1 .. P : DealtFrom(D + H + k) = H + k
    BY DealtFromWhere DEF D, H, P
  <2>. QED  BY <2>1, <2>2 DEF DealtCard, N
<1>. HIDE DEF card
<1>13. \A k \in 1 .. D : d.deck[k] = DealtCard(deck, first, order, k)
  BY <1>5, <1>9, <1>10, Zenon
<1>14. \A k \in 1 .. H : d.hand[k] = DealtCard(deck, first, order, D + k)
  BY <1>5, <1>7, <1>11, Zenon
<1>15. \A k \in 1 .. P : d.prizes[k] = DealtCard(deck, first, order, D + H + k)
  BY <1>5, <1>8, <1>12, Zenon
<1>. QED  BY <1>4, <1>7, <1>8, <1>9, <1>13, <1>14, <1>15 DEF DealtIn, H, P, D


LEMMA TheGiven ==
  ASSUME NEW v
  PROVE  The(Given(v)) = v /\ Given(v) # Absent
BY DEF The, Given, Absent

LEMMA DealtChains ==
  ASSUME NEW deck, NEW first, NEW order
  PROVE  LET d == Deal(deck, first, order)
             starter == [instance |-> first, def |-> deck.starter]
         IN /\ d.summons[Main] = Given([chain |-> <<starter>>, damage |-> 0,
                                        readiness |-> "Exhausted"])
            /\ ChainAt(d, Main) = <<starter>>
            /\ \A q \in Position \ {Main} : d.summons[q] = Absent /\ ChainAt(d, q) = <<>>
<1>. DEFINE d == Deal(deck, first, order)
            starter == [instance |-> first, def |-> deck.starter]
            summon == [chain |-> <<starter>>, damage |-> 0, readiness |-> "Exhausted"]
<1>1. \A q \in Position : d.summons[q] = IF q # Main THEN Absent ELSE Given(summon)
  BY DEF Deal
<1>2. summon.chain = <<starter>>
  OBVIOUS
<1>. HIDE DEF d, summon
<1>3. d.summons[Main] = Given(summon)
  BY <1>1 DEF Position
<1>4. ChainAt(d, Main) = <<starter>>
  BY <1>2, <1>3, TheGiven DEF ChainAt
<1>5. \A q \in Position \ {Main} : d.summons[q] = Absent /\ ChainAt(d, q) = <<>>
  BY <1>1 DEF ChainAt
<1>. QED  BY <1>3, <1>4, <1>5 DEF d, summon

\* A seat's cards are its dealt ones and its Starter.
Holds(d, Cards, deck, first, order) ==
  LET refs == PlayerCardRefs(d)
  IN /\ refs \in Seq(Cards) /\ Len(refs) = BodySize + 1
     /\ \A k \in 1 .. BodySize + 1 : refs[k] = DealtCard(deck, first, order, k)

LEMMA DealtCards ==
  ASSUME NEW W, NEW deck, deck.starter \in W, deck.body \in Seq(W), Len(deck.body) = BodySize,
         NEW first \in Nat, NEW order \in Shuffles,
         NEW d, d = Deal(deck, first, order),
         NEW Cards, Cards = [instance : Nat, def : W]
  PROVE  Holds(d, Cards, deck, first, order)
<1>. DEFINE starter == [instance |-> first, def |-> deck.starter]
            zones == [i \in 1 .. 4 |-> d[Zones[i]]]
            chains == [i \in 1 .. 4 |-> ChainAt(d, PositionOrder[i])]
            a == (((d.deck \o d.hand) \o d.prizes) \o <<>>)
            b == (((<<starter>> \o <<>>) \o <<>>) \o <<>>)
            D == LeftInDeck
            H == HandSize
            P == PrizeCount
            N == BodySize
<1>1. /\ d.deck \in Seq(Cards) /\ d.hand \in Seq(Cards) /\ d.prizes \in Seq(Cards)
      /\ d.discard = <<>>
      /\ Len(d.deck) = D /\ Len(d.hand) = H /\ Len(d.prizes) = P
      /\ \A k \in 1 .. D : d.deck[k] = DealtCard(deck, first, order, k)
      /\ \A k \in 1 .. H : d.hand[k] = DealtCard(deck, first, order, D + k)
      /\ \A k \in 1 .. P : d.prizes[k] = DealtCard(deck, first, order, D + H + k)
  <2>1. DealtIn(d, Cards, deck, first, order)
    BY DealtPiles
  <2>. QED  BY <2>1 DEF DealtIn
<1>2. /\ ChainAt(d, Main) = <<starter>>
      /\ \A q \in Position \ {Main} : ChainAt(d, q) = <<>>
  <2>. DEFINE e == Deal(deck, first, order)
              chain(q) == ChainAt(e, q)
  <2>1. /\ chain(Main) = <<starter>>
        /\ \A q \in Position \ {Main} : chain(q) = <<>>
    BY DealtChains, Zenon
  <2>2. \A q \in Position : chain(q) = ChainAt(d, q)
    OBVIOUS
  <2>3. Main \in Position
    BY DEF Main, Position
  <2>. HIDE DEF chain, starter
  <2>. QED  BY <2>1, <2>2, <2>3
<1>3. /\ zones[1] = d.deck /\ zones[2] = d.hand /\ zones[3] = d.prizes /\ zones[4] = d.discard
  BY DEF Zones
<1>4. /\ chains[1] = <<starter>> /\ chains[2] = <<>> /\ chains[3] = <<>> /\ chains[4] = <<>>
  BY <1>2 DEF PositionOrder, Position, Main, Bench
<1>5. starter \in Cards
  OBVIOUS
<1>6. <<starter>> \in Seq(Cards) /\ <<>> \in Seq(Cards) /\ Len(<<starter>>) = 1
      /\ <<starter>>[1] = starter
  <2>. HIDE DEF starter
  <2>. QED  BY <1>5
<1>7. PlayerCardRefs(d) = FlattenSeq(zones) \o FlattenSeq(chains)
  BY DEF PlayerCardRefs
<1>8. FlattenSeq(zones) = a
  <2>1. \A i \in 1 .. 4 : zones[i] \in Seq(Cards)
    <3>. HIDE DEF zones, starter
    <3>1. \A i \in 1 .. 4 : i = 1 \/ i = 2 \/ i = 3 \/ i = 4
      OBVIOUS
    <3>. QED  BY <1>1, <1>3, <1>6, <3>1, Zenon
  <2>2. DOMAIN zones = 1 .. 4 /\ zones = [i \in 1 .. 4 |-> zones[i]]
    OBVIOUS
  <2>. HIDE DEF zones
  <2>3. zones \in Seq(Seq(Cards)) /\ Len(zones) = 4
    BY <2>1, <2>2
  <2>4. FlattenSeq(zones) = ((zones[1] \o zones[2]) \o zones[3]) \o zones[4]
    BY <2>3, FourListsFlat
  <2>. QED  BY <1>1, <1>3, <2>4, Zenon
<1>9. FlattenSeq(chains) = b
  <2>1. \A i \in 1 .. 4 : chains[i] \in Seq(Cards)
    <3>. HIDE DEF chains, starter
    <3>1. \A i \in 1 .. 4 : i = 1 \/ i = 2 \/ i = 3 \/ i = 4
      OBVIOUS
    <3>. QED  BY <1>4, <1>6, <3>1, Zenon
  <2>2. DOMAIN chains = 1 .. 4 /\ chains = [i \in 1 .. 4 |-> chains[i]]
    OBVIOUS
  <2>. HIDE DEF chains
  <2>3. chains \in Seq(Seq(Cards)) /\ Len(chains) = 4
    BY <2>1, <2>2
  <2>4. FlattenSeq(chains) = ((chains[1] \o chains[2]) \o chains[3]) \o chains[4]
    BY <2>3, FourListsFlat
  <2>. QED  BY <1>4, <2>4, Zenon
<1>. HIDE DEF zones, chains, starter
<1>10. b = <<starter>>
  <2>1. <<starter>> \o <<>> = <<starter>>
    BY <1>6
  <2>. QED  BY <2>1, Zenon
<1>11. a = (d.deck \o d.hand) \o d.prizes
  <2>1. (d.deck \o d.hand) \o d.prizes \in Seq(Cards)
    BY <1>1, Concatenated
  <2>. DEFINE c == (d.deck \o d.hand) \o d.prizes
  <2>2. c \o <<>> = c
    <3>. HIDE DEF c
    <3>. QED  BY <2>1 DEF c
  <2>. QED  BY <2>2, Zenon
<1>. HIDE DEF a, b
<1>12. N \in Nat /\ H \in Nat /\ P \in Nat /\ D \in Nat /\ D + H + P = N
  BY DealNumbers
<1>. DEFINE left == d.deck \o d.hand
            zone == left \o d.prizes
            refs == zone \o <<starter>>
            dealt(k) == DealtCard(deck, first, order, k)
<1>13. dealt(N + 1) = starter
  BY <1>12 DEF DealtCard, starter
<1>14. \A k \in 1 .. D : d.deck[k] = dealt(k)
  BY <1>1
<1>15. \A k \in 1 .. H : d.hand[k] = dealt(D + k)
  BY <1>1
<1>16. \A k \in 1 .. P : d.prizes[k] = dealt(D + H + k)
  BY <1>1
<1>17. PlayerCardRefs(d) = refs
  BY <1>7, <1>8, <1>9, <1>10, <1>11, Zenon
<1>. HIDE DEF D, H, P, N, left, zone, refs, dealt
<1>18. /\ left \in Seq(Cards) /\ Len(left) = D + H
       /\ \A k \in 1 .. D : left[k] = d.deck[k]
       /\ \A k \in 1 .. H : left[D + k] = d.hand[k]
  <2>1. /\ left \in Seq(Cards) /\ Len(left) = Len(d.deck) + Len(d.hand)
        /\ \A k \in 1 .. Len(d.deck) : left[k] = d.deck[k]
        /\ \A k \in 1 .. Len(d.hand) : left[Len(d.deck) + k] = d.hand[k]
    <3>1. d.deck \in Seq(Cards) /\ d.hand \in Seq(Cards) /\ left = d.deck \o d.hand
      BY <1>1 DEF left
    <3>2. LaidOut(left, Cards, d.deck, d.hand)
      BY <3>1, LaidEndToEnd, Zenon
    <3>. QED  BY <3>2 DEF LaidOut
  <2>. QED  BY <1>1, <2>1, Zenon
<1>19. /\ zone \in Seq(Cards) /\ Len(zone) = N
       /\ \A k \in 1 .. D + H : zone[k] = left[k]
       /\ \A k \in 1 .. P : zone[D + H + k] = d.prizes[k]
  <2>1. /\ zone \in Seq(Cards) /\ Len(zone) = Len(left) + Len(d.prizes)
        /\ \A k \in 1 .. Len(left) : zone[k] = left[k]
        /\ \A k \in 1 .. Len(d.prizes) : zone[Len(left) + k] = d.prizes[k]
    <3>1. left \in Seq(Cards) /\ d.prizes \in Seq(Cards) /\ zone = left \o d.prizes
      BY <1>1, <1>18 DEF zone
    <3>2. LaidOut(zone, Cards, left, d.prizes)
      BY <3>1, LaidEndToEnd, Zenon
    <3>. QED  BY <3>2 DEF LaidOut
  <2>. QED  BY <1>1, <1>12, <1>18, <2>1
<1>20. /\ refs \in Seq(Cards) /\ Len(refs) = N + 1
       /\ \A k \in 1 .. N : refs[k] = zone[k]
       /\ refs[N + 1] = starter
  <2>1. /\ refs \in Seq(Cards) /\ Len(refs) = Len(zone) + Len(<<starter>>)
        /\ \A k \in 1 .. Len(zone) : refs[k] = zone[k]
        /\ \A k \in 1 .. Len(<<starter>>) : refs[Len(zone) + k] = <<starter>>[k]
    <3>1. zone \in Seq(Cards) /\ <<starter>> \in Seq(Cards) /\ refs = zone \o <<starter>>
      BY <1>6, <1>19 DEF refs
    <3>2. LaidOut(refs, Cards, zone, <<starter>>)
      BY <3>1, LaidEndToEnd, Zenon
    <3>. QED  BY <3>2 DEF LaidOut
  <2>2. refs[N + 1] = <<starter>>[1]
    BY <1>6, <1>19, <2>1
  <2>. QED  BY <1>6, <1>12, <1>19, <2>1, <2>2
<1>21. ASSUME NEW k \in 1 .. N + 1
       PROVE  refs[k] = dealt(k)
  <2>1. CASE k \in 1 .. D
    <3>1. k \in 1 .. N /\ k \in 1 .. D + H
      BY <1>12, <2>1
    <3>. QED  BY <1>14, <1>18, <1>19, <1>20, <2>1, <3>1, Zenon
  <2>2. CASE k > D /\ k <= D + H
    <3>1. k - D \in 1 .. H /\ D + (k - D) = k /\ k \in 1 .. N /\ k \in 1 .. D + H
      BY <1>12, <2>2
    <3>2. left[D + (k - D)] = d.hand[k - D] /\ d.hand[k - D] = dealt(D + (k - D))
      BY <1>15, <1>18, <3>1, Zenon
    <3>. QED  BY <1>19, <1>20, <3>1, <3>2, Zenon
  <2>3. CASE k > D + H /\ k <= N
    <3>1. k - (D + H) \in 1 .. P /\ D + H + (k - (D + H)) = k /\ k \in 1 .. N
      BY <1>12, <2>3
    <3>2. /\ zone[D + H + (k - (D + H))] = d.prizes[k - (D + H)]
          /\ d.prizes[k - (D + H)] = dealt(D + H + (k - (D + H)))
      BY <1>16, <1>19, <3>1, Zenon
    <3>. QED  BY <1>20, <3>1, <3>2, Zenon
  <2>4. CASE k = N + 1
    BY <1>13, <1>20, <2>4, Zenon
  <2>. QED  BY <1>12, <2>1, <2>2, <2>3, <2>4
<1>. QED  BY <1>17, <1>20, <1>21 DEF Holds, N, dealt


-----------------------------------------------------------------------------
(* Situations the engine can interpret.                                    *)

\* Nothing found anywhere is nothing found.
LEMMA NothingToSay ==
  ASSUME NEW faults, \A i \in DOMAIN faults : faults[i] = NoFault
  PROVE  FirstFault(faults) = NoFault
<1>1. {i \in DOMAIN faults : faults[i] # NoFault} = {}
  OBVIOUS
<1>. QED  BY <1>1 DEF FirstFault

LEMMA NoneInOrder ==
  FirstFault(SetToSeq({})) = NoFault
<1>. DEFINE s == SetToSeq({})
<1>1. Cardinality({}) = 0
  BY FS_EmptySet
<1>2. \E f \in [1 .. Cardinality({}) -> {}] : IsInjective(f)
  <2>1. 1 .. Cardinality({}) = {}
    BY <1>1
  <2>. DEFINE f == [i \in 1 .. Cardinality({}) |-> i]
  <2>2. f \in [1 .. Cardinality({}) -> {}] /\ IsInjective(f)
    BY <2>1 DEF IsInjective
  <2>. QED  BY <2>2
<1>3. s \in [1 .. Cardinality({}) -> {}]
  BY <1>2 DEF SetToSeq
<1>. HIDE DEF s
<1>4. DOMAIN s = {}
  BY <1>1, <1>3
<1>. QED  BY <1>4, NothingToSay DEF s

LEMMA OneInOrder ==
  ASSUME NEW v
  PROVE  FirstFault(SetToSeq({v})) = NoFault <=> v = NoFault
<1>. DEFINE s == SetToSeq({v})
<1>1. Cardinality({v}) = 1
  BY FS_Singleton
<1>2. \E f \in [1 .. Cardinality({v}) -> {v}] : IsInjective(f)
  <2>1. 1 .. Cardinality({v}) = {1}
    BY <1>1
  <2>. DEFINE f == [i \in 1 .. Cardinality({v}) |-> v]
  <2>2. f \in [1 .. Cardinality({v}) -> {v}] /\ IsInjective(f)
    BY <2>1 DEF IsInjective
  <2>. QED  BY <2>2
<1>3. s \in [1 .. Cardinality({v}) -> {v}]
  BY <1>2 DEF SetToSeq
<1>. HIDE DEF s
<1>4. DOMAIN s = {1} /\ s[1] = v
  BY <1>1, <1>3
<1>5. v = NoFault => FirstFault(s) = NoFault
  BY <1>4, NothingToSay
<1>6. FirstFault(s) = NoFault => v = NoFault
  BY <1>4, NothingSaid
<1>. QED  BY <1>5, <1>6 DEF s

\* What stands at each position, at most one Summon.
Stood(player) ==
  \A q \in Position : player.summons[q] = Absent \/ \E s : player.summons[q] = Given(s)

LEMMA StandsInOrder ==
  ASSUME NEW faces, NEW here, here = Absent \/ \E s : here = Given(s)
  PROVE  FirstFault(SetToSeq({ChainFault(faces, s.chain) : s \in here})) = NoFault
           <=> \A s \in here : ChainFault(faces, s.chain) = NoFault
<1>1. CASE here = Absent
  <2>1. {ChainFault(faces, s.chain) : s \in here} = {} /\ here = {}
    BY <1>1 DEF Absent
  <2>. QED  BY <2>1, NoneInOrder
<1>2. ASSUME NEW s, here = Given(s)
      PROVE  FirstFault(SetToSeq({ChainFault(faces, t.chain) : t \in here})) = NoFault
               <=> \A t \in here : ChainFault(faces, t.chain) = NoFault
  <2>1. /\ {ChainFault(faces, t.chain) : t \in here} = {ChainFault(faces, s.chain)}
        /\ here = {s}
    BY <1>2 DEF Given
  <2>2. FirstFault(SetToSeq({ChainFault(faces, t.chain) : t \in here})) = NoFault
          <=> ChainFault(faces, s.chain) = NoFault
    BY <2>1, OneInOrder
  <2>3. (\A t \in here : ChainFault(faces, t.chain) = NoFault)
          <=> ChainFault(faces, s.chain) = NoFault
    BY <2>1
  <2>. QED  BY <2>2, <2>3
<1>. QED  BY <1>1, <1>2

LEMMA FiveChecks ==
  ASSUME NEW g, DOMAIN g = 1 .. 4, g = [i \in 1 .. 4 |-> g[i]], NEW w
  PROVE  FirstFault(g \o <<w>>) = NoFault
           <=> (\A i \in 1 .. 4 : g[i] = NoFault) /\ w = NoFault
<1>. DEFINE W == {g[i] : i \in 1 .. 4} \cup {w}
            h == g \o <<w>>
            last == <<w>>
<1>1. g \in Seq(W) /\ Len(g) = 4
  OBVIOUS
<1>2. last \in Seq(W) /\ Len(last) = 1 /\ last[1] = w
  OBVIOUS
<1>. HIDE DEF W, last
<1>3. LaidOut(g \o last, W, g, last)
  BY <1>1, <1>2, LaidEndToEnd, Zenon
<1>4. DOMAIN h = 1 .. 5 /\ (\A i \in 1 .. 4 : h[i] = g[i]) /\ h[5] = w
  <2>1. h = g \o last
    BY DEF last
  <2>2. h \in Seq(W) /\ Len(h) = 5
    BY <1>1, <1>2, <1>3, <2>1 DEF LaidOut
  <2>3. \A i \in 1 .. 4 : h[i] = g[i]
    BY <1>1, <1>3, <2>1 DEF LaidOut
  <2>4. h[4 + 1] = last[1]
    BY <1>1, <1>2, <1>3, <2>1 DEF LaidOut
  <2>. HIDE DEF h
  <2>. QED  BY <1>2, <2>2, <2>3, <2>4
<1>. HIDE DEF h
<1>5. FirstFault(h) = NoFault => \A i \in 1 .. 5 : h[i] = NoFault
  BY <1>4, NothingSaid
<1>6. (\A i \in 1 .. 5 : h[i] = NoFault) => FirstFault(h) = NoFault
  BY <1>4, NothingToSay
<1>7. (\A i \in 1 .. 5 : h[i] = NoFault)
        <=> (\A i \in 1 .. 4 : g[i] = NoFault) /\ w = NoFault
  <2>1. \A i \in 1 .. 5 : i \in 1 .. 4 \/ i = 5
    OBVIOUS
  <2>2. 5 \in 1 .. 5 /\ \A i \in 1 .. 4 : i \in 1 .. 5
    OBVIOUS
  <2>. QED  BY <1>4, <2>1, <2>2, Zenon
<1>. QED  BY <1>5, <1>6, <1>7 DEF h

LEMMA SoundBoard ==
  ASSUME NEW faces, NEW player, Stood(player)
  PROVE  BoardFault(faces, player) = NoFault
           <=> /\ \A q \in Position : \A s \in player.summons[q] :
                    ChainFault(faces, s.chain) = NoFault
               /\ \E q \in Position : player.summons[q] # Absent
<1>. DEFINE here(q) == player.summons[q]
            said(q) == FirstFault(SetToSeq({ChainFault(faces, s.chain) : s \in here(q)}))
            sound(q) == \A s \in here(q) : ChainFault(faces, s.chain) = NoFault
            empty == \A q \in Position : here(q) = Absent
            g == [i \in 1 .. 4 |-> said(PositionOrder[i])]
            w == When(empty, Fault("NoSummonInPlay", ""))
<1>1. BoardFault(faces, player) = FirstFault(g \o <<w>>)
  BY DEF BoardFault
<1>2. \A q \in Position : said(q) = NoFault <=> sound(q)
  BY StandsInOrder DEF Stood
<1>3. \A i \in 1 .. 4 : PositionOrder[i] \in Position
  BY DEF PositionOrder, Position, Main, Bench
<1>4. \A q \in Position : \E i \in 1 .. 4 : PositionOrder[i] = q
  <2>1. \A q \in Position : q = 0 \/ q = 1 \/ q = 2 \/ q = 3
    BY DEF Position, Main, Bench
  <2>2. /\ PositionOrder[1] = 0 /\ PositionOrder[2] = 1
        /\ PositionOrder[3] = 2 /\ PositionOrder[4] = 3
    BY DEF PositionOrder, Main
  <2>3. {1, 2, 3, 4} \subseteq 1 .. 4
    OBVIOUS
  <2>. QED  BY <2>1, <2>2, <2>3, Zenon
<1>5. w = NoFault <=> ~empty
  <2>1. w = NoFault => ~empty
    BY NothingWrong
  <2>2. ~empty => w = NoFault
    BY DEF When
  <2>. QED  BY <2>1, <2>2
<1>. HIDE DEF said, sound, w, empty
<1>6. DOMAIN g = 1 .. 4 /\ g = [i \in 1 .. 4 |-> g[i]]
  OBVIOUS
<1>7. \A i \in 1 .. 4 : g[i] = said(PositionOrder[i])
  OBVIOUS
<1>. HIDE DEF g
<1>8. FirstFault(g \o <<w>>) = NoFault <=> (\A i \in 1 .. 4 : g[i] = NoFault) /\ w = NoFault
  BY <1>6, FiveChecks
<1>9. (\A i \in 1 .. 4 : g[i] = NoFault) <=> \A q \in Position : sound(q)
  <2>1. ASSUME \A i \in 1 .. 4 : g[i] = NoFault, NEW q \in Position
        PROVE  sound(q)
    <3>1. PICK i \in 1 .. 4 : PositionOrder[i] = q
      BY <1>4
    <3>. QED  BY <1>2, <1>7, <2>1, <3>1, Zenon
  <2>2. ASSUME \A q \in Position : sound(q), NEW i \in 1 .. 4
        PROVE  g[i] = NoFault
    BY <1>2, <1>3, <1>7, <2>2, Zenon
  <2>. QED  BY <2>1, <2>2
<1>. QED  BY <1>1, <1>5, <1>8, <1>9 DEF sound, empty


\* A chain nothing is said of climbs from a Summon card.
LEMMA SoundChain ==
  ASSUME NEW faces, NEW chain, ChainFault(faces, chain) = NoFault
  PROVE  chain # <<>> /\ \A i \in DOMAIN chain : faces[chain[i].def].kind = "Summon"
<1>. DEFINE loose == \E i \in DOMAIN chain :
               \/ FormOf(faces, chain[i]) = NoForm
               \/ i > 1 /\ FormOf(faces, chain[i]) <= FormOf(faces, chain[i - 1])
            checks == << When(chain = <<>>, Fault("EmptyUpgradeChain", "")),
                         When(loose, Fault("IllegalChainOrder", "")) >>
<1>1. FirstFault(checks) = NoFault
  BY DEF ChainFault
<1>2. /\ DOMAIN checks = 1 .. 2
      /\ checks[1] = When(chain = <<>>, Fault("EmptyUpgradeChain", ""))
      /\ checks[2] = When(loose, Fault("IllegalChainOrder", ""))
  OBVIOUS
<1>3. checks[1] = NoFault /\ checks[2] = NoFault
  <2>1. DOMAIN checks = 1 .. 2
    OBVIOUS
  <2>. HIDE DEF checks
  <2>. QED  BY <1>1, <2>1, NothingSaid
<1>. HIDE DEF checks, loose
<1>4. chain # <<>> /\ ~loose
  <2>1. /\ When(chain = <<>>, Fault("EmptyUpgradeChain", "")) = NoFault
        /\ When(loose, Fault("IllegalChainOrder", "")) = NoFault
    BY <1>2, <1>3, Zenon
  <2>2. chain # <<>>
    BY <2>1, NothingWrong
  <2>3. ~loose
    BY <2>1, NothingWrong
  <2>. QED  BY <2>2, <2>3
<1>5. \A i \in DOMAIN chain : FormOf(faces, chain[i]) # NoForm
  BY <1>4 DEF loose
<1>. QED  BY <1>4, <1>5 DEF FormOf

LEMMA SingleBase ==
  ASSUME NEW faces, NEW card, faces[card.def].kind = "Summon",
         faces[card.def].form = FormRank["Base"]
  PROVE  ChainFault(faces, <<card>>) = NoFault /\ FormOf(faces, card) = FormRank["Base"]
<1>. DEFINE chain == <<card>>
            loose == \E i \in DOMAIN chain :
               \/ FormOf(faces, chain[i]) = NoForm
               \/ i > 1 /\ FormOf(faces, chain[i]) <= FormOf(faces, chain[i - 1])
            checks == << When(chain = <<>>, Fault("EmptyUpgradeChain", "")),
                         When(loose, Fault("IllegalChainOrder", "")) >>
<1>1. FormOf(faces, card) = FormRank["Base"] /\ FormRank["Base"] # NoForm
  BY DEF FormOf, FormRank, NoForm
<1>2. DOMAIN chain = {1} /\ chain[1] = card /\ chain # <<>>
  OBVIOUS
<1>. HIDE DEF chain
<1>3. ~loose
  <2>1. \A i \in DOMAIN chain : i = 1 /\ ~(i > 1) /\ chain[i] = card
    BY <1>2
  <2>. QED  BY <1>1, <2>1, Zenon
<1>. HIDE DEF loose
<1>4. \A i \in DOMAIN checks : checks[i] = NoFault
  <2>1. /\ When(chain = <<>>, Fault("EmptyUpgradeChain", "")) = NoFault
        /\ When(loose, Fault("IllegalChainOrder", "")) = NoFault
    BY <1>2, <1>3, Zenon DEF When
  <2>2. checks = << NoFault, NoFault >>
    BY <2>1, Zenon
  <2>. HIDE DEF checks
  <2>. QED  BY <2>2
<1>5. ChainFault(faces, chain) = FirstFault(checks)
  BY DEF ChainFault, loose
<1>. HIDE DEF checks
<1>. QED  BY <1>1, <1>4, <1>5, NothingToSay DEF chain

\* The engine's state holds the cards of the situation it was built from.
LEMMA SameRefs ==
  ASSUME NEW faces, NEW scenario, NEW p \in Player, Stood(scenario.players[p])
  PROVE  StateCards(FromScenario(faces, scenario), p) = PlayerCardRefs(scenario.players[p])
<1>. DEFINE player == scenario.players[p]
            built == BuiltPlayer(p, player)
            shown == [built EXCEPT !.summons =
              [q \in Position |-> {[chain |-> s.chain] : s \in built.summons[q]}]]
<1>1. StateCards(FromScenario(faces, scenario), p) = PlayerCardRefs(shown)
  <2>1. FromScenario(faces, scenario).players[p] = built
    BY DEF FromScenario
  <2>. HIDE DEF built
  <2>. QED  BY <2>1 DEF StateCards
<1>2. \A q \in Position :
        shown.summons[q] = {[chain |-> s.chain] : s \in built.summons[q]}
  BY DEF BuiltPlayer
<1>3. /\ shown.deck = player.deck /\ shown.hand = player.hand
      /\ shown.prizes = player.prizes /\ shown.discard = player.discard
  BY DEF BuiltPlayer
<1>4. \A q \in Position : built.summons[q] = {BuiltSummon(p, s) : s \in player.summons[q]}
  BY DEF BuiltPlayer
<1>. HIDE DEF shown, built
<1>5. ASSUME NEW q \in Position
      PROVE  ChainAt(shown, q) = ChainAt(player, q)
  <2>. HIDE DEF player
  <2>1. CASE player.summons[q] = Absent
    <3>1. shown.summons[q] = Absent
      BY <1>2, <1>4, <2>1 DEF Absent
    <3>. QED  BY <2>1, <3>1 DEF ChainAt
  <2>2. ASSUME NEW s, player.summons[q] = Given(s)
        PROVE  ChainAt(shown, q) = ChainAt(player, q)
    <3>1. built.summons[q] = {BuiltSummon(p, s)} /\ BuiltSummon(p, s).chain = s.chain
      BY <1>4, <2>2 DEF Given, BuiltSummon
    <3>2. shown.summons[q] = Given([chain |-> s.chain])
      BY <1>2, <3>1 DEF Given
    <3>3. ChainAt(shown, q) = s.chain /\ ChainAt(player, q) = s.chain
      BY <2>2, <3>2, TheGiven DEF ChainAt
    <3>. QED  BY <3>3
  <2>. QED  BY <2>1, <2>2 DEF Stood, player
<1>. HIDE DEF player
<1>6. [i \in 1 .. 4 |-> shown[Zones[i]]] = [i \in 1 .. 4 |-> player[Zones[i]]]
  <2>1. \A i \in 1 .. 4 : shown[Zones[i]] = player[Zones[i]]
    <3>1. \A i \in 1 .. 4 : i = 1 \/ i = 2 \/ i = 3 \/ i = 4
      OBVIOUS
    <3>2. /\ Zones[1] = "deck" /\ Zones[2] = "hand"
          /\ Zones[3] = "prizes" /\ Zones[4] = "discard"
      BY DEF Zones
    <3>. QED  BY <1>3, <3>1, <3>2
  <2>. QED  BY <2>1
<1>7. [i \in 1 .. 4 |-> ChainAt(shown, PositionOrder[i])]
        = [i \in 1 .. 4 |-> ChainAt(player, PositionOrder[i])]
  <2>1. \A i \in 1 .. 4 : PositionOrder[i] \in Position
    BY DEF PositionOrder, Position, Main, Bench
  <2>. QED  BY <1>5, <2>1
<1>. QED  BY <1>1, <1>6, <1>7 DEF PlayerCardRefs, player

\* What is checked of a situation.
LEMMA SoundScenario ==
  ASSUME NEW faces, NEW scenario, \A p \in Player : Stood(scenario.players[p])
  PROVE  LET refs == AllCardRefs(scenario)
         IN ScenarioFault(faces, scenario) = NoFault
              <=> /\ IsInjective([i \in DOMAIN refs |-> refs[i].instance])
                  /\ \A i \in DOMAIN refs : refs[i].def \in DOMAIN faces
                  /\ \A p \in Player : BoardFault(faces, scenario.players[p]) = NoFault
<1>. DEFINE refs == AllCardRefs(scenario)
            distinct == IsInjective([i \in DOMAIN refs |-> refs[i].instance])
            known == \A i \in DOMAIN refs : refs[i].def \in DOMAIN faces
            one == BoardFault(faces, scenario.players["One"])
            two == BoardFault(faces, scenario.players["Two"])
            boards == <<one, two>>
<1>1. ScenarioFault(faces, scenario) =
        IF ~distinct THEN Fault("DuplicateCardInstance", "")
        ELSE IF ~known THEN Fault("UnknownCardDef", "")
        ELSE FirstFault(boards)
  BY DEF ScenarioFault
<1>2. /\ Fault("DuplicateCardInstance", "") # NoFault
      /\ Fault("UnknownCardDef", "") # NoFault
  BY DEF Fault, NoFault
<1>3. FirstFault(boards) = NoFault <=> one = NoFault /\ two = NoFault
  <2>1. DOMAIN boards = 1 .. 2 /\ boards[1] = one /\ boards[2] = two
    OBVIOUS
  <2>. HIDE DEF boards, one, two
  <2>2. FirstFault(boards) = NoFault => one = NoFault /\ two = NoFault
    BY <2>1, NothingSaid
  <2>3. one = NoFault /\ two = NoFault => FirstFault(boards) = NoFault
    <3>1. \A i \in 1 .. 2 : i = 1 \/ i = 2
      OBVIOUS
    <3>. QED  BY <2>1, <3>1, NothingToSay
  <2>. QED  BY <2>2, <2>3
<1>. HIDE DEF distinct, known, boards, one, two
<1>4. ScenarioFault(faces, scenario) = NoFault <=> distinct /\ known /\ one = NoFault /\ two = NoFault
  BY <1>1, <1>2, <1>3
<1>. QED  BY <1>4 DEF distinct, known, one, two, Player

\* From whatever is accepted the engine can go on.
LEMMA AcceptedCanStart ==
  ASSUME NEW faces, NEW scenario, \A p \in Player : Stood(scenario.players[p]),
         ScenarioFault(faces, scenario) = NoFault
  PROVE  CanStart(faces, FromScenario(faces, scenario))
<1>. DEFINE state == FromScenario(faces, scenario)
            refs == AllCardRefs(scenario)
            players == [p \in Player |-> BuiltPlayer(p, scenario.players[p])]
<1>1. /\ IsInjective([i \in DOMAIN refs |-> refs[i].instance])
      /\ \A p \in Player : BoardFault(faces, scenario.players[p]) = NoFault
  BY SoundScenario
<1>2. refs = StateCards(state, "One") \o StateCards(state, "Two")
  <2>1. /\ StateCards(state, "One") = PlayerCardRefs(scenario.players["One"])
        /\ StateCards(state, "Two") = PlayerCardRefs(scenario.players["Two"])
    BY SameRefs DEF Player
  <2>. HIDE DEF state
  <2>. QED  BY <2>1 DEF AllCardRefs
<1>3. /\ state.players = players /\ state.promotes = DerivedPending(players)
  BY DEF FromScenario
<1>4. \A p \in Player, q \in Position :
        state.players[p].summons[q] = {BuiltSummon(p, s) : s \in scenario.players[p].summons[q]}
  BY <1>3 DEF BuiltPlayer
<1>. HIDE DEF state, refs, players
<1>5. ASSUME NEW p \in Player
      PROVE  /\ \A q \in Position : \A s \in scenario.players[p].summons[q] :
                  ChainFault(faces, s.chain) = NoFault
             /\ \E q \in Position : scenario.players[p].summons[q] # Absent
  BY <1>1, SoundBoard
<1>6. ASSUME NEW p \in Player, NEW q \in Position, NEW s \in state.players[p].summons[q]
      PROVE  /\ s.owner = p /\ s.chain # <<>>
             /\ \A i \in DOMAIN s.chain : faces[s.chain[i].def].kind = "Summon"
  <2>1. PICK t \in scenario.players[p].summons[q] : s = BuiltSummon(p, t)
    BY <1>4
  <2>2. s.owner = p /\ s.chain = t.chain
    BY <2>1 DEF BuiltSummon
  <2>. QED  BY <1>5, <2>2, SoundChain
<1>7. ASSUME NEW p \in Player
      PROVE  \E q \in Position : state.players[p].summons[q] # Absent
  BY <1>4, <1>5 DEF Absent
<1>8. /\ \A p \in Player : p \in state.promotes => state.players[p].summons[Main] = Absent
      /\ state.promotes = Absent => \A p \in Player : state.players[p].summons[Main] # Absent
  BY <1>3 DEF DerivedPending, Player, Given, Absent
<1>9. IsInjective([i \in DOMAIN (StateCards(state, "One") \o StateCards(state, "Two")) |->
                     (StateCards(state, "One") \o StateCards(state, "Two"))[i].instance])
  BY <1>1, <1>2
<1>. QED  BY <1>6, <1>7, <1>8, <1>9 DEF CanStart, state


-----------------------------------------------------------------------------
(* Openings.                                                               *)

\* Every card of a seat has an instance of its own, from the seat's range.
LEMMA DealtInstances ==
  ASSUME NEW deck, NEW first \in Nat, NEW order
  PROVE  /\ \A k \in 1 .. BodySize + 1 :
              DealtCard(deck, first, order, k).instance \in first .. (first + BodySize)
         /\ \A j, k \in 1 .. BodySize + 1 :
              DealtCard(deck, first, order, j).instance = DealtCard(deck, first, order, k).instance
                => j = k
<1>. DEFINE N == BodySize
            instance(k) == DealtCard(deck, first, order, k).instance
<1>1. N \in Nat
  BY DealNumbers
<1>2. \A k \in 1 .. N : instance(k) = first + DealtFrom(k) /\ DealtFrom(k) \in 1 .. N
  BY <1>1, DealtOnce DEF DealtCard
<1>3. instance(N + 1) = first
  BY <1>1 DEF DealtCard
<1>4. \A j, k \in 1 .. N : DealtFrom(j) = DealtFrom(k) => j = k
  BY DealtOnce
<1>. HIDE DEF instance, N
<1>5. \A k \in 1 .. N + 1 : instance(k) \in first .. (first + N)
  BY <1>1, <1>2, <1>3
<1>6. ASSUME NEW j \in 1 .. N + 1, NEW k \in 1 .. N + 1, instance(j) = instance(k)
      PROVE  j = k
  <2>1. CASE j = N + 1 /\ k = N + 1
    BY <2>1
  <2>2. CASE j \in 1 .. N /\ k = N + 1
    BY <1>1, <1>2, <1>3, <1>6, <2>2
  <2>3. CASE j = N + 1 /\ k \in 1 .. N
    BY <1>1, <1>2, <1>3, <1>6, <2>3
  <2>4. CASE j \in 1 .. N /\ k \in 1 .. N
    <3>1. DealtFrom(j) = DealtFrom(k)
      <4>1. /\ first + DealtFrom(j) = first + DealtFrom(k)
            /\ DealtFrom(j) \in 1 .. N /\ DealtFrom(k) \in 1 .. N
        BY <1>2, <1>6, <2>4
      <4>. QED  BY <1>1, <4>1
    <3>. QED  BY <1>4, <2>4, <3>1
  <2>. QED  BY <1>1, <2>1, <2>2, <2>3, <2>4
<1>. QED  BY <1>5, <1>6 DEF instance, N

\* Two seats, two ranges: no card is in two places.
LEMMA OpeningIsAccepted ==
  ASSUME NEW faces, NEW decks, NEW orders,
         \A p \in Player : Playable(decks[p], faces) /\ orders[p] \in Shuffles
  PROVE  LET scenario == OpeningScenario(decks, orders)
         IN /\ \A p \in Player : Stood(scenario.players[p])
            /\ ScenarioFault(faces, scenario) = NoFault
<1>. DEFINE scenario == OpeningScenario(decks, orders)
            W == DOMAIN faces
            Cards == [instance : Nat, def : W]
            N == BodySize
            player(p) == scenario.players[p]
            dealt(p, k) == DealtCard(decks[p], NextInstance(p), orders[p], k)
            one == PlayerCardRefs(player("One"))
            two == PlayerCardRefs(player("Two"))
            refs == one \o two
<1>1. N \in Nat
  BY DealNumbers
<1>2. \A p \in Player : player(p) = Deal(decks[p], NextInstance(p), orders[p])
  BY DEF OpeningScenario
<1>3. NextInstance("One") = 1 /\ NextInstance("Two") = N + 2 /\ {"One", "Two"} = Player
  BY DEF NextInstance, Player
<1>4. refs = AllCardRefs(scenario)
  BY DEF AllCardRefs
<1>. HIDE DEF scenario
<1>5. ASSUME NEW p \in Player
      PROVE  /\ Stood(player(p))
             /\ BoardFault(faces, player(p)) = NoFault
  <2>. DEFINE card == [instance |-> NextInstance(p), def |-> decks[p].starter]
              summon == [chain |-> <<card>>, damage |-> 0, readiness |-> "Exhausted"]
  <2>1. /\ player(p).summons[Main] = Given(summon)
        /\ \A q \in Position \ {Main} : player(p).summons[q] = Absent
    <3>1. player(p) = Deal(decks[p], NextInstance(p), orders[p])
      BY <1>2
    <3>. HIDE DEF player
    <3>. QED  BY <3>1, DealtChains
  <2>2. summon.chain = <<card>> /\ card.def = decks[p].starter
    OBVIOUS
  <2>3. faces[card.def].kind = "Summon" /\ faces[card.def].form = FormRank["Base"]
    BY <2>2 DEF Playable
  <2>. HIDE DEF player, summon, card
  <2>4. Stood(player(p))
    BY <2>1, Zenon DEF Stood
  <2>5. ChainFault(faces, summon.chain) = NoFault
    BY <2>2, <2>3, SingleBase
  <2>6. \A q \in Position : \A s \in player(p).summons[q] : ChainFault(faces, s.chain) = NoFault
    <3>1. \A q \in Position : \A s \in player(p).summons[q] : s = summon
      BY <2>1 DEF Given, Absent
    <3>. QED  BY <2>5, <3>1, Zenon
  <2>7. Main \in Position /\ player(p).summons[Main] # Absent
    BY <2>1, TheGiven DEF Position
  <2>8. BoardFault(faces, player(p)) = NoFault
    BY <2>4, <2>6, <2>7, SoundBoard
  <2>. QED  BY <2>4, <2>8
<1>6. ASSUME NEW p \in Player
      PROVE  /\ PlayerCardRefs(player(p)) \in Seq(Cards)
             /\ Len(PlayerCardRefs(player(p))) = N + 1
             /\ \A k \in 1 .. N + 1 : PlayerCardRefs(player(p))[k] = dealt(p, k)
  <2>1. /\ decks[p].starter \in W /\ decks[p].body \in Seq(W) /\ Len(decks[p].body) = BodySize
        /\ NextInstance(p) \in Nat /\ orders[p] \in Shuffles
    BY <1>1, <1>3 DEF Playable, NextInstance
  <2>2. player(p) = Deal(decks[p], NextInstance(p), orders[p])
    BY <1>2
  <2>. DEFINE deck == decks[p]
              first == NextInstance(p)
              order == orders[p]
              d == player(p)
  <2>3. /\ deck.starter \in W /\ deck.body \in Seq(W) /\ Len(deck.body) = BodySize
        /\ first \in Nat /\ order \in Shuffles
        /\ d = Deal(deck, first, order) /\ Cards = [instance : Nat, def : W]
    BY <2>1, <2>2
  <2>. HIDE DEF player, W, Cards, deck, first, order, d
  <2>4. Holds(d, Cards, deck, first, order)
    BY <2>3, DealtCards
  <2>. QED  BY <2>4 DEF Holds, deck, first, order, d
<1>. HIDE DEF player
<1>7. /\ one \in Seq(Cards) /\ Len(one) = N + 1
      /\ \A k \in 1 .. N + 1 : one[k] = dealt("One", k)
  BY <1>3, <1>6
<1>8. /\ two \in Seq(Cards) /\ Len(two) = N + 1
      /\ \A k \in 1 .. N + 1 : two[k] = dealt("Two", k)
  BY <1>3, <1>6
<1>9. \A c \in Cards : c.def \in W
  OBVIOUS
<1>10. /\ \A k \in 1 .. N + 1 : dealt("One", k).instance \in 1 .. N + 1
       /\ \A j, k \in 1 .. N + 1 :
            dealt("One", j).instance = dealt("One", k).instance => j = k
  <2>1. 1 \in Nat /\ 1 + N = N + 1
    BY <1>1
  <2>. QED  BY <1>3, <2>1, DealtInstances
<1>11. /\ \A k \in 1 .. N + 1 : dealt("Two", k).instance \in N + 2 .. (N + 2 + N)
       /\ \A j, k \in 1 .. N + 1 :
            dealt("Two", j).instance = dealt("Two", k).instance => j = k
  <2>1. N + 2 \in Nat
    BY <1>1
  <2>. QED  BY <1>3, <2>1, DealtInstances
<1>. HIDE DEF one, two, refs, Cards, W, dealt, N
<1>12. LaidOut(refs, Cards, one, two)
  BY <1>7, <1>8, LaidEndToEnd, Zenon DEF refs
<1>13. /\ refs \in Seq(Cards) /\ Len(refs) = (N + 1) + (N + 1)
       /\ \A k \in 1 .. N + 1 : refs[k] = one[k]
       /\ \A k \in 1 .. N + 1 : refs[(N + 1) + k] = two[k]
  BY <1>7, <1>8, <1>12 DEF LaidOut
<1>14. DOMAIN refs = 1 .. (N + 1) + (N + 1) /\ \A i \in DOMAIN refs : refs[i] \in Cards
  BY <1>13
<1>15. \A i \in DOMAIN refs : refs[i].def \in DOMAIN faces
  <2>1. \A i \in DOMAIN refs : refs[i].def \in W
    BY <1>9, <1>14, Zenon
  <2>. QED  BY <2>1 DEF W
<1>16. \A i \in DOMAIN refs :
         \/ i \in 1 .. N + 1 /\ refs[i] = dealt("One", i)
         \/ i - (N + 1) \in 1 .. N + 1 /\ refs[i] = dealt("Two", i - (N + 1))
  <2>. SUFFICES ASSUME NEW i \in DOMAIN refs
                PROVE  \/ i \in 1 .. N + 1 /\ refs[i] = dealt("One", i)
                       \/ i - (N + 1) \in 1 .. N + 1 /\ refs[i] = dealt("Two", i - (N + 1))
    OBVIOUS
  <2>1. CASE i \in 1 .. N + 1
    BY <1>7, <1>13, <2>1, Zenon
  <2>2. CASE i \notin 1 .. N + 1
    <3>1. i - (N + 1) \in 1 .. N + 1 /\ (N + 1) + (i - (N + 1)) = i
      BY <1>1, <1>14, <2>2
    <3>2. refs[(N + 1) + (i - (N + 1))] = two[i - (N + 1)]
      BY <1>13, <3>1, Zenon
    <3>. QED  BY <1>8, <3>1, <3>2, Zenon
  <2>. QED  BY <2>1, <2>2
<1>17. ASSUME NEW i \in DOMAIN refs, NEW j \in DOMAIN refs,
              refs[i].instance = refs[j].instance
       PROVE  i = j
  <2>. DEFINE h == i - (N + 1)
              k == j - (N + 1)
  <2>1. i \in Nat /\ j \in Nat
    BY <1>1, <1>14
  <2>2. CASE /\ i \in 1 .. N + 1 /\ refs[i] = dealt("One", i)
             /\ j \in 1 .. N + 1 /\ refs[j] = dealt("One", j)
    BY <1>10, <1>17, <2>2, Zenon
  <2>3. CASE /\ i \in 1 .. N + 1 /\ refs[i] = dealt("One", i)
             /\ k \in 1 .. N + 1 /\ refs[j] = dealt("Two", k)
    <3>. HIDE DEF k
    <3>1. refs[i].instance \in 1 .. N + 1 /\ refs[i].instance \in N + 2 .. (N + 2 + N)
      BY <1>10, <1>11, <1>17, <2>3, Zenon
    <3>. QED  BY <1>1, <3>1
  <2>4. CASE /\ h \in 1 .. N + 1 /\ refs[i] = dealt("Two", h)
             /\ j \in 1 .. N + 1 /\ refs[j] = dealt("One", j)
    <3>. HIDE DEF h
    <3>1. refs[i].instance \in 1 .. N + 1 /\ refs[i].instance \in N + 2 .. (N + 2 + N)
      BY <1>10, <1>11, <1>17, <2>4, Zenon
    <3>. QED  BY <1>1, <3>1
  <2>5. CASE /\ h \in 1 .. N + 1 /\ refs[i] = dealt("Two", h)
             /\ k \in 1 .. N + 1 /\ refs[j] = dealt("Two", k)
    <3>1. h = k
      <4>. HIDE DEF h, k
      <4>. QED  BY <1>11, <1>17, <2>5, Zenon
    <3>. QED  BY <1>1, <2>1, <3>1
  <2>. QED  BY <1>16, <2>2, <2>3, <2>4, <2>5, Zenon
<1>18. IsInjective([i \in DOMAIN refs |-> refs[i].instance])
  BY <1>17 DEF IsInjective
<1>19. \A p \in Player : BoardFault(faces, scenario.players[p]) = NoFault
  BY <1>5 DEF player
<1>20. \A p \in Player : Stood(scenario.players[p])
  BY <1>5 DEF player
<1>21. ScenarioFault(faces, scenario) = NoFault
  BY <1>4, <1>15, <1>18, <1>19, <1>20, SoundScenario
<1>. QED  BY <1>20, <1>21 DEF scenario

\* Two lists of the same cards in another order hold as many of each.
LEMMA SameCounts ==
  ASSUME NEW n \in Nat, NEW s, NEW t, DOMAIN s = 1 .. n, DOMAIN t = 1 .. n,
         NEW to \in Injection(1 .. n, 1 .. n), \A k \in 1 .. n : s[k] = t[to[k]],
         NEW x
  PROVE  Count(s, x) = Count(t, x)
<1>. DEFINE A == {i \in DOMAIN s : s[i] = x}
            B == {i \in DOMAIN t : t[i] = x}
            g == [k \in A |-> to[k]]
<1>1. IsFiniteSet(1 .. n)
  BY FS_Interval
<1>2. to \in Surjection(1 .. n, 1 .. n)
  BY <1>1, FS_Injection
<1>3. IsFiniteSet(A)
  <2>1. A \in SUBSET (1 .. n)
    OBVIOUS
  <2>. HIDE DEF A
  <2>. QED  BY <1>1, <2>1, FS_Subset
<1>4. /\ to \in [1 .. n -> 1 .. n] /\ \A a, b \in 1 .. n : to[a] = to[b] => a = b
      /\ \A b \in 1 .. n : \E a \in 1 .. n : to[a] = b
  BY <1>2 DEF Injection, Surjection, IsInjective
<1>5. g \in Bijection(A, B)
  <2>1. \A k \in A : k \in 1 .. n /\ to[k] \in B
    BY <1>4
  <2>2. \A b \in B : \E a \in A : to[a] = b
    BY <1>4
  <2>3. g \in [A -> B] /\ DOMAIN g = A /\ \A k \in A : g[k] = to[k]
    BY <2>1
  <2>. HIDE DEF g, A, B
  <2>4. ASSUME NEW a \in A, NEW b \in A, g[a] = g[b]
        PROVE  a = b
    <3>1. a \in 1 .. n /\ b \in 1 .. n /\ to[a] = to[b]
      BY <2>1, <2>3, <2>4, Zenon
    <3>. QED  BY <1>4, <3>1, Zenon
  <2>5. \A b \in B : \E a \in A : g[a] = b
    BY <2>2, <2>3, Zenon
  <2>. QED  BY <2>3, <2>4, <2>5 DEF Bijection, Injection, Surjection, IsInjective
<1>6. Cardinality(A) = Cardinality(B)
  <2>. HIDE DEF A, B, g
  <2>. QED  BY <1>3, <1>5, FS_Bijection DEF ExistsBijection
<1>. QED  BY <1>6 DEF Count

\* A seat holds the cards of its Deck, each as often.
LEMMA SeatHoldsItsDeck ==
  ASSUME NEW W, NEW deck, deck.starter \in W, deck.body \in Seq(W), Len(deck.body) = BodySize,
         NEW first \in Nat, NEW order \in Shuffles,
         NEW d, d = Deal(deck, first, order)
  PROVE  SameCards(DefsOf(PlayerCardRefs(d)), <<deck.starter>> \o deck.body)
<1>. DEFINE N == BodySize
            Cards == [instance : Nat, def : W]
            refs == PlayerCardRefs(d)
            defs == DefsOf(refs)
            start == <<deck.starter>>
            whole == start \o deck.body
            to == [k \in 1 .. N + 1 |-> IF k = N + 1 THEN 1 ELSE order[DealtFrom(k)] + 1]
<1>1. N \in Nat
  BY DealNumbers
<1>2. /\ \A k \in 1 .. N : DealtFrom(k) \in 1 .. N
      /\ \A j, k \in 1 .. N : DealtFrom(j) = DealtFrom(k) => j = k
  BY DealtOnce
<1>3. /\ \A i \in 1 .. N : order[i] \in 1 .. N
      /\ \A i, j \in 1 .. N : order[i] = order[j] => i = j
  BY DEF Shuffles, IsInjective
<1>4. /\ refs \in Seq(Cards) /\ Len(refs) = N + 1
      /\ \A k \in 1 .. N + 1 : refs[k] = DealtCard(deck, first, order, k)
  <2>. DEFINE C == Cards
  <2>1. C = [instance : Nat, def : W]
    OBVIOUS
  <2>. HIDE DEF C
  <2>2. Holds(d, C, deck, first, order)
    BY <2>1, DealtCards
  <2>. QED  BY <2>2 DEF Holds, C
<1>5. /\ \A k \in 1 .. N : DealtCard(deck, first, order, k).def = deck.body[order[DealtFrom(k)]]
      /\ DealtCard(deck, first, order, N + 1).def = deck.starter
  BY <1>1 DEF DealtCard
<1>6. DOMAIN defs = 1 .. N + 1 /\ \A k \in 1 .. N + 1 : defs[k] = refs[k].def
  <2>. HIDE DEF refs
  <2>. QED  BY <1>1, <1>4 DEF DefsOf
<1>. HIDE DEF refs, defs, N
<1>7. /\ DOMAIN whole = 1 .. N + 1 /\ whole[1] = deck.starter
      /\ \A i \in 1 .. N : whole[i + 1] = deck.body[i]
  <2>. DEFINE body == deck.body
  <2>1. start \in Seq(W) /\ Len(start) = 1 /\ start[1] = deck.starter
    OBVIOUS
  <2>2. body \in Seq(W) /\ Len(body) = N
    BY DEF N
  <2>. HIDE DEF start, body
  <2>3. LaidOut(start \o body, W, start, body)
    BY <2>1, <2>2, LaidEndToEnd, Zenon
  <2>4. /\ whole \in Seq(W) /\ Len(whole) = 1 + N
        /\ \A i \in 1 .. 1 : whole[i] = start[i]
        /\ \A i \in 1 .. N : whole[1 + i] = body[i]
    BY <2>1, <2>2, <2>3 DEF LaidOut, body
  <2>. HIDE DEF whole
  <2>5. DOMAIN whole = 1 .. N + 1 /\ whole[1] = deck.starter
    BY <1>1, <2>1, <2>4
  <2>6. \A i \in 1 .. N : whole[i + 1] = body[i]
    <3>1. \A i \in 1 .. N : i + 1 = 1 + i
      BY <1>1
    <3>. QED  BY <2>4, <3>1, Zenon
  <2>. QED  BY <2>5, <2>6 DEF body
<1>. HIDE DEF whole
<1>8. \A k \in 1 .. N : to[k] = order[DealtFrom(k)] + 1 /\ order[DealtFrom(k)] \in 1 .. N
  BY <1>1, <1>2, <1>3
<1>9. to[N + 1] = 1
  BY <1>1
<1>10. to \in Injection(1 .. N + 1, 1 .. N + 1)
  <2>1. \A k \in 1 .. N + 1 : k \in 1 .. N \/ k = N + 1
    BY <1>1
  <2>2. DOMAIN to = 1 .. N + 1 /\ to = [k \in 1 .. N + 1 |-> to[k]]
    OBVIOUS
  <2>. HIDE DEF to
  <2>3. \A k \in 1 .. N + 1 : to[k] \in 1 .. N + 1
    <3>1. \A i \in 1 .. N : i + 1 \in 1 .. N + 1
      BY <1>1
    <3>2. 1 \in 1 .. N + 1
      BY <1>1
    <3>3. \A k \in 1 .. N : to[k] \in 1 .. N + 1
      BY <1>8, <3>1
    <3>. QED  BY <1>9, <2>1, <3>2, <3>3
  <2>4. ASSUME NEW j \in 1 .. N + 1, NEW k \in 1 .. N + 1, to[j] = to[k]
        PROVE  j = k
    <3>1. CASE j \in 1 .. N /\ k \in 1 .. N
      <4>1. order[DealtFrom(j)] = order[DealtFrom(k)]
        BY <1>1, <1>8, <2>4, <3>1
      <4>. QED  BY <1>2, <1>3, <3>1, <4>1, Zenon
    <3>2. CASE j \in 1 .. N /\ k = N + 1
      BY <1>1, <1>8, <1>9, <2>4, <3>2
    <3>3. CASE j = N + 1 /\ k \in 1 .. N
      BY <1>1, <1>8, <1>9, <2>4, <3>3
    <3>. QED  BY <2>1, <3>1, <3>2, <3>3
  <2>. QED  BY <2>2, <2>3, <2>4 DEF Injection, IsInjective
<1>11. ASSUME NEW k \in 1 .. N + 1
       PROVE  defs[k] = whole[to[k]]
  <2>. HIDE DEF to
  <2>1. CASE k = N + 1
    BY <1>4, <1>5, <1>6, <1>7, <1>9, <2>1, Zenon
  <2>2. CASE k \in 1 .. N
    <3>. DEFINE i == order[DealtFrom(k)]
    <3>1. to[k] = i + 1 /\ i \in 1 .. N
      BY <1>8, <2>2, Zenon
    <3>2. DealtCard(deck, first, order, k).def = deck.body[i]
      BY <1>5, <2>2, Zenon
    <3>3. defs[k] = DealtCard(deck, first, order, k).def
      BY <1>4, <1>6, Zenon
    <3>. HIDE DEF i
    <3>. QED  BY <1>7, <3>1, <3>2, <3>3, Zenon
  <2>. QED  BY <1>1, <2>1, <2>2
<1>. HIDE DEF to
<1>12. \A x : Count(defs, x) = Count(whole, x)
  <2>1. N + 1 \in Nat
    BY <1>1
  <2>. QED  BY <1>6, <1>7, <1>10, <1>11, <2>1, SameCounts
<1>. QED  BY <1>12 DEF SameCards, defs, refs, whole


\* What an opening promises, of the faces, the Decks and the state it gives.
OpensAsPromised(faces, decks, state) ==
  /\ CanStart(faces, state)
  /\ state.promotes = Absent
  /\ \A p \in Player :
       LET player == state.players[p]
           deck == decks[p]
       IN /\ FormOf(faces, [def |-> deck.starter]) = FormRank["Base"]
          /\ SameCards(DefsOf(StateCards(state, p)), <<deck.starter>> \o deck.body)
          /\ DefsOf(The(player.summons[Main]).chain) = <<deck.starter>>
          /\ Len(player.hand) = HandSize /\ Len(player.prizes) = PrizeCount

LEMMA OpeningIsDealt ==
  ASSUME NEW faces, NEW decks, NEW orders,
         \A p \in Player : Playable(decks[p], faces) /\ orders[p] \in Shuffles
  PROVE  LET scenario == OpeningScenario(decks, orders)
         IN /\ ScenarioFault(faces, scenario) = NoFault
            /\ OpensAsPromised(faces, decks, FromScenario(faces, scenario))
<1>. DEFINE scenario == OpeningScenario(decks, orders)
            state == FromScenario(faces, scenario)
            players == [p \in Player |-> BuiltPlayer(p, scenario.players[p])]
<1>1. /\ \A p \in Player : Stood(scenario.players[p])
      /\ ScenarioFault(faces, scenario) = NoFault
  BY OpeningIsAccepted
<1>2. \A p \in Player : scenario.players[p] = Deal(decks[p], NextInstance(p), orders[p])
  BY DEF OpeningScenario
<1>. HIDE DEF scenario
<1>3. CanStart(faces, state)
  BY <1>1, AcceptedCanStart
<1>4. state.players = players /\ state.promotes = DerivedPending(players)
  BY DEF FromScenario
<1>5. \A p \in Player : StateCards(state, p) = PlayerCardRefs(scenario.players[p])
  BY <1>1, SameRefs
<1>. HIDE DEF state
<1>6. ASSUME NEW p \in Player
      PROVE  /\ state.players[p].summons[Main] # Absent
             /\ FormOf(faces, [def |-> decks[p].starter]) = FormRank["Base"]
             /\ SameCards(DefsOf(StateCards(state, p)), <<decks[p].starter>> \o decks[p].body)
             /\ DefsOf(The(state.players[p].summons[Main]).chain) = <<decks[p].starter>>
             /\ Len(state.players[p].hand) = HandSize
             /\ Len(state.players[p].prizes) = PrizeCount
  <2>. DEFINE deck == decks[p]
              first == NextInstance(p)
              order == orders[p]
              d == scenario.players[p]
              player == state.players[p]
              W == DOMAIN faces
              Cards == [instance : Nat, def : W]
              card == [instance |-> first, def |-> deck.starter]
              summon == [chain |-> <<card>>, damage |-> 0, readiness |-> "Exhausted"]
  <2>1. /\ deck.starter \in W /\ deck.body \in Seq(W) /\ Len(deck.body) = BodySize
        /\ faces[deck.starter].kind = "Summon" /\ faces[deck.starter].form = FormRank["Base"]
        /\ first \in Nat /\ order \in Shuffles
    <3>1. Playable(deck, faces) /\ order \in Shuffles
      OBVIOUS
    <3>2. first \in Nat
      BY DealNumbers DEF NextInstance
    <3>. HIDE DEF deck, order, first
    <3>. QED  BY <3>1, <3>2 DEF Playable
  <2>2. d = Deal(deck, first, order) /\ Cards = [instance : Nat, def : W]
    BY <1>2
  <2>3. player = BuiltPlayer(p, d)
    BY <1>4
  <2>4. Deal(deck, first, order).summons[Main] = Given(summon)
    BY DealtChains
  <2>5. summon.chain = <<card>> /\ card.def = deck.starter
    OBVIOUS
  <2>6. FormOf(faces, [def |-> deck.starter]) = FormRank["Base"]
    BY <2>1 DEF FormOf
  <2>. HIDE DEF deck, first, order, d, player, W, Cards, card, summon
  <2>7. SameCards(DefsOf(StateCards(state, p)), <<deck.starter>> \o deck.body)
    <3>1. SameCards(DefsOf(PlayerCardRefs(d)), <<deck.starter>> \o deck.body)
      BY <2>1, <2>2, SeatHoldsItsDeck
    <3>2. StateCards(state, p) = PlayerCardRefs(d)
      BY <1>5 DEF d
    <3>. QED  BY <3>1, <3>2
  <2>8. DealtIn(d, Cards, deck, first, order)
    BY <2>1, <2>2, DealtPiles
  <2>9. Len(player.hand) = HandSize /\ Len(player.prizes) = PrizeCount
    <3>1. player.hand = d.hand /\ player.prizes = d.prizes
      BY <2>3 DEF BuiltPlayer
    <3>. QED  BY <2>8, <3>1 DEF DealtIn
  <2>10. player.summons[Main] = Given(BuiltSummon(p, summon))
    <3>1. player.summons[Main] = {BuiltSummon(p, s) : s \in d.summons[Main]}
      BY <2>3 DEF BuiltPlayer, Position
    <3>. QED  BY <2>2, <2>4, <3>1 DEF Given
  <2>11. The(player.summons[Main]).chain = <<card>> /\ player.summons[Main] # Absent
    <3>1. BuiltSummon(p, summon).chain = <<card>>
      BY <2>5 DEF BuiltSummon
    <3>. QED  BY <2>10, <3>1, TheGiven
  <2>12. DefsOf(<<card>>) = <<deck.starter>>
    <3>1. DefsOf(<<card>>) = [i \in 1 .. 1 |-> <<card>>[i].def]
      BY DEF DefsOf
    <3>2. \A i \in 1 .. 1 : <<card>>[i].def = deck.starter
      BY <2>5
    <3>. QED  BY <3>1, <3>2
  <2>. QED  BY <2>6, <2>7, <2>9, <2>11, <2>12 DEF deck, player
<1>7. state.promotes = Absent
  <2>1. players["One"].summons[Main] # Absent /\ players["Two"].summons[Main] # Absent
    BY <1>4, <1>6 DEF Player
  <2>. HIDE DEF players
  <2>. QED  BY <1>4, <2>1 DEF DerivedPending
<1>8. OpensAsPromised(faces, decks, state)
  BY <1>3, <1>6, <1>7 DEF OpensAsPromised
<1>. QED  BY <1>1, <1>8 DEF scenario, state

-----------------------------------------------------------------------------
(* The Decks and situations that are enumerated.                           *)

LEMMA ExchangedItem ==
  ASSUME NEW items, Recipe(items), NEW v, v.quantity \in Nat
  PROVE  Recipe([items EXCEPT ![1] = v])
<1>. DEFINE other == [items EXCEPT ![1] = v]
<1>1. DOMAIN other = DOMAIN items
  OBVIOUS
<1>2. \A i \in DOMAIN items : other[i] = IF i = 1 THEN v ELSE items[i]
  OBVIOUS
<1>. HIDE DEF other
<1>. QED  BY <1>1, <1>2 DEF Recipe, other

LEMMA FamilyHasRecipes ==
  ASSUME NEW deck, NEW version, NEW id, NEW name, NEW starter, NEW requires, NEW cards,
         deck = [schema_version |-> version, id |-> id, name |-> name, starter |-> starter,
                 requires |-> requires, cards |-> cards],
         Recipe(deck.cards), NEW c \in VariedDecks(deck)
  PROVE  Recipe(c.cards)
<1>. DEFINE pair == <<Copy("foundations", "cinder", 2), Copy("echoes", "ember", 2)>>
<1>1. Recipe(pair)
  BY DEF Recipe, Copy
<1>. HIDE DEF pair
<1>2. ASSUME NEW v, v.quantity \in Nat
      PROVE  Recipe([deck EXCEPT !.cards[1] = v].cards)
  <2>1. [deck EXCEPT !.cards[1] = v].cards = [deck.cards EXCEPT ![1] = v]
    OBVIOUS
  <2>. QED  BY <1>2, <2>1, ExchangedItem
<1>3. \A v : /\ [deck EXCEPT !.schema_version = v].cards = deck.cards
             /\ [deck EXCEPT !.id = v].cards = deck.cards
             /\ [deck EXCEPT !.name = v].cards = deck.cards
             /\ [deck EXCEPT !.starter = v].cards = deck.cards
             /\ [deck EXCEPT !.requires = v].cards = deck.cards
  OBVIOUS
<1>4. \A v, w : [deck EXCEPT !.starter = v, !.cards = w].cards = w
  OBVIOUS
<1>5. \A v \in {Copy("foundations", "blaze", 3), Copy("foundations", "blaze", 0),
                Copy("foundations", "ember", 2), Copy("echoes", "ember", 2),
                Copy("foundations", "spark", 2), Copy("foundations", "ash", 2),
                Copy("foundations", "found:ations", 2), Copy("foundations", "cinder", 1)} :
        v.quantity \in Nat
  BY DEF Copy
<1>6. \/ c = deck \/ \E v : c = [deck EXCEPT !.schema_version = v]
      \/ \E v : c = [deck EXCEPT !.id = v]
      \/ \E v : c = [deck EXCEPT !.name = v]
      \/ \E v : c = [deck EXCEPT !.starter = v]
      \/ \E v : c = [deck EXCEPT !.starter = v, !.cards = pair]
      \/ \E v : c = [deck EXCEPT !.requires = v]
      \/ \E v : v.quantity \in Nat /\ c = [deck EXCEPT !.cards[1] = v]
  BY <1>5 DEF VariedDecks, pair
<1>. QED  BY <1>1, <1>2, <1>3, <1>4, <1>6, Zenon

LEMMA DecksHaveRecipes ==
  ASSUME NEW c \in DealCalls, NEW p \in Player
  PROVE  Recipe(c.decks[p].cards)
<1>1. Recipe(Burning.cards)
  <2>1. Burning.cards = <<Copy("foundations", "blaze", 2), Copy("echoes", "ember", 1),
                          Copy("foundations", "spark", 1)>>
    BY DEF Burning
  <2>. QED  BY <2>1 DEF Recipe, Copy
<1>2. Recipe(Smouldering.cards)
  <2>1. Smouldering.cards = <<Copy("foundations", "blaze", 1), Copy("foundations", "spark", 2),
                              Copy("foundations", "blaze", 1)>>
    BY DEF Smouldering, Burning
  <2>. QED  BY <2>1 DEF Recipe, Copy
<1>3. \A d \in VariedDecks(Burning) : Recipe(d.cards)
  <2>1. PICK starter, requires, cards :
          Burning = [schema_version |-> 1, id |-> "burning", name |-> "Burning",
                     starter |-> starter, requires |-> requires, cards |-> cards]
    BY DEF Burning
  <2>. QED  BY <1>1, <2>1, FamilyHasRecipes
<1>4. \A d \in VariedDecks(Smouldering) : Recipe(d.cards)
  <2>1. PICK starter, requires, cards :
          Burning = [schema_version |-> 1, id |-> "burning", name |-> "Burning",
                     starter |-> starter, requires |-> requires, cards |-> cards]
    BY DEF Burning
  <2>2. PICK first, items :
          Smouldering = [schema_version |-> 1, id |-> "burning", name |-> "Burning",
                         starter |-> first, requires |-> requires, cards |-> items]
    <3>1. PICK first, items : Smouldering = [Burning EXCEPT !.starter = first, !.cards = items]
      BY DEF Smouldering
    <3>. QED  BY <2>1, <3>1
  <2>. QED  BY <1>2, <2>2, FamilyHasRecipes
<1>5. \/ c.decks \in [Player -> {Burning, Smouldering}]
      \/ \E d \in VariedDecks(Burning) : c.decks = [One |-> d, Two |-> Burning]
      \/ \E d \in VariedDecks(Smouldering) : c.decks = [One |-> Burning, Two |-> d]
      \/ c.decks = [q \in Player |-> Burning]
  BY DEF DealCalls
<1>6. CASE c.decks \in [Player -> {Burning, Smouldering}]
  BY <1>1, <1>2, <1>6
<1>7. ASSUME NEW d \in VariedDecks(Burning), c.decks = [One |-> d, Two |-> Burning]
      PROVE  Recipe(c.decks[p].cards)
  BY <1>1, <1>3, <1>7 DEF Player
<1>8. ASSUME NEW d \in VariedDecks(Smouldering), c.decks = [One |-> Burning, Two |-> d]
      PROVE  Recipe(c.decks[p].cards)
  BY <1>1, <1>4, <1>8 DEF Player
<1>9. CASE c.decks = [q \in Player |-> Burning]
  BY <1>1, <1>9
<1>. QED  BY <1>5, <1>6, <1>7, <1>8, <1>9

LEMMA SituationsStand ==
  ASSUME NEW s \in Situations, NEW p \in Player
  PROVE  Stood(s.players[p])
<1>1. ASSUME NEW main, main = Absent \/ \E t : main = Given(t),
             NEW bench, bench = Absent \/ \E t : bench = Given(t), NEW hand
      PROVE  Stood(Situated(main, bench, hand))
  <2>1. \A q \in Position : Situated(main, bench, hand).summons[q] \in {main, bench, Absent}
    BY DEF Situated
  <2>. QED  BY <1>1, <2>1 DEF Stood
<1>2. \A m \in Summoned \cup Reserve : m = Absent \/ \E t : m = Given(t)
  BY DEF Summoned, Reserve
<1>3. \A two \in Opposing : Stood(two)
  <2>1. \A t : Stood(Situated(Given(t), Absent, <<Card(9, "spell")>>))
    BY <1>1
  <2>2. \A t : Stood(Situated(Absent, Given(t), <<>>))
    BY <1>1
  <2>3. Stood(Situated(Absent, Absent, <<Card(8, "base")>>))
    BY <1>1
  <2>. QED  BY <2>1, <2>2, <2>3 DEF Opposing
<1>4. \A m \in Summoned, b \in Reserve : \A h : Stood(Situated(m, b, h))
  BY <1>1, <1>2
<1>5. \E one, two : s.players = [One |-> one, Two |-> two] /\ Stood(one) /\ Stood(two)
  BY <1>3, <1>4 DEF Situations
<1>. QED  BY <1>5 DEF Player

-----------------------------------------------------------------------------
(* Every call.                                                             *)

OpenInv ==
  /\ call.fn = "deal" => \A p \in Player : Recipe(call.decks[p].cards)
  /\ Made("deal") /\ result.fault = NoFault =>
       /\ result.shape = NoFault
       /\ OpensAsPromised(result.faces, result.decks, result.state)
  /\ call.fn = "scenario" => \A p \in Player : Stood(call.scenario.players[p])
  /\ Made("scenario") /\ result.shape = NoFault => CanStart(result.faces, result.state)

LEMMA OpenStarts == Init => OpenInv
<1>. SUFFICES ASSUME Init
              PROVE  OpenInv
  OBVIOUS
<1>1. \A c \in PaymentCalls \cup MuseumCalls : c.fn # "deal" /\ c.fn # "scenario"
  BY DEF PaymentCalls, MuseumCalls, RecordCalls, SearchCalls
<1>2. call.fn = "deal" => call \in DealCalls
  BY <1>1 DEF Init, CardCalls
<1>3. call.fn = "scenario" => call.scenario \in Situations
  <2>1. \A c \in DealCalls : c.fn = "deal"
    BY DEF DealCalls
  <2>. QED  BY <1>1, <2>1 DEF Init, CardCalls
<1>4. ~result.made
  BY DEF Init, NotCalled
<1>. QED  BY <1>2, <1>3, <1>4, DecksHaveRecipes, SituationsStand DEF OpenInv, Made

\* Of accepted Sets and Decks every deal is a match to go on with.
LEMMA DealOpens == OpenInv /\ DealMatch => OpenInv'
<1>. SUFFICES ASSUME OpenInv, DealMatch
              PROVE  OpenInv'
  OBVIOUS
<1>. DEFINE sets == [i \in DOMAIN call.documents |-> LoadedSet(call.documents[i])]
            library == Library(sets)
            fault == OpeningFault(sets, call.decks)
            decks == [p \in Player |-> ResolvedDeck(call.decks[p], library)]
            opening(one, two) == OpeningScenario(decks, [One |-> one, Two |-> two])
            shape(one, two) == ScenarioFault(library.faces, opening(one, two))
            state(one, two) == FromScenario(library.faces, opening(one, two))
<1>1. call.fn = "deal" /\ call' = call /\ \A p \in Player : Recipe(call.decks[p].cards)
  BY DEF DealMatch, OpenInv, Returns
<1>2. ASSUME fault # NoFault
      PROVE  OpenInv'
  <2>1. Returns([fault |-> fault, shape |-> NoFault])
    BY <1>2 DEF DealMatch
  <2>. HIDE DEF fault
  <2>2. result'.fault # NoFault
    BY <1>2, <2>1 DEF Returns
  <2>. QED  BY <1>1, <2>2 DEF OpenInv, Made
<1>3. ASSUME fault = NoFault
      PROVE  OpenInv'
  <2>1. PICK one \in Shuffles, two \in SomeShuffles :
          Returns([ fault |-> NoFault, shape |-> shape(one, two), decks |-> decks,
                    faces |-> library.faces,
                    state |-> IF shape(one, two) # NoFault THEN "none" ELSE state(one, two) ])
    BY <1>3 DEF DealMatch
  <2>2. \A p \in Player : DeckFault(call.decks[p], library) = NoFault
    <3>. DEFINE checks == << DeckFault(call.decks["One"], library),
                             DeckFault(call.decks["Two"], library) >>
    <3>1. FirstFault(checks) = NoFault
      BY <1>3 DEF OpeningFault
    <3>2. DOMAIN checks = 1 .. 2
      OBVIOUS
    <3>3. checks[1] = NoFault /\ checks[2] = NoFault
      <4>. HIDE DEF checks
      <4>. QED  BY <3>1, <3>2, NothingSaid
    <3>. QED  BY <3>3 DEF Player
  <2>3. \A p \in Player : Playable(decks[p], library.faces)
    <3>. SUFFICES ASSUME NEW p \in Player
                  PROVE  Playable(decks[p], library.faces)
      OBVIOUS
    <3>1. decks[p] = ResolvedDeck(call.decks[p], library)
      OBVIOUS
    <3>. DEFINE deck == call.decks[p]
    <3>2. Recipe(deck.cards) /\ DeckFault(deck, Library(sets)) = NoFault
      BY <1>1, <2>2
    <3>. HIDE DEF deck, sets
    <3>3. Playable(ResolvedDeck(deck, Library(sets)), Library(sets).faces)
      BY <3>2, AcceptedDeckIsPlayable
    <3>. QED  BY <3>1, <3>3 DEF deck
  <2>. DEFINE orders == [One |-> one, Two |-> two]
  <2>4. \A p \in Player : orders[p] \in Shuffles
    BY DEF SomeShuffles, Player
  <2>. HIDE DEF decks, orders, library
  <2>5. /\ shape(one, two) = NoFault
        /\ OpensAsPromised(library.faces, decks, state(one, two))
    <3>1. opening(one, two) = OpeningScenario(decks, orders)
      BY DEF orders
    <3>. QED  BY <2>3, <2>4, <3>1, OpeningIsDealt
  <2>. HIDE DEF shape, state
  <2>6. /\ result'.shape = NoFault /\ result'.decks = decks
        /\ result'.faces = library.faces /\ result'.state = state(one, two)
    BY <2>1, <2>5 DEF Returns
  <2>. QED  BY <1>1, <2>5, <2>6 DEF OpenInv, Made
<1>. QED  BY <1>2, <1>3

LEMMA OpenGoesOn == OpenInv /\ [Next]_vars => OpenInv'
<1>. SUFFICES ASSUME OpenInv, [Next]_vars
              PROVE  OpenInv'
  OBVIOUS
<1>1. CASE UNCHANGED vars
  BY <1>1 DEF OpenInv, vars, Made
<1>2. CASE DealMatch
  BY <1>2, DealOpens
<1>3. CASE ParseScenario
  <2>. DEFINE shape == ScenarioFault(Pool, call.scenario)
  <2>1. /\ call.fn = "scenario" /\ call' = call
        /\ Returns([ fault |-> shape, shape |-> shape, faces |-> Pool,
                     state |-> IF shape # NoFault THEN "none"
                               ELSE FromScenario(Pool, call.scenario) ])
    BY <1>3 DEF ParseScenario, Returns
  <2>2. \A p \in Player : Stood(call.scenario.players[p])
    BY <2>1 DEF OpenInv
  <2>3. shape = NoFault => CanStart(Pool, FromScenario(Pool, call.scenario))
    BY <2>2, AcceptedCanStart
  <2>. HIDE DEF shape
  <2>4. /\ result'.shape = shape /\ result'.faces = Pool
        /\ shape = NoFault => result'.state = FromScenario(Pool, call.scenario)
    BY <2>1 DEF Returns
  <2>. QED  BY <2>1, <2>2, <2>3, <2>4 DEF OpenInv, Made
<1>4. ASSUME Next, ~DealMatch, ~ParseScenario
      PROVE  OpenInv'
  <2>1. UNCHANGED call /\ call.fn # "deal" /\ call.fn # "scenario"
    BY <1>4 DEF Next, Deduct, ReadRecord, SearchMuseums, LoadSet, Returns
  <2>. QED  BY <2>1 DEF OpenInv, Made
<1>. QED  BY <1>1, <1>2, <1>3, <1>4

LEMMA OpenedAsPromised == OpenInv => DealtMatchesStart
BY DEF OpenInv, DealtMatchesStart, OpensAsPromised

(***************************************************************************)
(* crates/cards/src/deck.rs, crates/cli/src/setup.rs and                   *)
(* crates/core/src/scenario.rs: whatever Decks are accepted and however    *)
(* they are shuffled, from_scenario accepts what is dealt, the seats hold  *)
(* the cards of their Decks, each as often, in a full hand, the Prizes and *)
(* the rest around the Base Starter of the Deck, and nobody has to promote; *)
(* and the engine can go on from any other situation it accepts.           *)
(***************************************************************************)
THEOREM DealtMatchesStartAlways == Spec => []DealtMatchesStart
<1>1. Spec => []OpenInv
  BY OpenStarts, OpenGoesOn, PTL DEF Spec
<1>. QED  BY <1>1, OpenedAsPromised, PTL

-----------------------------------------------------------------------------
(* Searches.  Each museum counts its pages its own way; all of them are    *)
(* PageSize records long and follow one another.                           *)

LEMMA PagesAdd ==
  ASSUME NEW n \in Nat
  PROVE  /\ n * PageSize \in Nat /\ (n + 1) * PageSize = n * PageSize + PageSize
         /\ PageSize \in Nat /\ PageSize >= 1 /\ 0 * PageSize = 0
         /\ n >= 1 => n * PageSize >= 1
BY PageSizeAssumption

LEMMA PagesGrow ==
  ASSUME NEW a \in Nat, NEW b \in Nat, a <= b
  PROVE  a * PageSize <= b * PageSize
<1>1. PICK d \in Nat : b = a + d
  <2>1. b - a \in Nat /\ b = a + (b - a)
    OBVIOUS
  <2>. QED  BY <2>1
<1>2. (a + d) * PageSize = a * PageSize + d * PageSize
  BY PageSizeAssumption
<1>3. d * PageSize \in Nat /\ a * PageSize \in Nat
  BY PagesAdd
<1>. QED  BY <1>1, <1>2, <1>3

\* How many pages a list has.
LEMMA PageCount ==
  ASSUME NEW len \in Nat, NEW k \in Nat
  PROVE  LET total == (len + PageSize - 1) \div PageSize IN
         /\ total \in Nat
         /\ k < total <=> k * PageSize < len
<1>. DEFINE total == (len + PageSize - 1) \div PageSize
            most == len + PageSize - 1
<1>1. most \in Nat /\ PageSize \in Nat /\ PageSize > 0
  BY PageSizeAssumption
<1>2. total \in Nat /\ total * PageSize <= most /\ most < (total + 1) * PageSize
  <2>. HIDE DEF most
  <2>1. LET q == most \div PageSize IN
        q \in Nat /\ q * PageSize <= most /\ most < (q + 1) * PageSize
    BY <1>1
  <2>. QED  BY <2>1 DEF most
<1>. HIDE DEF total
<1>3. k < total => k * PageSize < len
  <2>. SUFFICES ASSUME k < total
                PROVE  k * PageSize < len
    OBVIOUS
  <2>1. k + 1 \in Nat /\ k + 1 <= total
    BY <1>2
  <2>2. (k + 1) * PageSize <= total * PageSize
    BY <1>2, <2>1, PagesGrow
  <2>. QED  BY <1>1, <1>2, <2>2, PagesAdd
<1>4. ~(k < total) => ~(k * PageSize < len)
  <2>. SUFFICES ASSUME total <= k
                PROVE  ~(k * PageSize < len)
    BY <1>2
  <2>1. total * PageSize <= k * PageSize
    BY <1>2, PagesGrow
  <2>. QED  BY <1>1, <1>2, <2>1, PagesAdd
<1>. QED  BY <1>2, <1>3, <1>4 DEF total

\* A page of a list.
LEMMA SliceOfList ==
  ASSUME NEW R, NEW list \in Seq(R), NEW skip \in Nat, skip <= Len(list)
  PROVE  LET end == IF skip + PageSize <= Len(list) THEN skip + PageSize ELSE Len(list) IN
         /\ Slice(list, skip) \in Seq(R) /\ Len(Slice(list, skip)) = end - skip
         /\ \A i \in 1 .. end - skip : Slice(list, skip)[i] = list[skip + i]
<1>. DEFINE end == IF skip + PageSize <= Len(list) THEN skip + PageSize ELSE Len(list)
            s == SubSeq(list, skip + 1, end)
<1>1. PageSize \in Nat /\ Len(list) \in Nat
  BY PageSizeAssumption
<1>2. Slice(list, skip) = s
  BY DEF Slice, Least
<1>3. end \in Nat /\ skip <= end /\ end <= Len(list) /\ skip + 1 \in Nat
  BY <1>1
<1>. HIDE DEF end
<1>4. \A i \in skip + 1 .. end : list[i] \in R
  <2>1. \A i \in skip + 1 .. end : i \in 1 .. Len(list)
    BY <1>1, <1>3
  <2>. QED  BY <2>1
<1>5. s = [i \in 1 .. end - skip |-> list[skip + i]]
  BY <1>3
<1>6. s \in [1 .. end - skip -> R]
  <2>1. \A i \in 1 .. end - skip : skip + i \in skip + 1 .. end
    BY <1>3
  <2>. QED  BY <1>4, <1>5, <2>1
<1>7. end - skip \in Nat
  BY <1>3
<1>. HIDE DEF s
<1>8. s \in Seq(R) /\ Len(s) = end - skip
  BY <1>6, <1>7, FunctionsAreSequences
<1>. QED  BY <1>2, <1>5, <1>8 DEF end


\* The cursor after n pages, and the answer to it.
CursorAt(source, n) ==
  IF n = 0 THEN NoCursor ELSE IF source = "aic" THEN n + 1 ELSE n * PageSize
NextAt(source, list, n) ==
  IF (n + 1) * PageSize < Len(list) THEN CursorAt(source, n + 1) ELSE NoCursor
AnswerTo(source, list, culture, cursor) ==
  ParseSearch(source, Reply(source, list, SearchRequest(source, culture, cursor).place), cursor)
GivesPage(source, list, culture, n) ==
  /\ CursorAt(source, n) \in Nat /\ ValidCursor(source, CursorAt(source, n))
  /\ AnswerTo(source, list, culture, CursorAt(source, n))
       = Page(Slice(list, n * PageSize), NextAt(source, list, n))
OnTheWay(list, n) == n = 0 \/ n * PageSize < Len(list)

LEMMA Cursors ==
  ASSUME NEW source, NEW n \in Nat
  PROVE  /\ CursorAt(source, n) \in Nat /\ ValidCursor(source, CursorAt(source, n))
         /\ CursorAt(source, n) # BadCursor /\ CursorAt(source, n + 1) # NoCursor
         /\ CursorAt(source, n) = NoCursor <=> n = 0
         /\ source # "aic" =>
              /\ CursorAt(source, n) = n * PageSize
              /\ CursorAt(source, n + 1) = (n + 1) * PageSize
<1>. DEFINE place == n * PageSize
            next == (n + 1) * PageSize
<1>1. /\ place \in Nat /\ next \in Nat /\ next # 0
      /\ IF n = 0 THEN place = 0 ELSE place # 0
  <2>1. /\ place \in Nat /\ (n >= 1 => place >= 1)
        /\ n = 0 => place = 0
    BY PagesAdd
  <2>2. next \in Nat /\ next >= 1
    <3>1. n + 1 \in Nat /\ n + 1 >= 1
      OBVIOUS
    <3>. QED  BY <3>1, PagesAdd
  <2>. HIDE DEF place, next
  <2>. QED  BY <2>1, <2>2
<1>2. /\ CursorAt(source, n) = IF n = 0 THEN 0 ELSE IF source = "aic" THEN n + 1 ELSE place
      /\ CursorAt(source, n + 1) = IF source = "aic" THEN n + 1 + 1 ELSE next
  BY DEF CursorAt, NoCursor
<1>. HIDE DEF place, next
<1>3. CursorAt(source, n) \in Nat /\ CursorAt(source, n + 1) # 0
  BY <1>1, <1>2
<1>4. CursorAt(source, n) # BadCursor /\ ValidCursor(source, CursorAt(source, n))
  BY <1>3 DEF ValidCursor, BadCursor
<1>5. CursorAt(source, n) = 0 <=> n = 0
  BY <1>1, <1>2
<1>6. source # "aic" => CursorAt(source, n) = place /\ CursorAt(source, n + 1) = next
  BY <1>1, <1>2
<1>. QED  BY <1>3, <1>4, <1>5, <1>6 DEF NoCursor, place, next

\* How much of a list is on the page.
LEMMA OnThePage ==
  ASSUME NEW R, NEW list \in Seq(R), NEW n \in Nat, OnTheWay(list, n)
  PROVE  LET data == Slice(list, n * PageSize) IN
         /\ n * PageSize \in Nat /\ n * PageSize <= Len(list) /\ data \in Seq(R)
         /\ n * PageSize + Len(data) =
              IF (n + 1) * PageSize <= Len(list) THEN (n + 1) * PageSize ELSE Len(list)
         /\ data = <<>> <=> list = <<>>
         /\ \A i \in 1 .. Len(data) : data[i] = list[n * PageSize + i]
<1>. DEFINE skip == n * PageSize
            data == Slice(list, skip)
<1>1. /\ skip \in Nat /\ (n + 1) * PageSize = skip + PageSize /\ PageSize \in Nat /\ PageSize >= 1
      /\ n = 0 => skip = 0
  BY PagesAdd
<1>2. skip <= Len(list) /\ Len(list) \in Nat
  BY <1>1 DEF OnTheWay
<1>. HIDE DEF skip
<1>. DEFINE end == IF skip + PageSize <= Len(list) THEN skip + PageSize ELSE Len(list)
<1>3. /\ data \in Seq(R) /\ Len(data) = end - skip
      /\ \A i \in 1 .. end - skip : data[i] = list[skip + i]
  BY <1>1, <1>2, SliceOfList
<1>. HIDE DEF data
<1>4. Len(data) = 0 <=> Len(list) = 0
  BY <1>1, <1>2, <1>3 DEF OnTheWay, skip
<1>5. data = <<>> <=> list = <<>>
  BY <1>3, <1>4
<1>. QED  BY <1>1, <1>2, <1>3, <1>5 DEF skip, data

LEMMA AicGivesPage ==
  ASSUME NEW R, NEW list \in Seq(R), NEW culture, NEW n \in Nat, OnTheWay(list, n)
  PROVE  GivesPage("aic", list, culture, n)
<1>. DEFINE cursor == CursorAt("aic", n)
            total == (Len(list) + PageSize - 1) \div PageSize
            reply == [ data |-> Slice(list, n * PageSize), current |-> n + 1, total |-> total ]
<1>1. /\ cursor \in Nat /\ ValidCursor("aic", cursor) /\ cursor # BadCursor
      /\ cursor = IF n = 0 THEN NoCursor ELSE n + 1
  BY Cursors DEF CursorAt
<1>2. SearchRequest("aic", culture, cursor).place = n + 1
  BY <1>1 DEF SearchRequest, AicRequest, Asking, NoCursor
<1>3. Reply("aic", list, n + 1) = reply
  <2>1. n + 1 - 1 = n
    OBVIOUS
  <2>. QED  BY <2>1 DEF Reply
<1>4. n + 1 < total <=> (n + 1) * PageSize < Len(list)
  BY PageCount
<1>. HIDE DEF total
<1>5. AicPage(reply) = Page(Slice(list, n * PageSize), NextAt("aic", list, n))
  <2>1. CursorAt("aic", n + 1) = n + 1 + 1
    BY DEF CursorAt
  <2>. QED  BY <1>4, <2>1 DEF AicPage, NextAt
<1>6. AnswerTo("aic", list, culture, cursor) = AicPage(reply)
  BY <1>2, <1>3 DEF AnswerTo, ParseSearch
<1>. QED  BY <1>1, <1>5, <1>6 DEF GivesPage

LEMMA ClevelandGivesPage ==
  ASSUME NEW R, NEW list \in Seq(R), NEW culture, NEW n \in Nat, OnTheWay(list, n)
  PROVE  GivesPage("cleveland", list, culture, n)
<1>. DEFINE cursor == CursorAt("cleveland", n)
            data == Slice(list, n * PageSize)
            reply == [data |-> data, skip |-> n * PageSize, total |-> Len(list)]
<1>1. /\ cursor \in Nat /\ ValidCursor("cleveland", cursor) /\ cursor # BadCursor
      /\ cursor = n * PageSize /\ CursorAt("cleveland", n + 1) = (n + 1) * PageSize
  BY Cursors
<1>2. SearchRequest("cleveland", culture, cursor).place = n * PageSize
  BY <1>1 DEF SearchRequest, ClevelandRequest, Asking
<1>3. Reply("cleveland", list, n * PageSize) = reply
  BY DEF Reply
<1>4. /\ n * PageSize + Len(data) =
           IF (n + 1) * PageSize <= Len(list) THEN (n + 1) * PageSize ELSE Len(list)
      /\ data = <<>> <=> list = <<>>
      /\ (n + 1) * PageSize \in Nat /\ Len(list) \in Nat
      /\ list = <<>> => Len(list) = 0
  BY OnThePage, PagesAdd
<1>. HIDE DEF data
<1>5. ClevelandPage(reply) = Page(data, NextAt("cleveland", list, n))
  <2>. DEFINE place == n * PageSize
              end == (n + 1) * PageSize
              next == place + Len(data)
              left == IF data # <<>> /\ next < Len(list) THEN next ELSE NoCursor
  <2>1. ClevelandPage(reply) = Page(data, left)
    BY <1>1 DEF ClevelandPage
  <2>2. NextAt("cleveland", list, n) = IF end < Len(list) THEN end ELSE NoCursor
    BY <1>1 DEF NextAt
  <2>3. /\ next = IF end <= Len(list) THEN end ELSE Len(list)
        /\ data = <<>> => Len(list) = 0
        /\ end \in Nat /\ Len(list) \in Nat
    BY <1>4
  <2>. HIDE DEF place, end, next
  <2>4. left = IF end < Len(list) THEN end ELSE NoCursor
    BY <2>3
  <2>. QED  BY <2>1, <2>2, <2>4
<1>6. AnswerTo("cleveland", list, culture, cursor) = ClevelandPage(reply)
  BY <1>2, <1>3 DEF AnswerTo, ParseSearch
<1>. QED  BY <1>1, <1>5, <1>6 DEF GivesPage, data

LEMMA MetGivesPage ==
  ASSUME NEW R, NEW list \in Seq(R), NEW culture, NEW n \in Nat, OnTheWay(list, n)
  PROVE  GivesPage("met", list, culture, n)
<1>. DEFINE cursor == CursorAt("met", n)
            data == Slice(list, n * PageSize)
            reply == [data |-> list]
<1>1. /\ cursor \in Nat /\ ValidCursor("met", cursor) /\ cursor # BadCursor
      /\ cursor = n * PageSize /\ CursorAt("met", n + 1) = (n + 1) * PageSize
  BY Cursors
<1>2. Reply("met", list, SearchRequest("met", culture, cursor).place) = reply
  BY DEF Reply
<1>3. /\ (n + 1) * PageSize = n * PageSize + PageSize /\ (n + 1) * PageSize \in Nat
      /\ n * PageSize \in Nat /\ n * PageSize <= Len(list) /\ Len(list) \in Nat
      /\ (data = <<>> <=> list = <<>>) /\ (list = <<>> <=> Len(list) = 0)
      /\ n * PageSize + Len(data) =
           IF (n + 1) * PageSize <= Len(list) THEN (n + 1) * PageSize ELSE Len(list)
  BY OnThePage, PagesAdd
<1>4. MetPage(reply, cursor) = Page(data, NextAt("met", list, n))
  <2>. DEFINE end == Least(cursor + PageSize, Len(list))
  <2>1. data = SubSeq(list, cursor + 1, end)
    BY <1>1 DEF Slice
  <2>2. end = IF (n + 1) * PageSize <= Len(list) THEN (n + 1) * PageSize ELSE Len(list)
    BY <1>1, <1>3 DEF Least
  <2>3. MetPage(reply, cursor) =
          IF cursor >= Len(list) THEN Page(<<>>, NoCursor)
          ELSE Page(SubSeq(list, cursor + 1, end), IF end < Len(list) THEN end ELSE NoCursor)
    BY <1>1 DEF MetPage
  <2>. HIDE DEF data, end, cursor
  <2>4. CASE cursor >= Len(list)
    <3>1. n = 0 /\ Len(list) = 0
      <4>1. ~(n * PageSize < Len(list))
        BY <1>1, <1>3, <2>4
      <4>2. n = 0 /\ n * PageSize = 0
        BY <4>1, PagesAdd DEF OnTheWay
      <4>. QED  BY <1>3, <4>1, <4>2
    <3>2. data = <<>> /\ ~((n + 1) * PageSize < Len(list))
      BY <1>3, <3>1
    <3>. QED  BY <2>3, <2>4, <3>2 DEF NextAt
  <2>5. CASE ~(cursor >= Len(list))
    <3>1. (IF end < Len(list) THEN end ELSE NoCursor) = NextAt("met", list, n)
      BY <1>1, <1>3, <2>2 DEF NextAt
    <3>. QED  BY <2>1, <2>3, <2>5, <3>1
  <2>. QED  BY <2>4, <2>5
<1>5. AnswerTo("met", list, culture, cursor) = MetPage(reply, cursor)
  BY <1>2 DEF AnswerTo, ParseSearch
<1>. QED  BY <1>1, <1>4, <1>5 DEF GivesPage

LEMMA SmithsonianGivesPage ==
  ASSUME NEW R, NEW list \in Seq(R), NEW culture, NEW n \in Nat, OnTheWay(list, n)
  PROVE  GivesPage("smithsonian", list, culture, n)
<1>. DEFINE cursor == CursorAt("smithsonian", n)
            data == Slice(list, n * PageSize)
            reply == [data |-> data, count |-> Len(list)]
<1>1. /\ cursor \in Nat /\ ValidCursor("smithsonian", cursor) /\ cursor # BadCursor
      /\ cursor = n * PageSize /\ CursorAt("smithsonian", n + 1) = (n + 1) * PageSize
  BY Cursors
<1>2. SearchRequest("smithsonian", culture, cursor).place = n * PageSize
  BY <1>1 DEF SearchRequest, SmithsonianRequest, Asking
<1>3. Reply("smithsonian", list, n * PageSize) = reply
  BY DEF Reply
<1>4. /\ n * PageSize + Len(data) =
           IF (n + 1) * PageSize <= Len(list) THEN (n + 1) * PageSize ELSE Len(list)
      /\ data = <<>> <=> list = <<>>
      /\ (n + 1) * PageSize \in Nat /\ Len(list) \in Nat
      /\ list = <<>> => Len(list) = 0
  BY OnThePage, PagesAdd
<1>. HIDE DEF data
<1>5. SmithsonianPage(reply, cursor) = Page(data, NextAt("smithsonian", list, n))
  <2>. DEFINE place == n * PageSize
              end == (n + 1) * PageSize
              next == place + Len(data)
              left == IF data # <<>> /\ next < Len(list) THEN next ELSE NoCursor
  <2>1. SmithsonianPage(reply, cursor) = Page(data, left)
    BY <1>1 DEF SmithsonianPage
  <2>2. NextAt("smithsonian", list, n) = IF end < Len(list) THEN end ELSE NoCursor
    BY <1>1 DEF NextAt
  <2>3. /\ next = IF end <= Len(list) THEN end ELSE Len(list)
        /\ data = <<>> => Len(list) = 0
        /\ end \in Nat /\ Len(list) \in Nat
    BY <1>4
  <2>. HIDE DEF place, end, next
  <2>4. left = IF end < Len(list) THEN end ELSE NoCursor
    BY <2>3
  <2>. QED  BY <2>1, <2>2, <2>4
<1>6. AnswerTo("smithsonian", list, culture, cursor) = SmithsonianPage(reply, cursor)
  BY <1>2, <1>3 DEF AnswerTo, ParseSearch
<1>. QED  BY <1>1, <1>5, <1>6 DEF GivesPage, data

LEMMA CommonsGivesPage ==
  ASSUME NEW R, NEW list \in Seq(R), NEW culture, NEW n \in Nat, OnTheWay(list, n)
  PROVE  GivesPage("wikimedia", list, culture, n)
<1>. DEFINE cursor == CursorAt("wikimedia", n)
            data == Slice(list, n * PageSize)
            next == NextAt("wikimedia", list, n)
            reply == [data |-> data, token |-> "gsroffset", offset |-> next]
<1>1. /\ cursor \in Nat /\ ValidCursor("wikimedia", cursor) /\ cursor # BadCursor
      /\ cursor = n * PageSize /\ CursorAt("wikimedia", n + 1) = (n + 1) * PageSize
  BY Cursors
<1>2. SearchRequest("wikimedia", culture, cursor).place = n * PageSize
  BY <1>1 DEF SearchRequest, CommonsRequest, Asking
<1>3. (n + 1) * PageSize = n * PageSize + PageSize
  BY PagesAdd
<1>4. Reply("wikimedia", list, n * PageSize) = reply
  BY <1>1, <1>3 DEF Reply, NextAt
<1>. HIDE DEF data, next
<1>5. AnswerTo("wikimedia", list, culture, cursor) = Page(data, next)
  BY <1>2, <1>4 DEF AnswerTo, ParseSearch, CommonsPage
<1>. QED  BY <1>1, <1>5 DEF GivesPage, data, next

LEMMA EveryMuseumGivesPage ==
  ASSUME NEW R, NEW source \in SourceKind, NEW list \in Seq(R), NEW culture, NEW n \in Nat,
         OnTheWay(list, n)
  PROVE  GivesPage(source, list, culture, n)
<1>1. source \in {"aic", "cleveland", "met", "smithsonian", "wikimedia"}
  BY SourcesInOrder DEF SourceKind, SourceOrder, ToSet
<1>. QED  BY <1>1, AicGivesPage, ClevelandGivesPage, MetGivesPage, SmithsonianGivesPage,
             CommonsGivesPage


\* The culture is looked for on every page alike.
LEMMA FilterIsFixed ==
  ASSUME NEW source \in SourceKind, NEW culture, NEW cursor
  PROVE  SearchRequest(source, culture, cursor).filter
           = SearchRequest(source, culture, NoCursor).filter
<1>1. source \in {"aic", "cleveland", "met", "smithsonian", "wikimedia"}
  BY SourcesInOrder DEF SourceKind, SourceOrder, ToSet
<1>. QED  BY <1>1 DEF SearchRequest, AicRequest, ClevelandRequest, MetRequest, SmithsonianRequest,
                      CommonsRequest, Asking

\* What a museum has for a search, and what of it n pages show.
Works(R) == {ArtworkOf(s, r.id) : s \in SourceKind, r \in R}
FoundIn(source, list, n) ==
  {a \in Works({list[j] : j \in 1 .. Len(list)}) :
     \E j \in 1 .. Len(list) :
       j <= n * PageSize /\ list[j].accepted /\ a = ArtworkOf(source, list[j].id)}

LEMMA FoundAt ==
  ASSUME NEW source \in SourceKind, NEW list, NEW n, NEW a
  PROVE  a \in FoundIn(source, list, n) <=>
           \E j \in 1 .. Len(list) :
             j <= n * PageSize /\ list[j].accepted /\ a = ArtworkOf(source, list[j].id)
BY DEF FoundIn, Works

LEMMA ResolvedWorks ==
  ASSUME NEW R, NEW data \in Seq(R), NEW source \in SourceKind
  PROVE  /\ Resolved(source, data) \in Seq(Works(R))
         /\ \A a : a \in ToSet(Resolved(source, data)) <=>
              \E i \in 1 .. Len(data) : data[i].accepted /\ a = ArtworkOf(source, data[i].id)
<1>. DEFINE some == {r \in ToSet(data) : r.accepted}
            kept == Kept(data, some)
            works == [i \in DOMAIN kept |-> ArtworkOf(source, kept[i].id)]
            n == Len(kept)
<1>1. Resolved(source, data) = works
  BY DEF Resolved
<1>2. kept \in Seq(R) /\ ToSet(kept) = ToSet(data) \cap some
  BY ElementsKept
<1>3. ToSet(kept) = some
  BY <1>2
<1>. HIDE DEF kept
<1>4. n \in Nat /\ DOMAIN kept = 1 .. n /\ \A i \in 1 .. n : kept[i] \in R
  BY <1>2
<1>5. works \in [1 .. n -> Works(R)]
  BY <1>4 DEF Works
<1>6. works \in Seq(Works(R)) /\ Len(works) = n /\ DOMAIN works = 1 .. n
  BY <1>4, <1>5, FunctionsAreSequences
<1>7. ASSUME NEW a
      PROVE  a \in ToSet(works) <=> \E r \in some : a = ArtworkOf(source, r.id)
  <2>1. a \in ToSet(works) <=> \E i \in 1 .. n : a = ArtworkOf(source, kept[i].id)
    BY <1>4, <1>6 DEF ToSet
  <2>2. \A r : r \in some <=> \E i \in 1 .. n : r = kept[i]
    BY <1>3, <1>4 DEF ToSet
  <2>. QED  BY <2>1, <2>2
<1>8. \A r : r \in some <=> \E i \in 1 .. Len(data) : r = data[i] /\ r.accepted
  <2>1. DOMAIN data = 1 .. Len(data)
    OBVIOUS
  <2>. QED  BY <2>1 DEF ToSet
<1>. HIDE DEF works, some
<1>. QED  BY <1>1, <1>6, <1>7, <1>8

\* One page more shows what is on it; past the end of the list, nothing.
LEMMA PageIsFound ==
  ASSUME NEW R, NEW list \in Seq(R), NEW source \in SourceKind, NEW n \in Nat, OnTheWay(list, n)
  PROVE  LET works == Resolved(source, Slice(list, n * PageSize)) IN
         /\ works \in Seq(Works(R))
         /\ FoundIn(source, list, n + 1) = FoundIn(source, list, n) \cup ToSet(works)
<1>. DEFINE data == Slice(list, n * PageSize)
            skip == n * PageSize
            next == (n + 1) * PageSize
            works == Resolved(source, data)
            Is(a, r) == r.accepted /\ a = ArtworkOf(source, r.id)
<1>1. /\ skip \in Nat /\ data \in Seq(R) /\ \A i \in 1 .. Len(data) : data[i] = list[skip + i]
      /\ skip + Len(data) = IF next <= Len(list) THEN next ELSE Len(list)
      /\ skip <= Len(list)
  BY OnThePage
<1>2. next = skip + PageSize /\ PageSize \in Nat /\ Len(list) \in Nat
  BY PagesAdd
<1>. HIDE DEF data, skip, next
<1>3. /\ works \in Seq(Works(R))
      /\ \A a : a \in ToSet(works) <=> \E i \in 1 .. Len(data) : Is(a, data[i])
  BY <1>1, ResolvedWorks
<1>4. Len(data) \in Nat
  BY <1>1
<1>. HIDE DEF works
<1>5. /\ \A j \in 1 .. Len(list) : j <= next => j <= skip \/ j - skip \in 1 .. Len(data)
      /\ \A i \in 1 .. Len(data) : skip + i \in 1 .. Len(list) /\ skip + i <= next
      /\ \A j \in 1 .. Len(list) : j <= skip => j <= next
  BY <1>1, <1>2, <1>4
<1>6. \A a : a \in ToSet(works) <=> \E i \in 1 .. Len(data) : Is(a, list[skip + i])
  BY <1>1, <1>3
<1>. HIDE DEF Is
<1>7. ASSUME NEW a
      PROVE  (\E j \in 1 .. Len(list) : j <= next /\ Is(a, list[j])) <=>
               \/ \E j \in 1 .. Len(list) : j <= skip /\ Is(a, list[j])
               \/ a \in ToSet(works)
  <2>1. ASSUME NEW j \in 1 .. Len(list), j <= next, Is(a, list[j]), ~(j <= skip)
        PROVE  a \in ToSet(works)
    <3>1. j - skip \in 1 .. Len(data) /\ skip + (j - skip) = j
      BY <1>1, <1>5, <2>1
    <3>. QED  BY <1>6, <2>1, <3>1
  <2>. QED  BY <1>5, <1>6, <2>1
<1>8. \A a : /\ a \in FoundIn(source, list, n) <=>
                  \E j \in 1 .. Len(list) : j <= skip /\ Is(a, list[j])
             /\ a \in FoundIn(source, list, n + 1) <=>
                  \E j \in 1 .. Len(list) : j <= next /\ Is(a, list[j])
  BY FoundAt DEF Is, skip, next
<1>. QED  BY <1>3, <1>7, <1>8 DEF works, data

LEMMA NothingBeyond ==
  ASSUME NEW R, NEW list \in Seq(R), NEW source \in SourceKind, NEW n \in Nat, NEW m \in Nat,
         Len(list) <= n * PageSize, Len(list) <= m * PageSize
  PROVE  FoundIn(source, list, n) = FoundIn(source, list, m)
<1>1. n * PageSize \in Nat /\ m * PageSize \in Nat /\ Len(list) \in Nat
  BY PagesAdd
<1>2. \A j \in 1 .. Len(list) : j <= n * PageSize /\ j <= m * PageSize
  BY <1>1
<1>. QED  BY <1>2 DEF FoundIn

LEMMA NothingBefore ==
  ASSUME NEW R, NEW list \in Seq(R), NEW source
  PROVE  FoundIn(source, list, 0) = {}
<1>1. \A j \in 1 .. Len(list) : ~(j <= 0 * PageSize)
  BY PagesAdd
<1>. QED  BY <1>1 DEF FoundIn

OutcomeAt(source, list, api_key, n) ==
  IF ~IsAvailable(source, api_key) THEN Unavailable(source)
  ELSE Success(source, Resolved(source, Slice(list, n * PageSize)), NextAt(source, list, n))

LEMMA OneIsAnswered ==
  ASSUME NEW R, NEW source \in SourceKind, NEW raw, NEW query, NEW api_key, NEW list \in Seq(R),
         list = Listed(raw, SearchRequest(source, query.culture, NoCursor).filter),
         NEW n \in Nat, OnTheWay(list, n)
  PROVE  SearchOne(source, raw, query, CursorAt(source, n), api_key)
           = OutcomeAt(source, list, api_key, n)
<1>. DEFINE cursor == CursorAt(source, n)
            page == Page(Slice(list, n * PageSize), NextAt(source, list, n))
            asked == SearchRequest(source, query.culture, cursor)
<1>1. ValidCursor(source, cursor) /\ AnswerTo(source, list, query.culture, cursor) = page
  BY EveryMuseumGivesPage DEF GivesPage
<1>2. Listed(raw, asked.filter) = list
  BY FilterIsFixed
<1>3. ParseSearch(source, Reply(source, Listed(raw, asked.filter), asked.place), cursor) = page
  BY <1>1, <1>2 DEF AnswerTo
<1>. HIDE DEF cursor, asked
<1>4. SearchOne(source, raw, query, cursor, api_key) =
        IF ~IsAvailable(source, api_key) THEN Unavailable(source)
        ELSE IF page.kind # "Page" THEN Failed(source)
        ELSE Success(source, Resolved(source, page.candidates), page.next)
  BY <1>1, <1>3 DEF SearchOne, asked
<1>5. /\ page.kind = "Page" /\ page.candidates = Slice(list, n * PageSize)
      /\ page.next = NextAt(source, list, n)
  BY DEF Page
<1>. HIDE DEF page
<1>. QED  BY <1>4, <1>5 DEF cursor, OutcomeAt


(***************************************************************************)
(* A search is a record of the museums' lists, the query and the key.      *)
(***************************************************************************)
IsSearchOf(R, search) ==
  search.lists \in [SourceKind -> Seq(R)] /\ search.query.sources = SourceKind
ListFor(search, s) ==
  Listed(search.lists[s], SearchRequest(s, search.query.culture, NoCursor).filter)
Open(search) == {s \in SourceKind : IsAvailable(s, search.api_key)}
FoundBefore(search, n) == UNION {FoundIn(s, ListFor(search, s), n) : s \in Open(search)}
Refusals(search) == {[kind |-> "Unavailable", source |-> s] : s \in SourceKind \ Open(search)}

\* The session after n batches.
StillAsked(search, n) ==
  {s \in SourceKind : n = 0 \/ (s \in Open(search) /\ n * PageSize < Len(ListFor(search, s)))}
ReadTo(R, search, x, n) ==
  /\ x \in Sessions({search.query}, Works(R))
  /\ x.cursors \in [SourceKind -> Nat]
  /\ x.active = StillAsked(search, n)
  /\ \A s \in x.active : x.cursors[s] = CursorAt(s, n)
  /\ Distinct(x.artworks)
  /\ \A a : a \in x.seen <=> \E i \in 1 .. Len(x.artworks) : x.artworks[i] = a
  /\ x.seen = FoundBefore(search, n)
  /\ Distinct(x.notices)
  /\ ToSet(x.notices) = IF n = 0 THEN {} ELSE Refusals(search)

LEMMA ListsAreLists ==
  ASSUME NEW R, NEW search, IsSearchOf(R, search), NEW s \in SourceKind
  PROVE  /\ ListFor(search, s) \in Seq(R)
         /\ \A r : r \in ToSet(ListFor(search, s)) <=>
              /\ r \in ToSet(search.lists[s])
              /\ LET filter == SearchRequest(s, search.query.culture, NoCursor).filter
                 IN filter.by = "nothing" \/ r.culture = filter.is
<1>. DEFINE list == search.lists[s]
            filter == SearchRequest(s, search.query.culture, NoCursor).filter
            some == {r \in ToSet(list) : filter.by = "nothing" \/ r.culture = filter.is}
<1>1. list \in Seq(R)
  BY DEF IsSearchOf
<1>2. ListFor(search, s) = Kept(list, some)
  BY DEF ListFor, Listed
<1>. HIDE DEF list, filter
<1>3. Kept(list, some) \in Seq(R) /\ ToSet(Kept(list, some)) = ToSet(list) \cap some
  BY <1>1, ElementsKept
<1>. QED  BY <1>2, <1>3 DEF list, filter

LEMMA SearchBegins ==
  ASSUME NEW R, NEW search, IsSearchOf(R, search)
  PROVE  ReadTo(R, search, NewSession(search.query), 0)
<1>. DEFINE x == NewSession(search.query)
            W == Works(R)
<1>1. /\ x.query = search.query /\ x.notices = <<>> /\ x.artworks = <<>> /\ x.seen = {}
      /\ x.active = SourceKind /\ x.cursors = [s \in SourceKind |-> 0]
  BY DEF NewSession, NoCursor, IsSearchOf
<1>2. x \in Sessions({search.query}, W)
  <2>1. search.query.sources = SourceKind
    BY DEF IsSearchOf
  <2>2. [s \in SourceKind |-> NoCursor] \in UNION {[S -> Nat] : S \in SUBSET SourceKind}
    BY DEF NoCursor
  <2>. HIDE DEF W
  <2>. QED  BY <2>1, <2>2 DEF NewSession, Sessions
<1>. HIDE DEF x, W
<1>3. x.active = StillAsked(search, 0) /\ \A s \in x.active : x.cursors[s] = CursorAt(s, 0)
  BY <1>1 DEF StillAsked, CursorAt, NoCursor
<1>4. FoundBefore(search, 0) = {}
  <2>1. \A s \in Open(search) : FoundIn(s, ListFor(search, s), 0) = {}
    BY ListsAreLists, NothingBefore DEF Open
  <2>. QED  BY <2>1 DEF FoundBefore
<1>5. Distinct(x.artworks) /\ Distinct(x.notices) /\ ToSet(x.notices) = {}
  BY <1>1 DEF Distinct, ToSet
<1>6. \A a : a \in x.seen <=> \E i \in 1 .. Len(x.artworks) : x.artworks[i] = a
  BY <1>1
<1>7. x.cursors \in [SourceKind -> Nat]
  BY <1>1
<1>8. ReadTo(R, search, x, 0)
  BY <1>1, <1>2, <1>3, <1>4, <1>5, <1>6, <1>7 DEF ReadTo, W
<1>. QED  BY <1>8 DEF x

\* A museum that is no longer asked has been read to its end, or has refused.
LEMMA AskedNoMore ==
  ASSUME NEW R, NEW search, IsSearchOf(R, search), NEW n \in Nat,
         NEW s \in SourceKind, s \notin StillAsked(search, n)
  PROVE  /\ n # 0 /\ s \notin StillAsked(search, n + 1)
         /\ s \in Open(search) =>
              FoundIn(s, ListFor(search, s), n + 1) = FoundIn(s, ListFor(search, s), n)
<1>. DEFINE list == ListFor(search, s)
<1>1. list \in Seq(R) /\ Len(list) \in Nat
  BY ListsAreLists
<1>. HIDE DEF list
<1>2. /\ n * PageSize \in Nat /\ (n + 1) * PageSize = n * PageSize + PageSize
      /\ PageSize \in Nat /\ n + 1 \in Nat
  BY PagesAdd
<1>3. n # 0 /\ (s \in Open(search) => ~(n * PageSize < Len(list)))
  BY DEF StillAsked, list
<1>4. s \in Open(search) => Len(list) <= n * PageSize /\ Len(list) <= (n + 1) * PageSize
  BY <1>1, <1>2, <1>3
<1>5. s \in Open(search) => FoundIn(s, list, n + 1) = FoundIn(s, list, n)
  BY <1>1, <1>2, <1>4, NothingBeyond
<1>6. s \notin StillAsked(search, n + 1)
  <2>1. s \in Open(search) => ~((n + 1) * PageSize < Len(list))
    BY <1>1, <1>2, <1>4
  <2>2. n + 1 # 0
    OBVIOUS
  <2>. QED  BY <2>1, <2>2 DEF StillAsked, list
<1>. QED  BY <1>3, <1>5, <1>6 DEF list

\* The answers to the next batch.
AnswerOf(search, n, s) == OutcomeAt(s, ListFor(search, s), search.api_key, n)
BatchOf(search, x) == SearchBatch(search.lists, search.query, NextBatch(x), search.api_key)

LEMMA BatchIsAnswered ==
  ASSUME NEW R, NEW search, IsSearchOf(R, search), NEW n \in Nat,
         NEW x, ReadTo(R, search, x, n)
  PROVE  LET c     == NextBatch(x)
             batch == BatchOf(search, x)
         IN /\ batch \in Seq(Outcomes(Works(R))) /\ Len(batch) = Len(c)
            /\ \A i \in 1 .. Len(batch) :
                 /\ batch[i] = AnswerOf(search, n, c[i].source)
                 /\ batch[i].source = c[i].source /\ c[i].source \in x.active
            /\ \A i, j \in 1 .. Len(batch) : batch[i].source = batch[j].source => i = j
            /\ \A s \in x.active : \E i \in 1 .. Len(batch) : c[i].source = s
<1>. DEFINE W == Works(R)
            c == NextBatch(x)
            m == Len(c)
            batch == BatchOf(search, x)
<1>1. /\ c \in Seq(Asked) /\ DOMAIN c = 1 .. m /\ m \in Nat
      /\ \A i \in 1 .. m : c[i].source \in x.active /\ c[i].cursor = x.cursors[c[i].source]
      /\ \A i, j \in 1 .. m : c[i].source = c[j].source => i = j
      /\ \A s \in x.active : \E i \in 1 .. m : c[i].source = s
  <2>1. /\ x \in Sessions({search.query}, Works(R))
        /\ x.active \subseteq SourceKind /\ x.query = search.query /\ x.query.sources = SourceKind
        /\ x.cursors \in [x.query.sources -> Nat]
    BY DEF ReadTo, StillAsked, Sessions, IsSearchOf
  <2>. QED  BY <2>1, NextBatchAsks
<1>. HIDE DEF c
<1>2. batch = [ i \in 1 .. m |->
                  SearchOne(c[i].source, search.lists[c[i].source], search.query, c[i].cursor,
                            search.api_key) ]
  BY <1>1 DEF BatchOf, SearchBatch, c
<1>3. ASSUME NEW i \in 1 .. m
      PROVE  /\ batch[i] = AnswerOf(search, n, c[i].source)
             /\ batch[i] \in Outcomes(W) /\ batch[i].source = c[i].source
  <2>. DEFINE s == c[i].source
              list == ListFor(search, s)
              works == Resolved(s, Slice(list, n * PageSize))
              next == NextAt(s, list, n)
  <2>1. s \in x.active /\ s \in SourceKind /\ c[i].cursor = CursorAt(s, n)
    BY <1>1 DEF ReadTo, StillAsked
  <2>2. list \in Seq(R)
    BY <2>1, ListsAreLists
  <2>3. batch[i] = SearchOne(s, search.lists[s], search.query, CursorAt(s, n), search.api_key)
    BY <1>2, <2>1
  <2>. HIDE DEF s, batch
  <2>4. IsAvailable(s, search.api_key) <=> s \in Open(search)
    BY <2>1 DEF Open
  <2>5. CASE s \in Open(search)
    <3>1. OnTheWay(list, n)
      BY <2>1, <2>5 DEF OnTheWay, ReadTo, StillAsked
    <3>2. batch[i] = Success(s, works, next)
      <4>1. list = Listed(search.lists[s],
                          SearchRequest(s, search.query.culture, NoCursor).filter)
        BY DEF ListFor
      <4>. HIDE DEF list
      <4>2. SearchOne(s, search.lists[s], search.query, CursorAt(s, n), search.api_key)
              = OutcomeAt(s, list, search.api_key, n)
        BY <2>1, <2>2, <3>1, <4>1, OneIsAnswered
      <4>. QED  BY <2>3, <2>4, <2>5, <4>2 DEF OutcomeAt
    <3>3. works \in Seq(W) /\ next \in Nat
      <4>1. works \in Seq(W)
        BY <2>1, <2>2, <3>1, PageIsFound
      <4>2. CursorAt(s, n + 1) \in Nat
        <5>1. n + 1 \in Nat
          OBVIOUS
        <5>. QED  BY <5>1, Cursors
      <4>. QED  BY <4>1, <4>2 DEF NextAt, NoCursor
    <3>4. batch[i] = AnswerOf(search, n, s)
      BY <2>4, <2>5, <3>2 DEF AnswerOf, OutcomeAt
    <3>. HIDE DEF works, next, W
    <3>. QED  BY <2>1, <3>2, <3>3, <3>4 DEF Success, Outcomes, s
  <2>6. CASE s \notin Open(search)
    <3>1. batch[i] = Unavailable(s)
      <4>1. ~IsAvailable(s, search.api_key)
        BY <2>4, <2>6
      <4>. QED  BY <2>3, <4>1 DEF SearchOne
    <3>. QED  BY <2>1, <2>4, <2>6, <3>1 DEF Unavailable, Outcomes, Notice, AnswerOf, OutcomeAt, s
  <2>. QED  BY <2>5, <2>6
<1>4. batch \in Seq(Outcomes(W)) /\ Len(batch) = m
  <2>1. batch \in [1 .. m -> Outcomes(W)]
    BY <1>2, <1>3
  <2>. HIDE DEF batch, W
  <2>. QED  BY <1>1, <2>1, FunctionsAreSequences
<1>. HIDE DEF batch
<1>. QED  BY <1>1, <1>3, <1>4 DEF c, batch


\* A batch moves the museums that were asked by a page.
MovedTo(R, search, x, y, n) ==
  /\ y \in Sessions({search.query}, Works(R)) /\ SameList(x, y)
  /\ y.cursors \in [SourceKind -> Nat]
  /\ y.active = StillAsked(search, n)
  /\ \A s \in y.active : y.cursors[s] = CursorAt(s, n)
  /\ Distinct(y.notices) /\ ToSet(y.notices) = Refusals(search)

LEMMA MuseumsMoveOn ==
  ASSUME NEW R, NEW search, IsSearchOf(R, search), NEW n \in Nat,
         NEW x, ReadTo(R, search, x, n)
  PROVE  MovedTo(R, search, x, Moved(x, BatchOf(search, x)), n + 1)
<1>. DEFINE W == Works(R)
            Q == {search.query}
            c == NextBatch(x)
            batch == BatchOf(search, x)
            m == Len(batch)
            y == Moved(x, batch)
            L(s) == ListFor(search, s)
<1>1. /\ x \in Sessions(Q, W) /\ x.cursors \in [SourceKind -> Nat]
      /\ x.active = StillAsked(search, n) /\ x.active \subseteq SourceKind
      /\ Distinct(x.notices) /\ ToSet(x.notices) = IF n = 0 THEN {} ELSE Refusals(search)
  BY DEF ReadTo, StillAsked
<1>2. /\ batch \in Seq(Outcomes(W)) /\ m \in Nat
      /\ \A i \in 1 .. m : /\ batch[i] = AnswerOf(search, n, c[i].source)
                           /\ batch[i].source = c[i].source /\ c[i].source \in x.active
      /\ \A i, j \in 1 .. m : batch[i].source = batch[j].source => i = j
      /\ \A s \in x.active : \E i \in 1 .. m : c[i].source = s
  <2>1. \A w : w \in Seq(Outcomes(W)) => Len(w) \in Nat
    OBVIOUS
  <2>. HIDE DEF W
  <2>. QED  BY <2>1, BatchIsAnswered DEF W
<1>. HIDE DEF batch, c, m
<1>3. /\ y \in Sessions(Q, W) /\ SameList(x, y) /\ Told(x, y, Said(batch, m))
      /\ \A i \in 1 .. m : Stands(x, y, batch[i])
      /\ \A s \in SourceKind : (\A i \in 1 .. m : batch[i].source # s) => Unmoved(x, y, s)
  <2>1. \A i \in 1 .. m : batch[i].source \in DOMAIN x.cursors
    BY <1>1, <1>2
  <2>. HIDE DEF W, Q
  <2>. QED  BY <1>1, <1>2, <2>1, EachMuseumMoves DEF m
<1>. HIDE DEF y, W, Q, L
<1>4. /\ y.cursors \in [SourceKind -> Nat] /\ y.active \subseteq SourceKind
  BY <1>1, <1>3 DEF SameList, Sessions
<1>5. \A s \in SourceKind :
        /\ Success(s, Resolved(s, Slice(L(s), n * PageSize)), NextAt(s, L(s), n)).kind = "Success"
        /\ Success(s, Resolved(s, Slice(L(s), n * PageSize)), NextAt(s, L(s), n)).next
             = NextAt(s, L(s), n)
        /\ Unavailable(s).kind = "Unavailable"
  BY DEF Success, Unavailable
<1>6. ASSUME NEW s \in SourceKind
      PROVE  /\ s \in y.active <=> s \in StillAsked(search, n + 1)
             /\ s \in y.active => y.cursors[s] = CursorAt(s, n + 1)
  <2>1. CASE s \in x.active
    <3>1. PICK i \in 1 .. m : c[i].source = s
      BY <1>2, <2>1
    <3>2. batch[i] = AnswerOf(search, n, s) /\ batch[i].source = s /\ Stands(x, y, batch[i])
      BY <1>2, <1>3, <3>1
    <3>3. n + 1 # 0 /\ CursorAt(s, n + 1) # NoCursor
      BY Cursors
    <3>4. CASE s \in Open(search)
      <4>1. batch[i].kind = "Success" /\ batch[i].next = NextAt(s, L(s), n)
        BY <1>5, <3>2, <3>4 DEF AnswerOf, OutcomeAt, Open, L
      <4>2. y.cursors[s] = NextAt(s, L(s), n) /\ (s \in y.active <=> NextAt(s, L(s), n) # NoCursor)
        BY <2>1, <3>2, <4>1 DEF Stands
      <4>3. s \in StillAsked(search, n + 1) <=> (n + 1) * PageSize < Len(L(s))
        BY <3>3, <3>4 DEF StillAsked, L
      <4>4. CASE (n + 1) * PageSize < Len(L(s))
        BY <3>3, <4>2, <4>3, <4>4 DEF NextAt
      <4>5. CASE ~((n + 1) * PageSize < Len(L(s)))
        BY <4>2, <4>3, <4>5 DEF NextAt
      <4>. QED  BY <4>4, <4>5
    <3>5. CASE s \notin Open(search)
      <4>1. batch[i].kind # "Success"
        <5>1. ~IsAvailable(s, search.api_key)
          BY <3>5 DEF Open
        <5>. QED  BY <1>5, <3>2, <5>1 DEF AnswerOf, OutcomeAt
      <4>2. s \notin y.active
        BY <3>2, <4>1 DEF Stands
      <4>3. s \notin StillAsked(search, n + 1)
        BY <3>3, <3>5 DEF StillAsked
      <4>. QED  BY <4>2, <4>3
    <3>. QED  BY <3>4, <3>5
  <2>2. CASE s \notin x.active
    <3>0. \A i \in 1 .. m : batch[i].source # s
      BY <1>2, <2>2
    <3>1. Unmoved(x, y, s)
      BY <1>3, <3>0
    <3>2. s \notin StillAsked(search, n + 1)
      BY <1>1, <2>2, AskedNoMore
    <3>. QED  BY <2>2, <3>1, <3>2 DEF Unmoved
  <2>. QED  BY <2>1, <2>2
<1>7. y.active = StillAsked(search, n + 1)
  <2>1. StillAsked(search, n + 1) \subseteq SourceKind
    BY DEF StillAsked
  <2>. QED  BY <1>4, <1>6, <2>1
<1>8. Distinct(y.notices) /\ ToSet(y.notices) = Refusals(search)
  <2>. DEFINE refused(s) == [kind |-> "Unavailable", source |-> s]
  <2>1. \A i \in 1 .. m :
          /\ c[i].source \in Open(search) => Saying(batch[i]) = {}
          /\ c[i].source \notin Open(search) => Saying(batch[i]) = {refused(c[i].source)}
    <3>. SUFFICES ASSUME NEW i \in 1 .. m
                  PROVE  /\ c[i].source \in Open(search) => Saying(batch[i]) = {}
                         /\ c[i].source \notin Open(search) =>
                              Saying(batch[i]) = {refused(c[i].source)}
      OBVIOUS
    <3>. DEFINE s == c[i].source
    <3>1. s \in SourceKind /\ batch[i] = AnswerOf(search, n, s) /\ batch[i].source = s
      BY <1>1, <1>2
    <3>. HIDE DEF s
    <3>2. CASE s \in Open(search)
      <4>1. batch[i].kind = "Success"
        BY <1>5, <3>1, <3>2 DEF AnswerOf, OutcomeAt, Open, L
      <4>. QED  BY <3>2, <4>1 DEF Saying, s
    <3>3. CASE s \notin Open(search)
      <4>1. batch[i].kind = "Unavailable"
        BY <1>5, <3>1, <3>3 DEF AnswerOf, OutcomeAt, Open, L
      <4>2. Saying(batch[i]) = {refused(s)}
        BY <3>1, <4>1 DEF Saying
      <4>. QED  BY <3>3, <4>2 DEF s
    <3>. QED  BY <3>2, <3>3 DEF s
  <2>2. \A a : a \in Said(batch, m) <=>
               \E i \in 1 .. m : c[i].source \notin Open(search) /\ a = refused(c[i].source)
    <3>. HIDE DEF refused
    <3>. QED  BY <2>1 DEF Said
  <2>3. \A a : a \in Refusals(search) <=> \E s \in SourceKind : s \notin Open(search) /\ a = refused(s)
    BY DEF Refusals
  <2>. HIDE DEF refused
  <2>4. \A a \in Said(batch, m) : a \in Refusals(search)
    BY <1>1, <1>2, <2>2, <2>3
  <2>5. CASE n = 0
    <3>1. x.active = SourceKind
      BY <1>1, <2>5 DEF StillAsked
    <3>2. \A a \in Refusals(search) : a \in Said(batch, m)
      BY <1>2, <2>2, <2>3, <3>1
    <3>3. Said(batch, m) = Refusals(search)
      BY <2>4, <3>2
    <3>. QED  BY <1>1, <1>3, <2>5, <3>3 DEF Told
  <2>6. CASE n # 0
    <3>1. ToSet(x.notices) \cup Said(batch, m) = Refusals(search)
      BY <1>1, <2>4, <2>6
    <3>. QED  BY <1>1, <1>3, <3>1 DEF Told
  <2>. QED  BY <2>5, <2>6
<1>9. MovedTo(R, search, x, y, n + 1)
  BY <1>3, <1>4, <1>6, <1>7, <1>8 DEF MovedTo, W, Q
<1>. QED  BY <1>9 DEF y, batch


\* What is merged is the page of every museum that was asked.
LEMMA BatchIsListed ==
  ASSUME NEW R, NEW search, IsSearchOf(R, search), NEW n \in Nat,
         NEW x, ReadTo(R, search, x, n)
  PROVE  LET u == RoundRobinUnique(PagesOf(BatchOf(search, x)), x.seen) IN
         /\ u.merged \in Seq(Works(R)) /\ u.seen \in SUBSET Works(R)
         /\ Distinct(u.merged)
         /\ \A a : a \in u.seen <=> a \in x.seen \/ \E i \in 1 .. Len(u.merged) : u.merged[i] = a
         /\ \A i \in 1 .. Len(u.merged) : u.merged[i] \notin x.seen
         /\ u.seen = FoundBefore(search, n + 1)
<1>. DEFINE W == Works(R)
            c == NextBatch(x)
            batch == BatchOf(search, x)
            m == Len(batch)
            P == PagesOf(batch)
            u == RoundRobinUnique(P, x.seen)
            L(s) == ListFor(search, s)
            shown(s) == Resolved(s, Slice(L(s), n * PageSize))
<1>1. /\ x.seen \in SUBSET W /\ x.active = StillAsked(search, n)
      /\ x.seen = FoundBefore(search, n)
  BY DEF ReadTo, Sessions
<1>2. /\ batch \in Seq(Outcomes(W))
      /\ \A i \in 1 .. m : /\ batch[i] = AnswerOf(search, n, c[i].source)
                           /\ batch[i].source = c[i].source /\ c[i].source \in x.active
      /\ \A i, j \in 1 .. m : batch[i].source = batch[j].source => i = j
      /\ \A s \in x.active : \E i \in 1 .. m : c[i].source = s
  BY BatchIsAnswered
<1>. HIDE DEF batch, c, W
<1>3. /\ P \in [SourceKind -> Seq(W)]
      /\ \A i \in 1 .. m : batch[i].kind = "Success" => P[batch[i].source] = batch[i].artworks
      /\ \A s \in SourceKind : \A j \in 1 .. Len(P[s]) :
           \E i \in 1 .. m : /\ batch[i].kind = "Success" /\ batch[i].source = s
                             /\ P[s][j] \in ToSet(batch[i].artworks)
  BY <1>2, PagesAreAnswers
<1>. HIDE DEF P, m
<1>4. /\ u \in Rounds(W) /\ RoundOk(P, x.seen, u) /\ \A s \in SourceKind : IsSeen(P, u, s)
  BY <1>1, <1>3, RoundRobinIsUnion
<1>. HIDE DEF u, L, shown
<1>5. /\ u.merged \in Seq(W) /\ u.seen \in SUBSET W /\ Distinct(u.merged)
      /\ \A a : a \in u.seen <=> a \in x.seen \/ \E i \in 1 .. Len(u.merged) : u.merged[i] = a
      /\ \A i \in 1 .. Len(u.merged) :
           /\ u.merged[i] \notin x.seen
           /\ \E s \in SourceKind : \E j \in 1 .. Len(P[s]) : P[s][j] = u.merged[i]
  BY <1>4 DEF Rounds, RoundOk
<1>6. \A i \in 1 .. m :
        LET s == c[i].source IN
        /\ s \in Open(search) => batch[i].kind = "Success" /\ batch[i].artworks = shown(s)
        /\ s \notin Open(search) => batch[i].kind # "Success"
  <2>. SUFFICES ASSUME NEW i \in 1 .. m
                PROVE  LET s == c[i].source IN
                       /\ s \in Open(search) =>
                            batch[i].kind = "Success" /\ batch[i].artworks = shown(s)
                       /\ s \notin Open(search) => batch[i].kind # "Success"
    OBVIOUS
  <2>. DEFINE s == c[i].source
  <2>1. batch[i] = AnswerOf(search, n, s) /\ s \in SourceKind
    BY <1>1, <1>2 DEF StillAsked
  <2>. HIDE DEF s
  <2>2. s \in Open(search) => batch[i] = Success(s, shown(s), NextAt(s, L(s), n))
    BY <2>1 DEF AnswerOf, OutcomeAt, Open, L, shown
  <2>3. s \notin Open(search) => batch[i] = Unavailable(s)
    BY <2>1 DEF AnswerOf, OutcomeAt, Open
  <2>. QED  BY <2>2, <2>3 DEF Success, Unavailable, s
<1>7. ASSUME NEW s \in Open(search)
      PROVE  /\ s \in SourceKind
             /\ s \in x.active =>
                  /\ FoundIn(s, L(s), n + 1) = FoundIn(s, L(s), n) \cup ToSet(shown(s))
                  /\ P[s] = shown(s)
             /\ s \notin x.active =>
                  FoundIn(s, L(s), n + 1) = FoundIn(s, L(s), n)
  <2>1. s \in SourceKind /\ L(s) \in Seq(R)
    BY ListsAreLists DEF Open, L
  <2>2. CASE s \in x.active
    <3>1. OnTheWay(L(s), n)
      BY <1>1, <2>2 DEF StillAsked, OnTheWay, L
    <3>2. FoundIn(s, L(s), n + 1) = FoundIn(s, L(s), n) \cup ToSet(shown(s))
      BY <2>1, <3>1, PageIsFound DEF shown
    <3>3. PICK i \in 1 .. m : c[i].source = s
      BY <1>2, <2>2
    <3>4. P[s] = shown(s)
      BY <1>2, <1>3, <1>6, <3>3
    <3>. QED  BY <2>1, <2>2, <3>2, <3>4
  <2>3. CASE s \notin x.active
    <3>1. FoundIn(s, L(s), n + 1) = FoundIn(s, L(s), n)
      BY <1>1, <2>1, <2>3, AskedNoMore DEF L
    <3>. QED  BY <2>1, <2>3, <3>1
  <2>. QED  BY <2>2, <2>3
<1>8. \A k : \A a : a \in FoundBefore(search, k) <=> \E s \in Open(search) : a \in FoundIn(s, L(s), k)
  BY DEF FoundBefore, L
<1>9. ASSUME NEW a \in u.seen
      PROVE  a \in FoundBefore(search, n + 1)
  <2>1. CASE a \in x.seen
    <3>1. PICK s \in Open(search) : a \in FoundIn(s, L(s), n)
      BY <1>1, <1>8, <2>1
    <3>2. a \in FoundIn(s, L(s), n + 1)
      BY <1>7, <3>1
    <3>. QED  BY <1>8, <3>2
  <2>2. CASE a \notin x.seen
    <3>1. PICK k \in 1 .. Len(u.merged) : u.merged[k] = a
      BY <1>5, <1>9, <2>2
    <3>2. PICK s \in SourceKind : \E j \in 1 .. Len(P[s]) : P[s][j] = a
      BY <1>5, <3>1
    <3>3. PICK j \in 1 .. Len(P[s]) : P[s][j] = a
      BY <3>2
    <3>4. PICK i \in 1 .. m : /\ batch[i].kind = "Success" /\ batch[i].source = s
                              /\ a \in ToSet(batch[i].artworks)
      BY <1>3, <3>3
    <3>5. s \in Open(search) /\ s \in x.active /\ a \in ToSet(shown(s))
      BY <1>2, <1>6, <3>4
    <3>. QED  BY <1>7, <1>8, <3>5
  <2>. QED  BY <2>1, <2>2
<1>10. ASSUME NEW a \in FoundBefore(search, n + 1)
       PROVE  a \in u.seen
  <2>1. PICK s \in Open(search) : a \in FoundIn(s, L(s), n + 1)
    BY <1>8, <1>10
  <2>2. CASE a \in FoundIn(s, L(s), n)
    BY <1>1, <1>5, <1>8, <2>2
  <2>3. CASE a \notin FoundIn(s, L(s), n)
    <3>1. s \in SourceKind /\ a \in ToSet(P[s]) /\ P[s] \in Seq(W)
      BY <1>3, <1>7, <2>1, <2>3
    <3>2. \E j \in 1 .. Len(P[s]) : P[s][j] = a
      <4>1. DOMAIN P[s] = 1 .. Len(P[s])
        BY <3>1
      <4>. QED  BY <3>1, <4>1 DEF ToSet
    <3>. QED  BY <1>4, <3>1, <3>2 DEF IsSeen
  <2>. QED  BY <2>2, <2>3
<1>11. u.seen = FoundBefore(search, n + 1)
  BY <1>9, <1>10
<1>. QED  BY <1>5, <1>11 DEF u, P, batch, W

LEMMA SearchGoesOn ==
  ASSUME NEW R, NEW search, IsSearchOf(R, search), NEW n \in Nat,
         NEW x, ReadTo(R, search, x, n)
  PROVE  ReadTo(R, search, MergeBatch(x, BatchOf(search, x)), n + 1)
<1>. DEFINE W == Works(R)
            batch == BatchOf(search, x)
            y == Moved(x, batch)
            u == RoundRobinUnique(PagesOf(batch), x.seen)
            l == x.artworks \o u.merged
            z == MergeBatch(x, batch)
<1>1. /\ x.artworks \in Seq(W) /\ Distinct(x.artworks)
      /\ \A a : a \in x.seen <=> \E i \in 1 .. Len(x.artworks) : x.artworks[i] = a
  BY DEF ReadTo, Sessions
<1>2. /\ y \in Sessions({search.query}, W) /\ SameList(x, y)
      /\ y.cursors \in [SourceKind -> Nat] /\ y.active = StillAsked(search, n + 1)
      /\ \A s \in y.active : y.cursors[s] = CursorAt(s, n + 1)
      /\ Distinct(y.notices) /\ ToSet(y.notices) = Refusals(search)
  <2>1. MovedTo(R, search, x, y, n + 1)
    BY MuseumsMoveOn
  <2>. HIDE DEF y, W
  <2>. QED  BY <2>1 DEF MovedTo, W
<1>3. /\ u.merged \in Seq(W) /\ u.seen \in SUBSET W /\ Distinct(u.merged)
      /\ \A a : a \in u.seen <=> a \in x.seen \/ \E i \in 1 .. Len(u.merged) : u.merged[i] = a
      /\ \A i \in 1 .. Len(u.merged) : u.merged[i] \notin x.seen
      /\ u.seen = FoundBefore(search, n + 1)
  BY BatchIsListed
<1>4. z = [y EXCEPT !.artworks = @ \o u.merged, !.seen = u.seen]
  BY DEF MergeBatch
<1>. HIDE DEF y, u, W, z
<1>5. z = [y EXCEPT !.artworks = l, !.seen = u.seen]
  BY <1>2, <1>4 DEF SameList, Sessions
<1>6. Distinct(l) /\ l \in Seq(W) /\ ListsBoth(l, x.artworks, u.merged)
  <2>1. Apart(x.artworks, u.merged)
    BY <1>1, <1>3 DEF Apart
  <2>. DEFINE p == x.artworks
              q == u.merged
  <2>2. p \in Seq(W) /\ q \in Seq(W) /\ Distinct(p) /\ Distinct(q) /\ Apart(p, q)
    BY <1>1, <1>3, <2>1
  <2>. HIDE DEF p, q
  <2>3. Distinct(p \o q) /\ p \o q \in Seq(W) /\ ListsBoth(p \o q, p, q)
    BY <2>2, DistinctBehind
  <2>. QED  BY <2>3 DEF p, q
<1>. HIDE DEF l
<1>7. /\ z.artworks = l /\ z.seen = u.seen /\ z.active = y.active /\ z.cursors = y.cursors
      /\ z.notices = y.notices /\ z \in Sessions({search.query}, W)
  BY <1>2, <1>3, <1>5, <1>6 DEF Sessions
<1>8. \A a : a \in z.seen <=> \E i \in 1 .. Len(l) : l[i] = a
  BY <1>1, <1>3, <1>6, <1>7 DEF ListsBoth
<1>9. n + 1 # 0
  OBVIOUS
<1>10. ReadTo(R, search, z, n + 1)
  BY <1>2, <1>3, <1>6, <1>7, <1>8, <1>9 DEF ReadTo, W
<1>. QED  BY <1>10 DEF z


\* A search that is over stays as it is.
LEMMA SearchIsOver ==
  ASSUME NEW R, NEW search, IsSearchOf(R, search), NEW n \in Nat,
         NEW x, ReadTo(R, search, x, n), ~HasMore(x)
  PROVE  n # 0 /\ ReadTo(R, search, x, n + 1)
<1>1. x.active = {} /\ StillAsked(search, n) = {}
  BY DEF HasMore, ReadTo
<1>2. \A s \in SourceKind :
        /\ n # 0 /\ s \notin StillAsked(search, n + 1)
        /\ s \in Open(search) =>
             FoundIn(s, ListFor(search, s), n + 1) = FoundIn(s, ListFor(search, s), n)
  BY <1>1, AskedNoMore
<1>3. n # 0 /\ n + 1 # 0
  <2>1. "aic" \in SourceKind
    BY SourcesInOrder DEF SourceOrder, SourceKind, ToSet
  <2>. QED  BY <1>2, <2>1
<1>4. StillAsked(search, n + 1) = {}
  <2>1. StillAsked(search, n + 1) \subseteq SourceKind
    BY DEF StillAsked
  <2>. QED  BY <1>2, <2>1
<1>5. FoundBefore(search, n + 1) = FoundBefore(search, n)
  <2>1. \A s \in Open(search) : s \in SourceKind
    BY DEF Open
  <2>. QED  BY <1>2, <2>1 DEF FoundBefore
<1>6. ReadTo(R, search, x, n + 1)
  BY <1>1, <1>3, <1>4, <1>5 DEF ReadTo
<1>. QED  BY <1>3, <1>6

\* A form and every Load more after it.
ReadOn(search, x) ==
  IF ~HasMore(x) THEN x
  ELSE MergeBatch(x, SearchBatch(search.lists, search.query, NextBatch(x), search.api_key))
IsReading(f, search, times) ==
  f = [n \in 0 .. times |->
         IF n = 0 THEN NewSession(search.query) ELSE ReadOn(search, f[n - 1])]
Readings(R, search) ==
  {x \in Sessions({search.query}, Works(R)) : \E n \in Nat : ReadTo(R, search, x, n)}

LEMMA ReadingOn ==
  ASSUME NEW R, NEW search, IsSearchOf(R, search), NEW n \in Nat,
         NEW x, ReadTo(R, search, x, n)
  PROVE  ReadTo(R, search, ReadOn(search, x), n + 1)
<1>1. CASE HasMore(x)
  BY <1>1, SearchGoesOn DEF ReadOn, BatchOf
<1>2. CASE ~HasMore(x)
  BY <1>2, SearchIsOver DEF ReadOn
<1>. QED  BY <1>1, <1>2

LEMMA ReadingExists ==
  ASSUME NEW R, NEW search, IsSearchOf(R, search), NEW times \in Nat
  PROVE  \E f : /\ IsReading(f, search, times)
                /\ SearchAll(search.lists, search.query, search.api_key, times) = f[times]
<1>. DEFINE S == Readings(R, search)
            start == NewSession(search.query)
            step == [k \in 1 .. times |-> [x \in S |-> ReadOn(search, x)]]
<1>1. step \in [1 .. times -> [S -> S]]
  <2>1. ASSUME NEW x \in S
        PROVE  ReadOn(search, x) \in S
    <3>1. PICK n \in Nat : ReadTo(R, search, x, n)
      BY DEF Readings
    <3>. DEFINE y == ReadOn(search, x)
    <3>2. ReadTo(R, search, y, n + 1) /\ n + 1 \in Nat
      BY <3>1, ReadingOn
    <3>. HIDE DEF y
    <3>3. y \in Sessions({search.query}, Works(R))
      BY <3>2 DEF ReadTo
    <3>. QED  BY <3>2, <3>3 DEF Readings, y
  <2>. HIDE DEF S
  <2>. QED  BY <2>1
<1>2. start \in S
  <2>. HIDE DEF start
  <2>1. ReadTo(R, search, start, 0) /\ 0 \in Nat
    BY SearchBegins DEF start
  <2>2. start \in Sessions({search.query}, Works(R))
    BY <2>1 DEF ReadTo
  <2>. QED  BY <2>1, <2>2 DEF Readings
<1>3. PICK g : /\ g \in [0 .. times -> S] /\ g[0] = start
               /\ \A k \in 1 .. times : g[k] = step[k][g[k - 1]]
  <2>. HIDE DEF S, step, start
  <2>1. \E g : IsIteration(g, S, start, times, step)
    BY <1>1, <1>2, SomeIteration
  <2>. QED  BY <2>1 DEF IsIteration
<1>4. ASSUME NEW k \in 0 .. times
      PROVE  g[k] = IF k = 0 THEN start ELSE ReadOn(search, g[k - 1])
  <2>1. CASE k = 0
    BY <1>3, <2>1
  <2>2. CASE k # 0
    <3>1. k \in 1 .. times /\ k - 1 \in 0 .. times
      BY <2>2
    <3>2. g[k - 1] \in S
      BY <1>3, <3>1
    <3>3. step[k][g[k - 1]] = ReadOn(search, g[k - 1])
      BY <3>1, <3>2
    <3>. HIDE DEF step, start
    <3>. QED  BY <1>3, <2>2, <3>1, <3>3
  <2>. QED  BY <2>1, <2>2
<1>5. IsReading(g, search, times)
  <2>. HIDE DEF S, step
  <2>. QED  BY <1>3, <1>4 DEF IsReading
<1>. DEFINE f == CHOOSE f : IsReading(f, search, times)
<1>6. IsReading(f, search, times)
  BY <1>5
<1>7. SearchAll(search.lists, search.query, search.api_key, times) = f[times]
  BY DEF SearchAll, IsReading, ReadOn
<1>. HIDE DEF f
<1>. QED  BY <1>6, <1>7

LEMMA SearchReadsOn ==
  ASSUME NEW R, NEW search, IsSearchOf(R, search), NEW times \in Nat
  PROVE  ReadTo(R, search,
                SearchAll(search.lists, search.query, search.api_key, times), times)
<1>. DEFINE all == SearchAll(search.lists, search.query, search.api_key, times)
<1>1. PICK f : IsReading(f, search, times) /\ all = f[times]
  BY ReadingExists
<1>. HIDE DEF all
<1>2. \A k \in 0 .. times :
        f[k] = IF k = 0 THEN NewSession(search.query) ELSE ReadOn(search, f[k - 1])
  BY <1>1 DEF IsReading
<1>. DEFINE T == {k \in 0 .. times : ReadTo(R, search, f[k], k)}
<1>3. 0 \in T
  <2>1. f[0] = NewSession(search.query) /\ 0 \in 0 .. times
    BY <1>2
  <2>. QED  BY <2>1, SearchBegins
<1>4. ASSUME NEW k \in 1 .. times, k - 1 \in T
      PROVE  k \in T
  <2>. DEFINE n == k - 1
              x == f[n]
  <2>1. n \in Nat /\ n + 1 = k /\ k \in 0 .. times /\ ReadTo(R, search, x, n)
    BY <1>4
  <2>2. f[k] = ReadOn(search, x)
    BY <1>2, <2>1
  <2>. HIDE DEF n, x
  <2>3. ReadTo(R, search, ReadOn(search, x), n + 1)
    BY <2>1, ReadingOn
  <2>. QED  BY <2>1, <2>2, <2>3
<1>5. times \in T
  <2>. HIDE DEF T
  <2>1. 0 .. times \subseteq T
    BY <1>3, <1>4, BoundedInduction
  <2>. QED  BY <2>1
<1>. QED  BY <1>1, <1>5 DEF all

(***************************************************************************)
(* SearchSession and the providers' search_request and parse_search: for   *)
(* any five lists, query and key and any page size, a search and as many   *)
(* Load more requests as the longest list has pages come to an end; they   *)
(* have then listed every accepted record of the lists that were asked     *)
(* for, once each, and say of exactly the museums that need a key that     *)
(* they could not be asked.                                                *)
(***************************************************************************)
THEOREM SearchListsEverything ==
  ASSUME NEW R, NEW search, IsSearchOf(R, search), NEW times \in Nat, times >= 1,
         \A s \in SourceKind : Len(ListFor(search, s)) <= times * PageSize
  PROVE  LET x == SearchAll(search.lists, search.query, search.api_key, times) IN
         /\ ~HasMore(x)
         /\ x.artworks \in Seq(Works(R)) /\ Distinct(x.artworks)
         /\ \A a : a \in ToSet(x.artworks) <=>
              \E s \in Open(search) : \E r \in ToSet(ListFor(search, s)) :
                r.accepted /\ a = ArtworkOf(s, r.id)
         /\ x.notices \in Seq(Notice) /\ Distinct(x.notices)
         /\ ToSet(x.notices) = Refusals(search)
<1>. DEFINE x == SearchAll(search.lists, search.query, search.api_key, times)
            L(s) == ListFor(search, s)
<1>1. ReadTo(R, search, x, times)
  BY SearchReadsOn
<1>. HIDE DEF x
<1>2. \A s \in SourceKind : L(s) \in Seq(R) /\ Len(L(s)) \in Nat /\ DOMAIN L(s) = 1 .. Len(L(s))
  <2>1. \A s \in SourceKind : L(s) \in Seq(R)
    BY ListsAreLists
  <2>. HIDE DEF L
  <2>. QED  BY <2>1
<1>3. times * PageSize \in Nat
  BY PagesAdd
<1>4. x.active = {}
  <2>1. \A s \in SourceKind : ~(times * PageSize < Len(L(s)))
    BY <1>2, <1>3
  <2>2. StillAsked(search, times) = {}
    BY <2>1 DEF StillAsked
  <2>. QED  BY <1>1, <2>2 DEF ReadTo
<1>5. /\ x.artworks \in Seq(Works(R)) /\ Distinct(x.artworks)
      /\ \A a : a \in x.seen <=> \E i \in 1 .. Len(x.artworks) : x.artworks[i] = a
      /\ x.seen = FoundBefore(search, times)
      /\ x.notices \in Seq(Notice) /\ Distinct(x.notices)
      /\ ToSet(x.notices) = Refusals(search)
  BY <1>1 DEF ReadTo, Sessions
<1>6. \A a : a \in ToSet(x.artworks) <=> a \in FoundBefore(search, times)
  <2>1. DOMAIN x.artworks = 1 .. Len(x.artworks)
    BY <1>5
  <2>. QED  BY <1>5, <2>1 DEF ToSet
<1>7. ASSUME NEW s \in Open(search), NEW a
      PROVE  a \in FoundIn(s, L(s), times) <=>
               \E r \in ToSet(L(s)) : r.accepted /\ a = ArtworkOf(s, r.id)
  <2>1. s \in SourceKind
    BY DEF Open
  <2>2. \A j \in 1 .. Len(L(s)) : j <= times * PageSize
    BY <1>2, <1>3, <2>1
  <2>3. a \in FoundIn(s, L(s), times) <=>
          \E j \in 1 .. Len(L(s)) :
            j <= times * PageSize /\ L(s)[j].accepted /\ a = ArtworkOf(s, L(s)[j].id)
    BY <2>1, FoundAt
  <2>4. ToSet(L(s)) = {L(s)[j] : j \in 1 .. Len(L(s))}
    BY <1>2, <2>1 DEF ToSet
  <2>. HIDE DEF L
  <2>. QED  BY <2>2, <2>3, <2>4
<1>8. \A a : a \in FoundBefore(search, times) <=> \E s \in Open(search) : a \in FoundIn(s, L(s), times)
  BY DEF FoundBefore
<1>9. \A a : a \in ToSet(x.artworks) <=>
        \E s \in Open(search) : \E r \in ToSet(L(s)) : r.accepted /\ a = ArtworkOf(s, r.id)
  <2>. HIDE DEF L
  <2>. QED  BY <1>6, <1>7, <1>8
<1>. QED  BY <1>4, <1>5, <1>9 DEF HasMore, x


-----------------------------------------------------------------------------
(* The searches that are called.                                           *)

\* A filter does not lengthen a list.
LEMMA KeptIsNoLonger ==
  ASSUME NEW W, NEW list \in Seq(W), NEW some
  PROVE  Len(Kept(list, some)) \in Nat /\ Len(Kept(list, some)) <= Len(list)
<1>. DEFINE n == Len(list)
<1>1. n \in Nat
  OBVIOUS
<1>2. PICK f : IsKept(f, list, some) /\ Kept(list, some) = f[n]
  BY KeptByStep
<1>3. \A i \in 0 .. n :
        f[i] = IF i = 0 THEN <<>>
               ELSE IF list[i] \in some THEN Append(f[i - 1], list[i]) ELSE f[i - 1]
  BY <1>2 DEF IsKept
<1>. DEFINE Good(q, k) == q \in Seq(W) /\ Len(q) <= k
            T == {k \in 0 .. n : Good(f[k], k)}
<1>4. 0 \in T
  <2>1. f[0] = <<>> /\ 0 \in 0 .. n
    BY <1>1, <1>3
  <2>2. Good(<<>>, 0)
    OBVIOUS
  <2>. HIDE DEF Good, n
  <2>. QED  BY <2>1, <2>2
<1>5. ASSUME NEW k \in 1 .. n, k - 1 \in T
      PROVE  k \in T
  <2>. DEFINE q == f[k - 1]
  <2>1. Good(q, k - 1)
    BY <1>5
  <2>2. f[k] = IF list[k] \in some THEN Append(q, list[k]) ELSE q
    BY <1>1, <1>3
  <2>3. k \in 0 .. n /\ list[k] \in W
    BY <1>1
  <2>. HIDE DEF q
  <2>4. Good(q, k) /\ Good(Append(q, list[k]), k)
    BY <1>1, <2>1, <2>3
  <2>. HIDE DEF Good, n
  <2>. QED  BY <2>2, <2>3, <2>4
<1>6. n \in T
  <2>. HIDE DEF T, n
  <2>1. 0 .. n \subseteq T
    BY <1>1, <1>4, <1>5, BoundedInduction
  <2>2. n \in 0 .. n
    BY <1>1
  <2>. QED  BY <2>1, <2>2
<1>7. Good(f[n], n)
  BY <1>6
<1>. QED  BY <1>2, <1>7

\* A list of nothing, and of one thing once.
LEMMA NoOneIsListed ==
  ASSUME NEW S, NEW q \in Seq(S), ToSet(q) = {}
  PROVE  q = <<>>
<1>1. DOMAIN q = 1 .. Len(q) /\ Len(q) \in Nat
  OBVIOUS
<1>2. 1 .. Len(q) = {}
  BY <1>1 DEF ToSet
<1>3. Len(q) = 0
  <2>1. Len(q) # 0 => 1 \in 1 .. Len(q)
    BY <1>1
  <2>. QED  BY <1>2, <2>1
<1>. QED  BY <1>3

LEMMA OneIsListed ==
  ASSUME NEW S, NEW q \in Seq(S), NEW e, Distinct(q), ToSet(q) = {e}
  PROVE  q = <<e>>
<1>1. DOMAIN q = 1 .. Len(q) /\ Len(q) \in Nat
  OBVIOUS
<1>2. \A i \in 1 .. Len(q) : q[i] = e
  BY <1>1 DEF ToSet
<1>3. 1 .. Len(q) # {}
  BY <1>1 DEF ToSet
<1>4. Len(q) = 1
  <2>1. Len(q) # 0
    BY <1>3
  <2>2. CASE Len(q) >= 2
    <3>1. 1 \in 1 .. Len(q) /\ 2 \in 1 .. Len(q) /\ 1 # 2
      BY <1>1, <2>2
    <3>. QED  BY <1>2, <3>1 DEF Distinct
  <2>. QED  BY <1>1, <2>1, <2>2
<1>5. q[1] = e
  BY <1>2, <1>4
<1>. QED  BY <1>4, <1>5

\* Four museums take a culture as a filter, Commons only an institution.
LEMMA CultureAskedFor ==
  ASSUME NEW s \in SourceKind, NEW culture, culture \notin Institutions, NEW r
  PROVE  LET filter == SearchRequest(s, culture, NoCursor).filter IN
         (filter.by = "nothing" \/ r.culture = filter.is)
           <=> (s # "wikimedia" => culture \in {NoCulture, r.culture})
<1>1. SourceKind = {"aic", "cleveland", "met", "smithsonian", "wikimedia"}
  BY SourcesInOrder DEF SourceKind, SourceOrder, ToSet
<1>. DEFINE filter == SearchRequest(s, culture, NoCursor).filter
            Asks(by) == filter = IF culture = NoCulture \/ by = "nothing" THEN [by |-> "nothing"]
                                 ELSE [by |-> by, is |-> culture]
<1>2. /\ s = "aic" => Asks("origin")
      /\ s = "cleveland" => Asks("culture")
      /\ s = "met" => Asks("location")
      /\ s = "smithsonian" => Asks("museum") \/ Asks("culture")
      /\ s = "wikimedia" => Asks("nothing")
  BY <1>1 DEF SearchRequest, AicRequest, ClevelandRequest, MetRequest, SmithsonianRequest,
              CommonsRequest, Asking
<1>. SUFFICES (filter.by = "nothing" \/ r.culture = filter.is)
                <=> (s # "wikimedia" => culture \in {NoCulture, r.culture})
  OBVIOUS
<1>. HIDE DEF filter
<1>3. CASE s = "wikimedia"
  BY <1>2, <1>3
<1>4. CASE s # "wikimedia"
  <2>1. PICK by \in {"origin", "culture", "location", "museum"} : Asks(by)
    BY <1>1, <1>2, <1>4
  <2>2. CASE culture = NoCulture
    BY <2>1, <2>2
  <2>3. CASE culture # NoCulture
    BY <1>4, <2>1, <2>3
  <2>. QED  BY <2>2, <2>3
<1>. QED  BY <1>3, <1>4

\* As many requests as the longest list has pages are enough.
LEMMA SearchesAreSearches ==
  ASSUME NEW c \in SearchCalls
  PROVE  LET R == {Record(i) : i \in Nat}
             search == [ lists |-> c.lists, api_key |-> c.api_key,
                         query |-> [ query |-> "text", sources |-> SourceKind,
                                     culture |-> c.culture ] ]
         IN /\ IsSearchOf(R, search) /\ c.culture \notin Institutions
            /\ c.api_key \in {"usable", "missing"}
            /\ Batches \in Nat /\ Batches >= 1
            /\ \A s \in SourceKind : Len(ListFor(search, s)) <= Batches * PageSize
<1>. DEFINE R == {Record(i) : i \in Nat}
            query == [query |-> "text", sources |-> SourceKind, culture |-> c.culture]
            search == [lists |-> c.lists, api_key |-> c.api_key, query |-> query]
<1>1. /\ c.lists \in [SourceKind -> {ListOf(0), ListOf(2), ListOf(LongestList)}]
      /\ c.culture \in {NoCulture, "africa"} /\ c.api_key \in {"usable", "missing"}
  BY DEF SearchCalls
<1>2. c.culture \notin Institutions
  BY <1>1 DEF NoCulture, Institutions
<1>3. \A n \in Nat : ListOf(n) \in Seq(R) /\ Len(ListOf(n)) = n
  <2>. SUFFICES ASSUME NEW n \in Nat
                PROVE  ListOf(n) \in Seq(R) /\ Len(ListOf(n)) = n
    OBVIOUS
  <2>. DEFINE f == ListOf(n)
  <2>1. f \in [1 .. n -> R]
    BY DEF ListOf
  <2>. HIDE DEF f, R
  <2>. QED  BY <2>1, FunctionsAreSequences DEF f
<1>4. \A s \in SourceKind : c.lists[s] \in Seq(R) /\ Len(c.lists[s]) <= LongestList
  <2>1. \A l \in {ListOf(0), ListOf(2), ListOf(LongestList)} : l \in Seq(R) /\ Len(l) <= LongestList
    <3>1. 0 \in Nat /\ 2 \in Nat /\ LongestList \in Nat /\ 0 <= LongestList /\ 2 <= LongestList
      BY DEF LongestList
    <3>. HIDE DEF R
    <3>2. /\ ListOf(0) \in Seq(R) /\ Len(ListOf(0)) = 0
          /\ ListOf(2) \in Seq(R) /\ Len(ListOf(2)) = 2
          /\ ListOf(LongestList) \in Seq(R) /\ Len(ListOf(LongestList)) = LongestList
      BY <1>3, <3>1
    <3>. QED  BY <3>1, <3>2
  <2>. HIDE DEF R
  <2>. QED  BY <1>1, <2>1
<1>5. IsSearchOf(R, search)
  <2>1. c.lists \in [SourceKind -> Seq(R)]
    <3>1. c.lists = [s \in SourceKind |-> c.lists[s]]
      BY <1>1
    <3>. HIDE DEF R
    <3>. QED  BY <1>4, <3>1
  <2>. HIDE DEF R
  <2>. QED  BY <2>1 DEF IsSearchOf
<1>6. Batches \in Nat /\ Batches >= 1 /\ LongestList <= Batches * PageSize
  <2>1. LongestList \in Nat /\ 0 * PageSize < LongestList
    BY PagesAdd DEF LongestList
  <2>2. /\ Batches \in Nat
        /\ 0 < Batches <=> 0 * PageSize < LongestList
    BY <2>1, PageCount DEF Batches
  <2>3. Batches < Batches <=> Batches * PageSize < LongestList
    BY <2>1, <2>2, PageCount DEF Batches
  <2>. QED  BY <2>1, <2>2, <2>3, PagesAdd
<1>7. ASSUME NEW s \in SourceKind
      PROVE  Len(ListFor(search, s)) <= Batches * PageSize
  <2>. DEFINE filter == SearchRequest(s, search.query.culture, NoCursor).filter
              some == {r \in ToSet(c.lists[s]) : filter.by = "nothing" \/ r.culture = filter.is}
  <2>1. ListFor(search, s) = Kept(c.lists[s], some)
    BY DEF ListFor, Listed
  <2>. HIDE DEF some, R, search
  <2>2. Len(ListFor(search, s)) \in Nat /\ Len(ListFor(search, s)) <= Len(c.lists[s])
    BY <1>4, <2>1, KeptIsNoLonger
  <2>3. Len(c.lists[s]) \in Nat /\ Len(c.lists[s]) <= LongestList
    BY <1>4
  <2>4. LongestList \in Nat /\ Batches * PageSize \in Nat
    BY <1>6, PagesAdd DEF LongestList
  <2>. QED  BY <1>6, <2>2, <2>3, <2>4
<1>. QED  BY <1>1, <1>2, <1>5, <1>6, <1>7


\* Of the searches that are called, what is listed is what is wanted.
LEMMA SearchIsAnswered ==
  ASSUME NEW c \in SearchCalls
  PROVE  LET query == [query |-> "text", sources |-> SourceKind, culture |-> c.culture]
             x == SearchAll(c.lists, query, c.api_key, Batches)
         IN /\ ~HasMore(x) /\ IsInjective(x.artworks)
            /\ \A a : a \in ToSet(x.artworks) <=>
                 \E s \in SourceKind :
                   /\ IsAvailable(s, c.api_key)
                   /\ \E r \in ToSet(c.lists[s]) :
                        /\ r.accepted
                        /\ s # "wikimedia" => c.culture \in {NoCulture, r.culture}
                        /\ a = ArtworkOf(s, r.id)
            /\ x.notices = IF c.api_key = "usable" THEN <<>>
                           ELSE <<[kind |-> "Unavailable", source |-> "smithsonian"]>>
<1>. DEFINE R == {Record(i) : i \in Nat}
            query == [query |-> "text", sources |-> SourceKind, culture |-> c.culture]
            search == [lists |-> c.lists, api_key |-> c.api_key, query |-> query]
            x == SearchAll(c.lists, query, c.api_key, Batches)
            refused == [kind |-> "Unavailable", source |-> "smithsonian"]
<1>1. /\ IsSearchOf(R, search) /\ c.culture \notin Institutions
      /\ c.api_key \in {"usable", "missing"}
      /\ Batches \in Nat /\ Batches >= 1
      /\ \A s \in SourceKind : Len(ListFor(search, s)) <= Batches * PageSize
  BY SearchesAreSearches
<1>2. /\ search.lists = c.lists /\ search.api_key = c.api_key /\ search.query = query
      /\ query.culture = c.culture
  OBVIOUS
<1>3. x = SearchAll(search.lists, search.query, search.api_key, Batches)
  OBVIOUS
<1>. HIDE DEF x, R, search, query
<1>4. /\ ~HasMore(x)
      /\ x.artworks \in Seq(Works(R)) /\ Distinct(x.artworks)
      /\ \A a : a \in ToSet(x.artworks) <=>
           \E s \in Open(search) : \E r \in ToSet(ListFor(search, s)) :
             r.accepted /\ a = ArtworkOf(s, r.id)
      /\ x.notices \in Seq(Notice) /\ Distinct(x.notices)
      /\ ToSet(x.notices) = Refusals(search)
  <2>. DEFINE n == Batches
              y == SearchAll(search.lists, search.query, search.api_key, n)
  <2>1. /\ n \in Nat /\ n >= 1 /\ IsSearchOf(R, search)
        /\ \A s \in SourceKind : Len(ListFor(search, s)) <= n * PageSize
    BY <1>1
  <2>. HIDE DEF n
  <2>2. /\ ~HasMore(y)
        /\ y.artworks \in Seq(Works(R)) /\ Distinct(y.artworks)
        /\ \A a : a \in ToSet(y.artworks) <=>
             \E s \in Open(search) : \E r \in ToSet(ListFor(search, s)) :
               r.accepted /\ a = ArtworkOf(s, r.id)
        /\ y.notices \in Seq(Notice) /\ Distinct(y.notices)
        /\ ToSet(y.notices) = Refusals(search)
    BY <2>1, SearchListsEverything
  <2>3. x = y
    BY <1>3 DEF n
  <2>. HIDE DEF y
  <2>. QED  BY <2>2, <2>3
<1>5. IsInjective(x.artworks)
  <2>1. DOMAIN x.artworks = 1 .. Len(x.artworks)
    BY <1>4
  <2>. QED  BY <1>4, <2>1 DEF Distinct, IsInjective
<1>6. ASSUME NEW s \in SourceKind, NEW r
      PROVE  r \in ToSet(ListFor(search, s)) <=>
               /\ r \in ToSet(c.lists[s])
               /\ s # "wikimedia" => c.culture \in {NoCulture, r.culture}
  <2>1. r \in ToSet(ListFor(search, s)) <=>
          /\ r \in ToSet(search.lists[s])
          /\ LET filter == SearchRequest(s, search.query.culture, NoCursor).filter
             IN filter.by = "nothing" \/ r.culture = filter.is
    BY <1>1, ListsAreLists
  <2>2. search.query.culture = c.culture
    BY <1>2
  <2>. QED  BY <1>1, <1>2, <2>1, <2>2, CultureAskedFor
<1>7. \A s : s \in Open(search) <=> s \in SourceKind /\ IsAvailable(s, c.api_key)
  BY <1>2 DEF Open
<1>8. ASSUME NEW a
      PROVE  a \in ToSet(x.artworks) <=>
               \E s \in SourceKind :
                 /\ IsAvailable(s, c.api_key)
                 /\ \E r \in ToSet(c.lists[s]) :
                      /\ r.accepted
                      /\ s # "wikimedia" => c.culture \in {NoCulture, r.culture}
                      /\ a = ArtworkOf(s, r.id)
  BY <1>4, <1>6, <1>7
<1>9. x.notices = IF c.api_key = "usable" THEN <<>> ELSE <<refused>>
  <2>1. SourceKind = {"aic", "cleveland", "met", "smithsonian", "wikimedia"}
    BY SourcesInOrder DEF SourceKind, SourceOrder, ToSet
  <2>2. \A s \in SourceKind : s \in Open(search) <=> s # "smithsonian" \/ c.api_key = "usable"
    BY <1>7 DEF IsAvailable
  <2>3. CASE c.api_key = "usable"
    <3>1. Refusals(search) = {}
      BY <2>2, <2>3 DEF Refusals
    <3>2. ToSet(x.notices) = {}
      BY <1>4, <3>1
    <3>. QED  BY <1>4, <2>3, <3>2, NoOneIsListed
  <2>4. CASE c.api_key # "usable"
    <3>1. SourceKind \ Open(search) = {"smithsonian"}
      BY <2>1, <2>2, <2>4
    <3>2. Refusals(search) = {refused}
      BY <3>1 DEF Refusals
    <3>. DEFINE q == x.notices
    <3>3. q \in Seq(Notice) /\ Distinct(q) /\ ToSet(q) = {refused}
      BY <1>4, <3>2
    <3>. HIDE DEF q, refused
    <3>4. q = <<refused>>
      BY <3>3, OneIsListed
    <3>. QED  BY <2>4, <3>4 DEF q
  <2>. QED  BY <2>3, <2>4
<1>. QED  BY <1>4, <1>5, <1>8, <1>9 DEF x, query

\* A search is one of those listed, and has answered as promised.
SearchInv ==
  /\ call.fn = "search" => call \in SearchCalls
  /\ SearchFindsEverythingOnce

LEMMA SearchStarts == Init => SearchInv
<1>. SUFFICES ASSUME Init
              PROVE  SearchInv
  OBVIOUS
<1>1. \A c \in PaymentCalls \cup CardCalls : c.fn # "search"
  BY DEF PaymentCalls, CardCalls, DealCalls
<1>2. call.fn = "search" => call \in SearchCalls
  BY <1>1 DEF Init, MuseumCalls, RecordCalls
<1>3. ~result.made
  BY DEF Init, NotCalled
<1>. QED  BY <1>2, <1>3 DEF SearchInv, SearchFindsEverythingOnce, Made

LEMMA SearchIsMade == SearchInv /\ SearchMuseums => SearchInv'
<1>. SUFFICES ASSUME SearchInv, SearchMuseums
              PROVE  SearchInv'
  OBVIOUS
<1>. DEFINE query == [query |-> "text", sources |-> SourceKind, culture |-> call.culture]
            x == SearchAll(call.lists, query, call.api_key, Batches)
            Belongs(a) == \E s \in SourceKind :
                            /\ IsAvailable(s, call.api_key)
                            /\ \E r \in ToSet(call.lists[s]) :
                                 /\ r.accepted
                                 /\ s # "wikimedia" => call.culture \in {NoCulture, r.culture}
                                 /\ a = ArtworkOf(s, r.id)
<1>1. /\ call' = call /\ call \in SearchCalls
      /\ Returns([session |-> x])
  BY DEF SearchMuseums, SearchInv, Returns
<1>2. /\ ~HasMore(x) /\ IsInjective(x.artworks)
      /\ \A a : a \in ToSet(x.artworks) <=> Belongs(a)
      /\ x.notices = IF call.api_key = "usable" THEN <<>>
                     ELSE <<[kind |-> "Unavailable", source |-> "smithsonian"]>>
  BY <1>1, SearchIsAnswered
<1>. HIDE DEF x
<1>3. result'.session = x
  BY <1>1 DEF Returns
<1>4. ToSet(x.artworks) = UNION {Wanted(s) : s \in SourceKind}
  <2>1. ASSUME NEW s \in SourceKind, NEW a
        PROVE  a \in Wanted(s) <=>
                 /\ IsAvailable(s, call.api_key)
                 /\ \E r \in ToSet(call.lists[s]) :
                      /\ r.accepted
                      /\ s # "wikimedia" => call.culture \in {NoCulture, r.culture}
                      /\ a = ArtworkOf(s, r.id)
    BY DEF Wanted
  <2>2. \A a : a \in UNION {Wanted(s) : s \in SourceKind} <=> Belongs(a)
    BY <2>1
  <2>. HIDE DEF Belongs
  <2>. QED  BY <1>2, <2>2
<1>5. \A s \in SourceKind : Wanted(s)' = Wanted(s)
  BY <1>1 DEF Wanted
<1>6. SearchFindsEverythingOnce'
  <2>1. (UNION {Wanted(s) : s \in SourceKind})' = UNION {Wanted(s) : s \in SourceKind}
    BY <1>5
  <2>. QED  BY <1>1, <1>2, <1>3, <1>4, <2>1 DEF SearchFindsEverythingOnce
<1>. QED  BY <1>1, <1>6 DEF SearchInv

LEMMA SearchInvGoesOn == SearchInv /\ [Next]_vars => SearchInv'
<1>. SUFFICES ASSUME SearchInv, [Next]_vars
              PROVE  SearchInv'
  OBVIOUS
<1>1. CASE UNCHANGED vars
  BY <1>1 DEF SearchInv, SearchFindsEverythingOnce, Wanted, Made, vars
<1>2. CASE SearchMuseums
  BY <1>2, SearchIsMade
<1>3. ASSUME Next, ~SearchMuseums
      PROVE  SearchInv'
  <2>1. UNCHANGED call /\ call.fn # "search"
    BY <1>3 DEF Next, Deduct, ReadRecord, LoadSet, DealMatch, ParseScenario, Returns
  <2>. QED  BY <2>1 DEF SearchInv, SearchFindsEverythingOnce, Made
<1>. QED  BY <1>1, <1>2, <1>3

(***************************************************************************)
(* SearchSession::merge_batch over the providers' pages: of the searches   *)
(* that are called, for every page size, what has been listed when no      *)
(* museum has more is every accepted record of the asked culture, once;    *)
(* the museum without a key is the only one a notice is about.             *)
(***************************************************************************)
THEOREM SearchFindsEverythingOnceAlways == Spec => []SearchFindsEverythingOnce
<1>1. Spec => []SearchInv
  BY SearchStarts, SearchInvGoesOn, PTL DEF Spec
<1>. QED  BY <1>1, PTL DEF SearchInv
=============================================================================
