------------------------------ MODULE MCTables -------------------------------
(***************************************************************************)
(* The pure parts of the programs, each call made once: every call of      *)
(* deduct over a small range of banks, costs and hints, the records and    *)
(* searches of MCMuseums and the documents of MCCards.                     *)
(***************************************************************************)
EXTENDS Payment, MCMuseums, MCCards

CONSTANTS MaxPool,     \* largest pool of an enumerated bank
          MaxTyped,    \* largest typed component of an enumerated cost
          MaxGeneric   \* largest generic component of an enumerated cost

ASSUME PaymentBounds == {MaxPool, MaxTyped, MaxGeneric} \subseteq Nat

PaymentCalls ==
  [ fn : {"deduct"}, bank : [ManaType -> 0 .. MaxPool], hint : Hint,
    cost : [typed : [ManaType -> 0 .. MaxTyped], generic : 0 .. MaxGeneric] ]

Deduct ==
  /\ call.fn = "deduct" /\ ~result.made
  /\ LET error == PaymentError(call.bank, call.cost, call.hint)
     IN Returns([ error |-> error,
                  left |-> IF error = "None" THEN Paid(call.bank, call.cost, call.hint)
                           ELSE call.bank ])

Deducted == Made("deduct")
Succeeded == Deducted /\ result.error = "None"
Left(t) == result.left[t]
GenericTaken(t) == call.bank[t] - call.cost.typed[t] - Left(t)

(***************************************************************************)
(* A completed payment takes the whole cost, no more and no less, covers   *)
(* every typed component from its own pool, and leaves no pool negative    *)
(* (the unsigned conversions at the end of deduct never clip).             *)
(***************************************************************************)
PaysExactlyTheCost ==
  Succeeded =>
    /\ Total(call.bank) - Total(result.left) = Total(call.cost.typed) + call.cost.generic
    /\ \A t \in ManaType : Left(t) >= 0 /\ GenericTaken(t) >= 0

(***************************************************************************)
(* Without a hint the policy never fails a payment the bank could cover:   *)
(* deduct succeeds exactly when the typed components fit their pools and   *)
(* the total fits the bank.                                                *)
(***************************************************************************)
UnhintedPaysWheneverAffordable ==
  Deducted /\ call.hint = NoHint =>
    (Succeeded <=>
       /\ \A t \in ManaType : call.cost.typed[t] <= call.bank[t]
       /\ Total(call.cost.typed) + call.cost.generic <= Total(call.bank))

(***************************************************************************)
(* Without a hint the generic component levels the pools: a pool it was    *)
(* taken from ends at most one unit below any other pool.                  *)
(***************************************************************************)
GenericLevelsThePools ==
  Succeeded /\ call.hint = NoHint =>
    \A t, u \in ManaType : GenericTaken(t) > 0 => Left(u) <= Left(t) + 1

(***************************************************************************)
(* Ties go to a pool the cost does not name: a named pool is only drawn    *)
(* from while it is strictly larger than every unnamed one.                *)
(***************************************************************************)
NamedPoolsAreSpared ==
  Succeeded /\ call.hint = NoHint =>
    \A t \in NamedPools(call.cost), u \in ManaType \ NamedPools(call.cost) :
      GenericTaken(t) > 0 => Left(u) <= Left(t)

(***************************************************************************)
(* A hint is honoured entirely or refused: the whole generic component     *)
(* comes from the hinted pool, and a hint that could pay none of it is     *)
(* reported as such, never silently ignored.                               *)
(***************************************************************************)
HintIsHonouredOrRefused ==
  /\ Succeeded /\ call.hint # NoHint =>
       call.cost.generic > 0 /\ GenericTaken(call.hint) = call.cost.generic
  /\ Deducted /\ result.error = "InvalidHint" =>
       call.cost.generic = 0 \/ call.bank[call.hint] = call.cost.typed[call.hint]

(***************************************************************************)
(* Together, what a deduction promises the player who pays (payment.rs):   *)
(* the price and nothing else, whenever it can be paid, out of the pools   *)
(* the rules name.                                                         *)
(***************************************************************************)
DeductKeepsItsPromises ==
  /\ PaysExactlyTheCost
  /\ UnhintedPaysWheneverAffordable
  /\ GenericLevelsThePools
  /\ NamedPoolsAreSpared
  /\ HintIsHonouredOrRefused
-----------------------------------------------------------------------------

Init ==
  /\ call \in PaymentCalls \cup MuseumCalls \cup CardCalls
  /\ result = NotCalled

Next ==
  \/ Deduct
  \/ ReadRecord
  \/ SearchMuseums
  \/ LoadSet
  \/ DealMatch
  \/ ParseScenario

Spec == Init /\ [][Next]_vars
=============================================================================
