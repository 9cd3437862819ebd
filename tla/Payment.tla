------------------------------ MODULE Payment ------------------------------
(***************************************************************************)
(* Paying a printed cost from the three typed Mana pools: the pure         *)
(* function engine::payment::deduct (crates/core/src/engine/payment.rs).   *)
(*                                                                         *)
(* A bank is a function [ManaType -> Nat].  A cost is a record with the    *)
(* typed components and one generic component.  A hint names the pool the  *)
(* caller wants the generic component taken from, or is NoHint.            *)
(***************************************************************************)
EXTENDS Integers, Functions

ManaType == {"Matter", "Mind", "Spirit"}
NoHint == "NoHint"
Hint == ManaType \cup {NoHint}

Bank == [ManaType -> Nat]
Cost == [typed : Bank, generic : Nat]

EmptyBank == [t \in ManaType |-> 0]
Free == [typed |-> EmptyBank, generic |-> 0]

\* The fixed walk Matter, Mind, Spirit, used to break the last ties.
PoolOrder == [Matter |-> 1, Mind |-> 2, Spirit |-> 3]

(***************************************************************************)
(* The pool the next generic unit is taken from: the largest one; among    *)
(* equals one the cost does not name; among those the first in PoolOrder.  *)
(***************************************************************************)
\* Faulty variant: the pools the cost names are not spared.
OutranksIgnoringNamed(t, u, remaining, named) ==
  \/ remaining[t] > remaining[u]
  \/ remaining[t] = remaining[u] /\ PoolOrder[t] < PoolOrder[u]

Outranks(t, u, remaining, named) ==
  \/ remaining[t] > remaining[u]
  \/ remaining[t] = remaining[u] /\ t \notin named /\ u \in named
  \/ /\ remaining[t] = remaining[u]
     /\ (t \in named) = (u \in named)
     /\ PoolOrder[t] < PoolOrder[u]

PickLargestPool(remaining, named) ==
  CHOOSE t \in ManaType :
    \A u \in ManaType \ {t} : Outranks(t, u, remaining, named)

NamedPools(cost) == {t \in ManaType : cost.typed[t] > 0}

\* What is left of each pool once the typed components are set aside.
AfterTyped(bank, cost) == [t \in ManaType |-> bank[t] - cost.typed[t]]

\* remaining after n unhinted generic units, one at a time.
AfterGeneric(remaining, named, n) ==
  LET left[i \in 0 .. n] ==
        IF i = 0 THEN remaining
        ELSE [left[i - 1] EXCEPT ![PickLargestPool(left[i - 1], named)] = @ - 1]
  IN left[n]

AfterHinted(remaining, hint, n) == [remaining EXCEPT ![hint] = @ - n]

\* The simulated pools, which deduct then inspects for a negative one.
Simulated(bank, cost, hint) ==
  LET rest == AfterTyped(bank, cost)
  IN IF hint = NoHint
     THEN AfterGeneric(rest, NamedPools(cost), cost.generic)
     ELSE AfterHinted(rest, hint, cost.generic)

AnyNegative(pools) == \E t \in ManaType : pools[t] < 0

HintIsInvalid(bank, cost, hint) ==
  hint # NoHint /\ (cost.generic = 0 \/ AfterTyped(bank, cost)[hint] = 0)

\* The three outcomes of deduct, in the order the code decides them.
PaymentError(bank, cost, hint) ==
  CASE AnyNegative(AfterTyped(bank, cost))      -> "Insufficient"
    [] HintIsInvalid(bank, cost, hint)          -> "InvalidHint"
    [] AnyNegative(Simulated(bank, cost, hint)) -> "Insufficient"
    [] OTHER                                    -> "None"

Affords(bank, cost, hint) == PaymentError(bank, cost, hint) = "None"

\* The bank deduct returns when it succeeds.
Paid(bank, cost, hint) == Simulated(bank, cost, hint)

Total(bank) == bank["Matter"] + bank["Mind"] + bank["Spirit"]
=============================================================================
