----------------------------- MODULE Vocabulary ----------------------------
(***************************************************************************)
(* The words of the domain: seats, positions, and what a card prints as    *)
(* the engine reads it, the components of an entity and of the abilities   *)
(* nested in it (crates/core/src/domain).                                  *)
(***************************************************************************)
EXTENDS Payment, Sequences, FiniteSets

Player == {"One", "Two"}
Opponent(p) == IF p = "One" THEN "Two" ELSE "One"

\* Position::Main is 0, the three Bench slots are 1 .. 3.
Main == 0
Bench == 1 .. 3
Position == {Main} \cup Bench
NoPosition == -1

TriggerEvent == {"LeavesMain", "EntersBench", "LeavesBench", "EntersMain",
                 "YourUpkeep", "AnySummonDestroyed"}

\* A card that prints no Life, and one that prints no Retreat Cost.
NoLife == -1
NoRetreat == -1

\* Effect leaves, abilities and Skills as the catalog prints them.
Condition == {"SpellPlayedThisTurn", "DefenderEnteredMainThisTurn"}
AimedAt == {"Source", "Selected"}

EffectLeaf ==
  [kind : {"DealDamage"}, base : Nat,
   additions : Seq([condition : Condition, amount : Nat]),
   unincreasable : BOOLEAN, unpreventable : BOOLEAN]
  \cup [kind : {"Heal"}, amount : Nat, at : AimedAt]
  \cup [kind : {"DrawCards"}, amount : Nat]
  \cup [kind : {"ProduceMana", "CannotBeMovedByOpponent"}, at : AimedAt]
  \cup [kind : {"BlockResponses"}, condition : Condition]
  \cup [kind : {"MoveSummon", "SwapPositions", "SwapOpposingPositions",
                "ReadySummon", "ReturnSpellFromDiscard",
                "ReturnSpellToDeckTop", "LookAtPrizes"}]

Ability == [id : STRING, respondable : BOOLEAN, leaves : Seq(EffectLeaf)]
Skill == [cost : Cost, leaves : Seq(EffectLeaf)]

CardFace ==
  [kind : {"Summon", "Spell", "Enchantment"}, form : 1 .. 3,
   life : Nat \cup {NoLife}, produces : SUBSET ManaType,
   retreat : Nat \cup {NoRetreat}, retreatDelta : Int, attackReduction : Nat,
   attacks : BOOLEAN, attackCost : Cost, attackLeaves : Seq(EffectLeaf),
   skills : Seq(Skill), triggers : [TriggerEvent -> Seq(Ability)],
   timing : {"Support", "Attack"}, cost : Cost, leaves : Seq(EffectLeaf),
   persistent : BOOLEAN]

(***************************************************************************)
(* What a card prints when it prints nothing but its family.  An MC module *)
(* builds each Face from one of these three.  Form is 1 (Base),            *)
(* 2 (Enhanced) or 3 (Elite); skills and the triggers of each event are    *)
(* sequences in authored order.                                            *)
(***************************************************************************)
PlainCard(kind) ==
  [kind |-> kind, form |-> 1, life |-> NoLife, produces |-> {},
   retreat |-> NoRetreat, retreatDelta |-> 0, attackReduction |-> 0,
   attacks |-> FALSE, attackCost |-> Free, attackLeaves |-> <<>>,
   skills |-> <<>>, triggers |-> [e \in TriggerEvent |-> <<>>],
   timing |-> "Support", cost |-> Free, leaves |-> <<>>,
   persistent |-> FALSE]
=============================================================================
