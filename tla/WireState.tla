----------------------------- MODULE WireState ------------------------------
(***************************************************************************)
(* The version 1 wire values of a match state (crates/match-log/src/       *)
(* wire.rs): what the lines of a transcript say, with exactly these fields *)
(* and names.  An entity id is the id of its definition; a card's instance *)
(* number stands for the card.                                             *)
(***************************************************************************)
EXTENDS Naturals, Sequences

CONSTANTS CardRefV1,   \* the cards of the match
          EntityIdV1   \* the ids of its entities

Null == [null |-> TRUE]
Optional(S) == S \cup {Null}

PlayerIdV1 == {"one", "two"}
BenchSlotV1 == {"first", "second", "third"}
PositionV1 == [kind : {"main"}] \cup [kind : {"bench"}, slot : BenchSlotV1]
UpgradeActivityV1 == {"available", "played_this_turn", "upgraded_this_turn"}
SummonTurnRecordV1 == [upgrade : UpgradeActivityV1, entered_main : BOOLEAN]
UpgradeChainV1 == [layers : Seq(CardRefV1)]

SummonInstanceV1 ==
  [chain : UpgradeChainV1, damage : Nat, readiness : {"ready", "exhausted"},
   owner : PlayerIdV1, controller : PlayerIdV1,
   duration_markers : Seq({"cannot_be_moved_by_opponent"}), turn : SummonTurnRecordV1]

ManaBankV1 == [matter : Nat, mind : Nat, spirit : Nat]

\* main_losses is a byte.
PlayerStateV1 ==
  [main : Optional(SummonInstanceV1), bench : [1 .. 3 -> Optional(SummonInstanceV1)],
   deck : Seq(CardRefV1), hand : Seq(CardRefV1), prizes : Seq(CardRefV1),
   discard : Seq(CardRefV1), mana : ManaBankV1, main_losses : 0 .. 255,
   enchantments : Seq(CardRefV1)]

PlayersV1 == [one : PlayerStateV1, two : PlayerStateV1]
PerPlayerBoolV1 == [one : BOOLEAN, two : BOOLEAN]
StackWindowV1 == [holder : PlayerIdV1, prior_pass : BOOLEAN]

TurnStateV1 ==
  [active_player : PlayerIdV1, phase : {"upkeep", "main", "combat"},
   window : Optional(StackWindowV1), normal_attack_used : BOOLEAN,
   normal_retreat_used : BOOLEAN, spell_played_this_turn : PerPlayerBoolV1]

ManaSourceV1 == [kind : {"player"}] \cup [kind : {"summon"}, position : PositionV1]

PendingInputV1 ==
  [kind : {"mana_production"}, player : PlayerIdV1, source : ManaSourceV1]
  \cup [kind : {"promotion"}, player : PlayerIdV1]
  \cup [kind : {"prize_pick"}, chooser : PlayerIdV1]

LossReasonV1 == {"third_main_loss", "no_promotion_available", "empty_deck_draw", "resignation"}
GameOutcomeV1 == [winner : PlayerIdV1, reason : LossReasonV1]

\* The rule whose demand broke the match.
BreakageV1 == [rule : {"destruction", "retreat"}]

GameStatusV1 ==
  [kind : {"playing"}] \cup [kind : {"ended"}, outcome : GameOutcomeV1]
  \cup [kind : {"broken"}, breakage : BreakageV1]

EffectConditionV1 == {"defender_entered_main_this_turn", "spell_played_this_turn"}
EffectTargetV1 == {"selected", "source"}

DamageEffectV1 ==
  [base : Nat, constraints : [unincreasable : BOOLEAN, unpreventable : BOOLEAN],
   additions : Seq([amount : Nat, condition : EffectConditionV1])]

EffectLeafV1 ==
  [kind : {"deal_damage"}, damage : DamageEffectV1]
  \cup [kind : {"heal"}, amount : Nat, target : EffectTargetV1]
  \cup [kind : {"block_responses"}, condition : EffectConditionV1, block : {"attack_spells"}]
  \cup [kind : {"draw_cards"}, amount : Nat]
  \cup [kind : {"produce_mana", "cannot_be_moved_by_opponent"}, target : EffectTargetV1]
  \cup [kind : {"move_summon", "swap_positions", "swap_opposing_positions", "ready_summon",
                "return_spell_from_discard", "return_spell_to_deck_top", "look_at_prizes"}]

StackItemV1 ==
  [kind : {"attack"}, attacker : PlayerIdV1, target : PositionV1]
  \cup [kind : {"spell"}, caster : PlayerIdV1, card : CardRefV1, targets : Seq(PositionV1)]
  \cup [kind : {"trigger"}, controller : PlayerIdV1, source : PositionV1,
        targets : Seq(PositionV1), effects : Seq(EffectLeafV1)]

MovementStepV1 == {"leaving_main", "entering_bench", "leaving_bench", "entering_main"}
TriggerEventV1 == {"your_upkeep", "enters_main", "enters_bench", "leaves_main",
                   "leaves_bench", "any_summon_destroyed"}

WorkItemV1 ==
  [kind : {"destruction_check", "discard_destroyed_chain"}, position : PositionV1]
  \cup [kind : {"record_main_loss", "recover_prize", "promote_bench_summon",
                "resolve_movement_consequences", "loss_check"}, player : PlayerIdV1]
  \cup [kind : {"movement_trigger"}, step : MovementStepV1, player : PlayerIdV1,
        position : PositionV1]
  \cup [kind : {"fire_trigger"}, player : PlayerIdV1, position : PositionV1,
        event : TriggerEventV1, ability : EntityIdV1]
  \cup [kind : {"produce_mana"}, player : PlayerIdV1, source : ManaSourceV1]
  \cup [kind : {"ready_all", "draw_card", "begin_main_phase"}]

StateProjectionV1 ==
  [players : PlayersV1, coin : BOOLEAN, turn : TurnStateV1, stack : Seq(StackItemV1),
   stack_segment_bases : Seq(Nat), work : Seq(WorkItemV1),
   pending : Optional(PendingInputV1), status : GameStatusV1]
=============================================================================
