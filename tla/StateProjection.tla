-------------------------- MODULE StateProjection ---------------------------
(***************************************************************************)
(* The state a transcript records (crates/match-log/src/state.rs and       *)
(* state/work.rs): the match value written out as wire values, and a match *)
(* rebuilt from them, each conversion an operator of its own.              *)
(***************************************************************************)
EXTENDS GameState

Wire == INSTANCE WireState WITH CardRefV1 <- CardInstance, EntityIdV1 <- STRING
Null == Wire!Null

-----------------------------------------------------------------------------
(* Names, in both directions.                                              *)

PlayerToWire == [One |-> "one", Two |-> "two"]
PlayerFromWire == [one |-> "One", two |-> "Two"]

BenchSlotToWire == <<"first", "second", "third">>
BenchSlotFromWire == [first |-> 1, second |-> 2, third |-> 3]

UpgradeToWire == [Available |-> "available", PlayedThisTurn |-> "played_this_turn",
                  UpgradedThisTurn |-> "upgraded_this_turn"]
UpgradeFromWire == [available |-> "Available", played_this_turn |-> "PlayedThisTurn",
                    upgraded_this_turn |-> "UpgradedThisTurn"]

PhaseToWire == [Upkeep |-> "upkeep", Main |-> "main", Combat |-> "combat"]
PhaseFromWire == [upkeep |-> "Upkeep", main |-> "Main", combat |-> "Combat"]

LossReasonToWire ==
  [ThirdMainLoss |-> "third_main_loss", NoPromotionAvailable |-> "no_promotion_available",
   EmptyDeckDraw |-> "empty_deck_draw", Resignation |-> "resignation"]
LossReasonFromWire ==
  [third_main_loss |-> "ThirdMainLoss", no_promotion_available |-> "NoPromotionAvailable",
   empty_deck_draw |-> "EmptyDeckDraw", resignation |-> "Resignation"]

TriggerEventToWire ==
  [YourUpkeep |-> "your_upkeep", EntersMain |-> "enters_main", EntersBench |-> "enters_bench",
   LeavesMain |-> "leaves_main", LeavesBench |-> "leaves_bench",
   AnySummonDestroyed |-> "any_summon_destroyed"]
TriggerEventFromWire ==
  [your_upkeep |-> "YourUpkeep", enters_main |-> "EntersMain", enters_bench |-> "EntersBench",
   leaves_main |-> "LeavesMain", leaves_bench |-> "LeavesBench",
   any_summon_destroyed |-> "AnySummonDestroyed"]

ConditionToWire ==
  [DefenderEnteredMainThisTurn |-> "defender_entered_main_this_turn",
   SpellPlayedThisTurn |-> "spell_played_this_turn"]
ConditionFromWire ==
  [defender_entered_main_this_turn |-> "DefenderEnteredMainThisTurn",
   spell_played_this_turn |-> "SpellPlayedThisTurn"]

TargetToWire == [Selected |-> "selected", Source |-> "source"]
TargetFromWire == [selected |-> "Selected", source |-> "Source"]

StepToWire == [LeavingMain |-> "leaving_main", EnteringBench |-> "entering_bench",
               LeavingBench |-> "leaving_bench", EnteringMain |-> "entering_main"]
StepFromWire == [leaving_main |-> "LeavingMain", entering_bench |-> "EnteringBench",
                 leaving_bench |-> "LeavingBench", entering_main |-> "EnteringMain"]

-----------------------------------------------------------------------------
(* Positions and Summons.  Every Summon is controlled by its owner.        *)

PositionToWire(q) ==
  IF q = Main THEN [kind |-> "main"] ELSE [kind |-> "bench", slot |-> BenchSlotToWire[q]]
PositionFromWire(v) == IF v.kind = "main" THEN Main ELSE BenchSlotFromWire[v.slot]

PositionsToWire(qs) == [i \in DOMAIN qs |-> PositionToWire(qs[i])]
PositionsFromWire(vs) == [i \in DOMAIN vs |-> PositionFromWire(vs[i])]

SummonToWire(s) ==
  [chain |-> [layers |-> s.chain],
   damage |-> s.damage,
   readiness |-> IF s.ready THEN "ready" ELSE "exhausted",
   owner |-> PlayerToWire[s.owner],
   controller |-> PlayerToWire[s.owner],
   duration_markers |-> IF s.marked THEN <<"cannot_be_moved_by_opponent">> ELSE <<>>,
   turn |-> [upgrade |-> UpgradeToWire[s.upgrade], entered_main |-> s.enteredMain]]

\* Faulty variant: the turn record starts over.
SummonAsIfNew(v) ==
  NewSummon(PlayerFromWire[v.owner], v.chain.layers, v.damage, v.readiness = "ready", "Available")

SummonFromWire(v) ==
  [chain |-> v.chain.layers,
   damage |-> v.damage,
   ready |-> v.readiness = "ready",
   owner |-> PlayerFromWire[v.owner],
   marked |-> v.duration_markers # <<>>,
   upgrade |-> UpgradeFromWire[v.turn.upgrade],
   enteredMain |-> v.turn.entered_main]

\* An empty position is an absent value.
PlaceToWire(s) == IF s = NoSummon THEN Null ELSE SummonToWire(s)
PlaceFromWire(v) == IF v = Null THEN NoSummon ELSE SummonFromWire(v)

ManaToWire(bank) ==
  [matter |-> bank["Matter"], mind |-> bank["Mind"], spirit |-> bank["Spirit"]]
ManaFromWire(v) ==
  [t \in ManaType |-> CASE t = "Matter" -> v.matter [] t = "Mind" -> v.mind
                        [] t = "Spirit" -> v.spirit]

SeatToWire(p) ==
  [main |-> PlaceToWire(board[p][Main]),
   bench |-> [i \in Bench |-> PlaceToWire(board[p][i])],
   deck |-> deck[p], hand |-> hand[p], prizes |-> prizes[p], discard |-> discard[p],
   mana |-> ManaToWire(mana[p]), main_losses |-> losses[p], enchantments |-> enchantments[p]]

SeatFromWire(p, v) ==
  /\ board[p] = [q \in Position |-> PlaceFromWire(IF q = Main THEN v.main ELSE v.bench[q])]
  /\ deck[p] = v.deck /\ hand[p] = v.hand /\ prizes[p] = v.prizes /\ discard[p] = v.discard
  /\ mana[p] = ManaFromWire(v.mana)
  /\ losses[p] = v.main_losses
  /\ enchantments[p] = v.enchantments

-----------------------------------------------------------------------------
(* The turn, the decision asked and the status.                            *)

WindowToWire(w) ==
  IF w = NoWindow THEN Null
  ELSE [holder |-> PlayerToWire[w.holder], prior_pass |-> w.priorPass]
WindowFromWire(v) ==
  IF v = Null THEN NoWindow
  ELSE [holder |-> PlayerFromWire[v.holder], priorPass |-> v.prior_pass]

TurnToWire ==
  [active_player |-> PlayerToWire[active],
   phase |-> PhaseToWire[phase],
   window |-> WindowToWire(window),
   normal_attack_used |-> attackUsed,
   normal_retreat_used |-> retreatUsed,
   spell_played_this_turn |-> [one |-> spellPlayed["One"], two |-> spellPlayed["Two"]]]

TurnFromWire(v) ==
  /\ active = PlayerFromWire[v.active_player]
  /\ phase = PhaseFromWire[v.phase]
  /\ window = WindowFromWire(v.window)
  /\ attackUsed = v.normal_attack_used
  /\ retreatUsed = v.normal_retreat_used
  /\ spellPlayed = [One |-> v.spell_played_this_turn.one, Two |-> v.spell_played_this_turn.two]

ManaSourceToWire(source) ==
  IF source = Natural THEN [kind |-> "player"]
  ELSE [kind |-> "summon", position |-> PositionToWire(source)]
ManaSourceFromWire(v) == IF v.kind = "player" THEN Natural ELSE PositionFromWire(v.position)

PendingToWire(d) ==
  CASE d.kind = "None" -> Null
    [] d.kind = "ManaProduction" ->
         [kind |-> "mana_production", player |-> PlayerToWire[d.player],
          source |-> ManaSourceToWire(d.source)]
    [] d.kind = "Promotion" -> [kind |-> "promotion", player |-> PlayerToWire[d.player]]
    [] d.kind = "PrizePick" -> [kind |-> "prize_pick", chooser |-> PlayerToWire[d.player]]

PendingFromWire(v) ==
  IF v = Null THEN NoPending
  ELSE CASE v.kind = "mana_production" ->
              ManaProduction(PlayerFromWire[v.player], ManaSourceFromWire(v.source))
         [] v.kind = "promotion" -> Promotion(PlayerFromWire[v.player])
         [] v.kind = "prize_pick" -> PrizePick(PlayerFromWire[v.chooser])

\* A match breaks only on a Summon that prints no Life (destruction::life_of).
StatusToWire ==
  CASE status = "Playing" -> [kind |-> "playing"]
    [] status = "Ended" ->
         [kind |-> "ended", outcome |-> [winner |-> PlayerToWire[outcome.winner],
                                         reason |-> LossReasonToWire[outcome.reason]]]
    [] status = "Broken" -> [kind |-> "broken", breakage |-> [rule |-> "destruction"]]

\* The rules a rebuilt breakage may name.
KnownRules == {"destruction", "retreat"}
StatusIsSupported(v) == v.kind = "broken" => v.breakage.rule \in KnownRules

StatusFromWire(v) ==
  CASE v.kind = "playing" -> status = "Playing" /\ outcome = NoOutcome
    [] v.kind = "ended" ->
         /\ status = "Ended"
         /\ outcome = [winner |-> PlayerFromWire[v.outcome.winner],
                       reason |-> LossReasonFromWire[v.outcome.reason]]
    [] v.kind = "broken" -> status = "Broken" /\ outcome = NoOutcome

-----------------------------------------------------------------------------
(* Effects, the Stack and the work queue.                                  *)

DamageToWire(l) ==
  [base |-> l.base,
   constraints |-> [unincreasable |-> l.unincreasable, unpreventable |-> l.unpreventable],
   additions |-> [i \in DOMAIN l.additions |->
                    [amount |-> l.additions[i].amount,
                     condition |-> ConditionToWire[l.additions[i].condition]]]]
DamageFromWire(v) ==
  [kind |-> "DealDamage", base |-> v.base,
   additions |-> [i \in DOMAIN v.additions |->
                    [condition |-> ConditionFromWire[v.additions[i].condition],
                     amount |-> v.additions[i].amount]],
   unincreasable |-> v.constraints.unincreasable,
   unpreventable |-> v.constraints.unpreventable]

PlainLeaves ==
  [MoveSummon |-> "move_summon", SwapPositions |-> "swap_positions",
   SwapOpposingPositions |-> "swap_opposing_positions", ReadySummon |-> "ready_summon",
   ReturnSpellFromDiscard |-> "return_spell_from_discard",
   ReturnSpellToDeckTop |-> "return_spell_to_deck_top", LookAtPrizes |-> "look_at_prizes"]

LeafToWire(l) ==
  CASE l.kind = "DealDamage" -> [kind |-> "deal_damage", damage |-> DamageToWire(l)]
    [] l.kind = "Heal" ->
         [kind |-> "heal", amount |-> l.amount, target |-> TargetToWire[l.at]]
    [] l.kind = "BlockResponses" ->
         [kind |-> "block_responses", condition |-> ConditionToWire[l.condition],
          block |-> "attack_spells"]
    [] l.kind = "DrawCards" -> [kind |-> "draw_cards", amount |-> l.amount]
    [] l.kind = "ProduceMana" -> [kind |-> "produce_mana", target |-> TargetToWire[l.at]]
    [] l.kind = "CannotBeMovedByOpponent" ->
         [kind |-> "cannot_be_moved_by_opponent", target |-> TargetToWire[l.at]]
    [] OTHER -> [kind |-> PlainLeaves[l.kind]]

LeafFromWire(v) ==
  CASE v.kind = "deal_damage" -> DamageFromWire(v.damage)
    [] v.kind = "heal" -> [kind |-> "Heal", amount |-> v.amount, at |-> TargetFromWire[v.target]]
    [] v.kind = "block_responses" ->
         [kind |-> "BlockResponses", condition |-> ConditionFromWire[v.condition]]
    [] v.kind = "draw_cards" -> [kind |-> "DrawCards", amount |-> v.amount]
    [] v.kind = "produce_mana" -> [kind |-> "ProduceMana", at |-> TargetFromWire[v.target]]
    [] v.kind = "cannot_be_moved_by_opponent" ->
         [kind |-> "CannotBeMovedByOpponent", at |-> TargetFromWire[v.target]]
    [] OTHER -> [kind |-> CHOOSE k \in DOMAIN PlainLeaves : PlainLeaves[k] = v.kind]

LeavesToWire(leaves) == [i \in DOMAIN leaves |-> LeafToWire(leaves[i])]
LeavesFromWire(vs) == [i \in DOMAIN vs |-> LeafFromWire(vs[i])]

\* The ability and the event of a trigger only name it in the events.
ItemToWire(item) ==
  CASE item.kind = "Attack" ->
         [kind |-> "attack", attacker |-> PlayerToWire[item.controller],
          target |-> PositionToWire(item.targets[1])]
    [] item.kind = "Spell" ->
         [kind |-> "spell", caster |-> PlayerToWire[item.controller], card |-> item.cards[1],
          targets |-> PositionsToWire(item.targets)]
    [] item.kind = "Trigger" ->
         [kind |-> "trigger", controller |-> PlayerToWire[item.controller],
          source |-> PositionToWire(item.position),
          targets |-> PositionsToWire(item.targets), effects |-> LeavesToWire(item.leaves)]

ItemFromWire(v) ==
  CASE v.kind = "attack" ->
         StackItem("Attack", PlayerFromWire[v.attacker], Main, <<>>,
                   <<PositionFromWire(v.target)>>, <<>>)
    [] v.kind = "spell" ->
         SpellItem(PlayerFromWire[v.caster], v.card, PositionsFromWire(v.targets))
    [] v.kind = "trigger" ->
         StackItem("Trigger", PlayerFromWire[v.controller], PositionFromWire(v.source), <<>>,
                   PositionsFromWire(v.targets), LeavesFromWire(v.effects))

\* Work that names nothing else, a position, or a player.
WorkToWireNames ==
  [ReadyAll |-> "ready_all", DrawCard |-> "draw_card", BeginMainPhase |-> "begin_main_phase",
   DestructionCheck |-> "destruction_check",
   DiscardDestroyedChain |-> "discard_destroyed_chain",
   RecordMainLoss |-> "record_main_loss", RecoverPrize |-> "recover_prize",
   PromoteBenchSummon |-> "promote_bench_summon",
   ResolveMovementConsequences |-> "resolve_movement_consequences",
   LossCheck |-> "loss_check"]
WorkFromWireNames ==
  [ready_all |-> "ReadyAll", draw_card |-> "DrawCard", begin_main_phase |-> "BeginMainPhase",
   destruction_check |-> "DestructionCheck",
   discard_destroyed_chain |-> "DiscardDestroyedChain",
   record_main_loss |-> "RecordMainLoss", recover_prize |-> "RecoverPrize",
   promote_bench_summon |-> "PromoteBenchSummon",
   resolve_movement_consequences |-> "ResolveMovementConsequences",
   loss_check |-> "LossCheck"]

\* The production an Upkeep queues is always the player's own.
WorkToWire(item) ==
  CASE item.op = "MovementTrigger" ->
         [kind |-> "movement_trigger", step |-> StepToWire[item.step],
          player |-> PlayerToWire[item.player], position |-> PositionToWire(item.position)]
    [] item.op = "FireTrigger" ->
         [kind |-> "fire_trigger", player |-> PlayerToWire[item.player],
          position |-> PositionToWire(item.position),
          event |-> TriggerEventToWire[item.event], ability |-> item.ability]
    [] item.op = "ProduceMana" ->
         [kind |-> "produce_mana", player |-> PlayerToWire[item.player],
          source |-> ManaSourceToWire(Natural)]
    [] item.op \in {"ReadyAll", "DrawCard", "BeginMainPhase"} ->
         [kind |-> WorkToWireNames[item.op]]
    [] item.op \in {"DestructionCheck", "DiscardDestroyedChain"} ->
         [kind |-> WorkToWireNames[item.op], position |-> PositionToWire(item.position)]
    [] OTHER -> [kind |-> WorkToWireNames[item.op], player |-> PlayerToWire[item.player]]

WorkFromWire(v) ==
  CASE v.kind = "movement_trigger" ->
         MovementTrigger(StepFromWire[v.step], PlayerFromWire[v.player],
                         PositionFromWire(v.position))
    [] v.kind = "fire_trigger" ->
         FireTrigger(PlayerFromWire[v.player], PositionFromWire(v.position),
                     TriggerEventFromWire[v.event], v.ability)
    [] v.kind = "produce_mana" -> For("ProduceMana", PlayerFromWire[v.player])
    [] v.kind \in {"ready_all", "draw_card", "begin_main_phase"} ->
         Step(WorkFromWireNames[v.kind])
    [] v.kind \in {"destruction_check", "discard_destroyed_chain"} ->
         At(WorkFromWireNames[v.kind], PositionFromWire(v.position))
    [] OTHER -> For(WorkFromWireNames[v.kind], PlayerFromWire[v.player])

-----------------------------------------------------------------------------
\* from_state: everything a match is between two actions; the cards
\* themselves are read from the engine's own catalog.
Projection ==
  [players |-> [one |-> SeatToWire("One"), two |-> SeatToWire("Two")],
   coin |-> coin,
   turn |-> TurnToWire,
   stack |-> [i \in DOMAIN stack |-> ItemToWire(stack[i])],
   stack_segment_bases |-> bases,
   work |-> [i \in DOMAIN work |-> WorkToWire(work[i])],
   pending |-> PendingToWire(pending),
   status |-> StatusToWire]

\* into_game_state: the match that a projection describes.
IntoGameState(w) ==
  /\ SeatFromWire("One", w.players.one) /\ SeatFromWire("Two", w.players.two)
  /\ coin = w.coin
  /\ TurnFromWire(w.turn)
  /\ stack = [i \in DOMAIN w.stack |-> ItemFromWire(w.stack[i])]
  /\ bases = w.stack_segment_bases
  /\ work = [i \in DOMAIN w.work |-> WorkFromWire(w.work[i])]
  /\ pending = PendingFromWire(w.pending)
  /\ StatusFromWire(w.status)
  /\ resolving = Idle

\* What into_game_state refuses: a Summon without a base card, and a breakage
\* of a rule it does not know.
Places(v) == {v.main, v.bench[1], v.bench[2], v.bench[3]} \ {Null}
ChainsHaveBases(w) ==
  \A v \in Places(w.players.one) \cup Places(w.players.two) : v.chain.layers # <<>>
RebuildError(w) ==
  IF ~ChainsHaveBases(w) THEN "EmptyUpgradeChain"
  ELSE IF ~StatusIsSupported(w.status) THEN "UnsupportedBreakageRule" ELSE "None"

-----------------------------------------------------------------------------
\* Every leaf printed on a card of the match means the same once read back.
LeavesOf(c) ==
  LET face == Face[c] IN
  UNION {Range(leaves) : leaves \in
           {face.leaves, face.attackLeaves} \cup {s.leaves : s \in Range(face.skills)}
           \cup {t.leaves : t \in PrintedTriggers(c)}}
LeavesSurviveTheLog ==
  \A c \in CardInstance : \A l \in LeavesOf(c) :
    LeafToWire(l) \in Wire!EffectLeafV1 /\ LeafFromWire(LeafToWire(l)) = l

(***************************************************************************)
(* Between two actions the projection is the whole match: what a           *)
(* transcript records rebuilds to the very state the engine was in, with   *)
(* nothing a later handler reads lost (the turn record of a Summon, the    *)
(* markers, the rest of the queue behind a decision, the segment base under*)
(* a response window), and never to an error.  Replay depends on it: it    *)
(* starts from the rebuilt initial state, and the digest of a projection   *)
(* stands for the state in every later check (replay.rs:359, 393).         *)
(***************************************************************************)
StateSurvivesTheLog ==
  /\ LeavesSurviveTheLog
  /\ AtRest => /\ Projection \in Wire!StateProjectionV1
               /\ RebuildError(Projection) = "None"
               /\ IntoGameState(Projection)
=============================================================================
