----------------------------- MODULE GameState -----------------------------
(***************************************************************************)
(* The match value GameState (crates/core/src/domain/state.rs), the reads  *)
(* the handlers share, and the states a validated scenario starts from     *)
(* (crates/core/src/scenario.rs).                                          *)
(*                                                                         *)
(* One variable of this model has no field in the code: `resolving` is the *)
(* local state of a Stack item, an immediate trigger or a Skill whose      *)
(* effect leaves are being applied one after the other (the loop of        *)
(* resolution::apply_leaves).                                              *)
(***************************************************************************)
EXTENDS Vocabulary, Lists, SequencesExt

(***************************************************************************)
(* The cards of one match.  A card is an instance; Face gives what its     *)
(* definition prints, so an instance stands for a CardRef (instance and    *)
(* definition together).                                                   *)
(***************************************************************************)
CONSTANTS
  CardInstance,   \* the card instances of one match
  Face,           \* [CardInstance -> what that card prints]
  TargetChoices,  \* the target lists a player may name for a Spell or Skill
  Setups          \* the validated scenarios a match may start from

\* A Spell or Enchantment is cast; a Summon is played onto a Bench slot.
IsSpell(c) == Face[c].kind = "Spell"
IsSummon(c) == Face[c].kind = "Summon"
IsCastable(c) == Face[c].kind \in {"Spell", "Enchantment"}

\* An Enchantment follows a Support Spell's timing and prints none.
Timing(c) == IF IsSpell(c) THEN Face[c].timing ELSE "Support"

PrintedTriggers(c) ==
  UNION {Range(Face[c].triggers[e]) : e \in TriggerEvent}

\* The catalog is well formed (crates/cards validates it), and a target list
\* names positions.
ASSUME FaceAssumption == Face \in [CardInstance -> CardFace]
ASSUME TargetAssumption == TargetChoices \subseteq Seq(Position)
-----------------------------------------------------------------------------

VARIABLES
  status,        \* "Playing", "Ended" or "Broken"
  outcome,       \* winner and reason, once Ended
  active,        \* turn.active_player
  phase,         \* turn.phase
  window,        \* turn.window: holder and prior_pass, or NoWindow
  attackUsed,    \* turn.normal_attack_used
  retreatUsed,   \* turn.normal_retreat_used
  spellPlayed,   \* turn.spell_played_this_turn, per player
  stack,         \* the Stack, top last
  bases,         \* stack_segment_bases
  work,          \* the work queue, front first
  pending,       \* the paused decision, or NoPending
  resolving,     \* the effects being applied, or Idle
  board,         \* per player, Main and Bench
  deck, hand, prizes, discard, enchantments,   \* per player, card sequences
  mana,          \* per player, a Bank
  coin,          \* TRUE while Player Two holds the Coin
  losses         \* per player, main_losses

statusVars == <<status, outcome>>
onceVars == <<attackUsed, retreatUsed, spellPlayed>>
turnVars == <<active, phase, window, onceVars>>
stackVars == <<stack, bases>>
pileVars == <<deck, hand, prizes, discard, enchantments>>
poolVars == <<mana, coin, losses>>
vars == <<statusVars, turnVars, stackVars, work, pending, resolving, board,
          pileVars, poolVars>>

Phase == {"Upkeep", "Main", "Combat"}
LossReason == {"ThirdMainLoss", "NoPromotionAvailable", "EmptyDeckDraw",
               "Resignation"}

NoOutcome == [winner |-> "Nobody", reason |-> "None"]
NoWindow == [holder |-> "Nobody", priorPass |-> FALSE]
NoPending == [kind |-> "None", player |-> "Nobody", source |-> NoPosition]
NoSummon == [chain |-> <<>>]
Idle == [kind |-> "Idle"]

\* window_after_play: the other player holds Priority, no pass recorded.
WindowAfterPlay(p) == [holder |-> Opponent(p), priorPass |-> FALSE]

-----------------------------------------------------------------------------
(* Values of the board, the Stack and the work queue.                      *)

UpgradeActivity == {"Available", "PlayedThisTurn", "UpgradedThisTurn"}

SummonInstance ==
  [chain : Seq(CardInstance) \ {<<>>}, damage : Nat, ready : BOOLEAN,
   owner : Player, marked : BOOLEAN, upgrade : UpgradeActivity,
   enteredMain : BOOLEAN]

\* A Summon's facts when its turn record is fresh and it has no marker.
NewSummon(p, chain, damage, ready, upgrade) ==
  [chain |-> chain, damage |-> damage, ready |-> ready, owner |-> p,
   marked |-> FALSE, upgrade |-> upgrade, enteredMain |-> FALSE]

\* The source of a ManaProduction decision: NoPosition for the player's
\* natural production, else the position of the producing Summon.
Natural == NoPosition

ManaProduction(p, source) ==
  [kind |-> "ManaProduction", player |-> p, source |-> source]
Promotion(p) == [kind |-> "Promotion", player |-> p, source |-> NoPosition]
PrizePick(chooser) ==
  [kind |-> "PrizePick", player |-> chooser, source |-> NoPosition]

\* StackItem.  `leaves` is filled in when the item is resolved, except for a
\* respondable trigger, which carries its effects; `position` is the
\* position of its EffectSource.
StackItem(kind, p, position, cards, targets, leaves) ==
  [kind |-> kind, controller |-> p, position |-> position, cards |-> cards,
   targets |-> targets, leaves |-> leaves]

ItemOf(kinds) ==
  [kind : kinds, controller : Player, position : Position \cup {NoPosition},
   cards : Seq(CardInstance), targets : Seq(Position), leaves : Seq(EffectLeaf)]

\* What lies on the Stack, and what can be under resolution beside it.
OnStack == {"Attack", "Spell", "Trigger"}
OffStack == {"Skill", "Immediate"}

AttackItem(p) == StackItem("Attack", p, Main, <<>>, <<Main>>, <<>>)
SpellItem(p, c, targets) ==
  StackItem("Spell", p, NoPosition, <<c>>, targets, <<>>)

\* WorkItem.
Step(op) == [op |-> op]
At(op, q) == [op |-> op, position |-> q]
For(op, p) == [op |-> op, player |-> p]
MovementTrigger(step, p, q) ==
  [op |-> "MovementTrigger", step |-> step, player |-> p, position |-> q]
FireTrigger(p, q, e, id) ==
  [op |-> "FireTrigger", player |-> p, position |-> q, event |-> e,
   ability |-> id]

\* Faulty variant: the arrival in Main is forgotten.
ExchangeStepsUnannounced(p, slot) ==
  << MovementTrigger("LeavingMain", p, slot),
     MovementTrigger("EnteringBench", p, slot),
     MovementTrigger("LeavingBench", p, Main) >>

\* A Main/Bench exchange queues the four steps of rules section 28, each
\* against the position its Summon occupies after the exchange.
ExchangeSteps(p, slot) ==
  << MovementTrigger("LeavingMain", p, slot),
     MovementTrigger("EnteringBench", p, slot),
     MovementTrigger("LeavingBench", p, Main),
     MovementTrigger("EnteringMain", p, Main) >>

MovementEvent(step) ==
  CASE step = "LeavingMain"   -> "LeavesMain"
    [] step = "EnteringBench" -> "EntersBench"
    [] step = "LeavingBench"  -> "LeavesBench"
    [] step = "EnteringMain"  -> "EntersMain"

-----------------------------------------------------------------------------
(* Shared reads.                                                           *)

Occupied(p, q) == q \in Position /\ board[p][q] # NoSummon
OccupiedPositions(p) == {q \in Position : board[p][q] # NoSummon}
OccupiedBench(p) == OccupiedPositions(p) \ {Main}

TopCard(summon) == summon.chain[Len(summon.chain)]
CardAt(p, q) == TopCard(board[p][q])
FaceAt(p, q) == Face[CardAt(p, q)]

\* The Types a source may produce now: the anchor of every Summon the player
\* controls, or the Types of one Summon.
AvailableTypes(p, source) ==
  IF source = Natural
  THEN UNION {FaceAt(p, q).produces : q \in OccupiedPositions(p)}
  ELSE IF Occupied(p, source) THEN FaceAt(p, source).produces ELSE {}

Banked(p, t) == [mana EXCEPT ![p][t] = @ + 1]

\* The index the current Stack segment starts above.
CurrentBase == IF bases = <<>> THEN 0 ELSE Last(bases)
StackHasUnresolvedItems == Len(stack) > CurrentBase

\* Whether one controller-relative condition holds, against a target list.
ConditionHolds(condition, p, targets) ==
  CASE condition = "SpellPlayedThisTurn" -> spellPlayed[p]
    [] condition = "DefenderEnteredMainThisTurn" ->
         /\ targets # <<>>
         /\ Occupied(Opponent(p), targets[1])
         /\ board[Opponent(p)][targets[1]].enteredMain

\* The FireTrigger items for the abilities the Summon at q prints on e, and
\* those of a whole board, Main before Bench in index order.
Fires(p, q, e) ==
  IF Occupied(p, q)
  THEN [i \in DOMAIN FaceAt(p, q).triggers[e] |->
          FireTrigger(p, q, e, FaceAt(p, q).triggers[e][i].id)]
  ELSE <<>>

Candidates(p, e) ==
  Fires(p, Main, e) \o Fires(p, 1, e) \o Fires(p, 2, e) \o Fires(p, 3, e)

-----------------------------------------------------------------------------
(* The resolution loop runs inside apply after every accepted action.  It  *)
(* stops on a decision, on an open window, when the Stack segment and the  *)
(* work queue are both settled, or when the match is over.                 *)

MatchOver == status # "Playing"

Settled == ~StackHasUnresolvedItems /\ work = <<>>

AtRest ==
  /\ resolving = Idle
  /\ MatchOver \/ pending # NoPending \/ window # NoWindow \/ Settled

\* The loop is about to take its next step.
Draining ==
  /\ resolving = Idle
  /\ ~MatchOver /\ pending = NoPending /\ window = NoWindow

-----------------------------------------------------------------------------
(* from_scenario: a match begins resting in the Main Phase of the chosen   *)
(* player, paused on a Promotion when some Main is empty.                  *)

DerivedPending(b) ==
  IF b["One"][Main] = NoSummon THEN Promotion("One")
  ELSE IF b["Two"][Main] = NoSummon THEN Promotion("Two")
  ELSE NoPending

FromScenario(s) ==
  /\ status = "Playing" /\ outcome = NoOutcome
  /\ active = s.active /\ phase = "Main" /\ window = NoWindow
  /\ attackUsed = FALSE /\ retreatUsed = FALSE
  /\ spellPlayed = [p \in Player |-> FALSE]
  /\ stack = <<>> /\ bases = <<>> /\ work = <<>> /\ resolving = Idle
  /\ pending = DerivedPending(s.board)
  /\ board = s.board
  /\ deck = s.deck /\ hand = s.hand /\ prizes = s.prizes
  /\ discard = s.discard
  /\ enchantments = [p \in Player |-> <<>>]
  /\ mana = s.mana /\ coin = s.coin /\ losses = s.losses

Init == \E s \in Setups : FromScenario(s)

\* What scenario validation guarantees: typed zones, a Summon in play on
\* each side (NoSummonInPlay).
ValidSetup(s) ==
  LET piles == [Player -> Seq(CardInstance)] IN
  /\ s.active \in Player
  /\ s.board \in [Player -> [Position -> SummonInstance \cup {NoSummon}]]
  /\ \A p \in Player : \E q \in Position : s.board[p][q] # NoSummon
  /\ s.deck \in piles /\ s.hand \in piles
  /\ s.prizes \in piles /\ s.discard \in piles
  /\ s.mana \in [Player -> Bank]
  /\ s.coin \in BOOLEAN
  /\ s.losses \in [Player -> Nat]

ASSUME SetupAssumption == \A s \in Setups : ValidSetup(s)
=============================================================================
