----------------------------- MODULE Resolution -----------------------------
(***************************************************************************)
(* The engine's side of the transition: engine::resolution::drain.  After  *)
(* an accepted action the loop resolves the current Stack segment from the *)
(* top, then drains the work queue, until it rests.  One action resolves   *)
(* the top item, one action per effect leaf applies it, and one action per *)
(* WorkItem executes it.  No player can act in between (AtRest guards      *)
(* every action of module Actions), so the sequence of these steps is the  *)
(* body of one call of apply.                                              *)
(***************************************************************************)
EXTENDS Actions

\* Rules section 41: the active player's opponent comes first.
First == Opponent(active)
Second == active

-----------------------------------------------------------------------------
(* The Stack.                                                              *)

\* An Attack's and a Spell's effects are read when the item resolves; an
\* attacker that left Main applies none.
ResolutionLeaves(item) ==
  CASE item.kind = "Attack" ->
         IF Occupied(item.controller, Main)
         THEN FaceAt(item.controller, Main).attackLeaves ELSE <<>>
    [] item.kind = "Spell"  -> Face[item.cards[1]].leaves
    [] OTHER                -> item.leaves

ResolveTopStackItem ==
  /\ Draining /\ StackHasUnresolvedItems
  /\ stack' = Front(stack)
  /\ resolving' = [Last(stack) EXCEPT !.leaves = ResolutionLeaves(Last(stack))]
  /\ UNCHANGED <<statusVars, turnVars, bases, work, pending, board, pileVars,
                 poolVars>>

FromStack == resolving.kind \in OnStack

\* Faulty variant: the base of a settled segment is never dropped.
BasesKept == bases

\* Popping the item that drained the Stack to the segment's base drops it.
BasesOnceSettled ==
  IF FromStack /\ bases # <<>> /\ Last(bases) = Len(stack)
  THEN Front(bases) ELSE bases

\* The leaves are done, or the match ended under them.  A resolved Spell is
\* placed even then: kept in play when Persistent, discarded otherwise.
FinishResolving ==
  /\ resolving # Idle
  /\ resolving.leaves = <<>> \/ MatchOver
  /\ LET p == resolving.controller
         persistent == resolving.kind = "Spell"
                         /\ Face[resolving.cards[1]].persistent
         spent == IF persistent THEN <<>> ELSE resolving.cards
         kept == IF persistent THEN resolving.cards ELSE <<>>
     IN /\ discard' = [discard EXCEPT ![p] = @ \o spent]
        /\ enchantments' = [enchantments EXCEPT ![p] = @ \o kept]
  /\ bases' = BasesOnceSettled
  /\ resolving' = Idle
  /\ UNCHANGED <<statusVars, turnVars, stack, work, pending, board, deck, hand,
                 prizes, poolVars>>

-----------------------------------------------------------------------------
(* Effect leaves (engine/effects, engine/damage).  Every leaf is aimed     *)
(* when it is applied: no target, or an empty one, is a miss.              *)

Leaf == Head(resolving.leaves)
Controller == resolving.controller
Targets == resolving.targets

Applying(kind) ==
  /\ resolving # Idle /\ ~MatchOver
  /\ resolving.leaves # <<>> /\ Leaf.kind = kind
  /\ resolving' = [resolving EXCEPT !.leaves = Tail(@)]

Selected == IF Targets = <<>> THEN NoPosition ELSE Targets[1]
Aim == IF Leaf.at = "Source" THEN resolving.position ELSE Selected

\* Additions whose condition holds, then the persistent reductions printed
\* by the defender's Enchantments against an Attack, never below zero.
DamageAmount ==
  LET o == Opponent(Controller)
      added == [i \in DOMAIN Leaf.additions |->
                  IF ConditionHolds(Leaf.additions[i].condition, Controller,
                                    <<Selected>>)
                  THEN Leaf.additions[i].amount ELSE 0]
      reduced == [i \in DOMAIN enchantments[o] |->
                    Face[enchantments[o][i]].attackReduction]
      gross == Leaf.base + IF Leaf.unincreasable THEN 0 ELSE SumOf(added)
      net == gross - IF resolving.kind = "Attack" /\ ~Leaf.unpreventable
                     THEN SumOf(reduced) ELSE 0
  IN IF net > 0 THEN net ELSE 0

\* A hit is only recorded here; the check it queues runs from the queue.
DealDamage ==
  LET o == Opponent(Controller)
      hit == Occupied(o, Selected)
  IN /\ Applying("DealDamage")
     /\ board' = IF hit
                 THEN [board EXCEPT ![o][Selected].damage = @ + DamageAmount]
                 ELSE board
     /\ work' = IF hit
                THEN Append(work, At("DestructionCheck", Selected)) ELSE work
     /\ UNCHANGED <<statusVars, turnVars, stackVars, pending, pileVars, poolVars>>

BoardOnly == UNCHANGED <<statusVars, turnVars, stackVars, work, pending,
                         pileVars, poolVars>>

\* Faulty variant: the subtraction does not saturate.
HealedBelowZero(damage, amount) == damage - amount
Healed(damage, amount) == IF damage > amount THEN damage - amount ELSE 0

Heal ==
  /\ Applying("Heal")
  /\ board' = IF Occupied(Controller, Aim)
              THEN [board EXCEPT ![Controller][Aim].damage =
                      Healed(@, Leaf.amount)]
              ELSE board
  /\ BoardOnly

ReadySummon ==
  /\ Applying("ReadySummon")
  /\ board' = IF Occupied(Controller, Selected)
              THEN [board EXCEPT ![Controller][Selected].ready = TRUE]
              ELSE board
  /\ BoardOnly

CannotBeMovedByOpponent ==
  /\ Applying("CannotBeMovedByOpponent")
  /\ board' = IF Occupied(Controller, Aim)
              THEN [board EXCEPT ![Controller][Aim].marked = TRUE]
              ELSE board
  /\ BoardOnly

\* Two Bench positions: both movement steps are recorded at the destination.
MoveSummon ==
  LET p == Controller
      from == Targets[1]
      to == Targets[2]
      legal == /\ Len(Targets) >= 2 /\ from \in Bench /\ to \in Bench
               /\ Occupied(p, from) /\ ~Occupied(p, to)
  IN /\ Applying("MoveSummon")
     /\ board' = IF legal
                 THEN [board EXCEPT ![p][to] = board[p][from],
                                    ![p][from] = NoSummon]
                 ELSE board
     /\ work' = IF legal
                THEN work \o << MovementTrigger("LeavingBench", p, to),
                                MovementTrigger("EnteringBench", p, to) >>
                ELSE work
     /\ UNCHANGED <<statusVars, turnVars, stackVars, pending, pileVars, poolVars>>

\* The exchange both swaps perform on one player's board.
Exchange(p, allowed) ==
  LET legal == /\ Selected \in Bench
               /\ Occupied(p, Main) /\ Occupied(p, Selected) /\ allowed
  IN /\ board' = IF legal THEN Exchanged(p, Selected) ELSE board
     /\ work' = IF legal THEN work \o ExchangeSteps(p, Selected) ELSE work
     /\ UNCHANGED <<statusVars, turnVars, stackVars, pending, pileVars, poolVars>>

SwapPositions ==
  Applying("SwapPositions") /\ Exchange(Controller, TRUE)

\* Faulty variant: the marker is not consulted.
AlwaysMovable(p) == TRUE

\* A marked Main refuses the opposing exchange.
Movable(p) == Occupied(p, Main) => ~board[p][Main].marked

SwapOpposingPositions ==
  /\ Applying("SwapOpposingPositions")
  /\ Exchange(Opponent(Controller), Movable(Opponent(Controller)))

\* No Type is a no-op, one is banked, several pause for a choice.
Produce(p, source) ==
  LET types == AvailableTypes(p, source) IN
  /\ mana' = IF Cardinality(types) = 1
             THEN Banked(p, CHOOSE t \in types : TRUE) ELSE mana
  /\ pending' = IF Cardinality(types) > 1
                THEN ManaProduction(p, source) ELSE pending

ProduceManaLeaf ==
  /\ Applying("ProduceMana")
  /\ IF Aim = NoPosition THEN UNCHANGED <<mana, pending>>
     ELSE Produce(Controller, Aim)
  /\ UNCHANGED <<statusVars, turnVars, stackVars, work, board, pileVars, coin,
                 losses>>

\* The cards that are there are drawn first; a short Deck then ends the match.
Draw(p, n) ==
  LET taken == IF n < Len(deck[p]) THEN n ELSE Len(deck[p]) IN
  /\ hand' = [hand EXCEPT ![p] = @ \o SubSeq(deck[p], 1, taken)]
  /\ deck' = [deck EXCEPT ![p] = SubSeq(@, taken + 1, Len(@))]
  /\ IF n > Len(deck[p]) THEN Ending(p, "EmptyDeckDraw")
     ELSE UNCHANGED statusVars

DrawCards ==
  /\ Applying("DrawCards")
  /\ Draw(Controller, Leaf.amount)
  /\ UNCHANGED <<turnVars, stackVars, work, pending, board, prizes, discard,
                 enchantments, poolVars>>

\* The first Spell of a pile, when there is one.
FirstSpell(pile) == SelectInSeq(pile, IsSpell)

ReturnSpellFromDiscard ==
  LET p == Controller
      i == FirstSpell(discard[p])
  IN /\ Applying("ReturnSpellFromDiscard")
     /\ discard' = IF i = 0 THEN discard
                   ELSE [discard EXCEPT ![p] = RemoveAt(@, i)]
     /\ hand' = IF i = 0 THEN hand
                ELSE [hand EXCEPT ![p] = Append(@, discard[p][i])]
     /\ UNCHANGED <<statusVars, turnVars, stackVars, work, pending, board,
                    deck, prizes, enchantments, poolVars>>

ReturnSpellToDeckTop ==
  LET p == Controller
      i == FirstSpell(hand[p])
  IN /\ Applying("ReturnSpellToDeckTop")
     /\ hand' = IF i = 0 THEN hand ELSE [hand EXCEPT ![p] = RemoveAt(@, i)]
     /\ deck' = IF i = 0 THEN deck
                ELSE [deck EXCEPT ![p] = <<hand[p][i]>> \o @]
     /\ UNCHANGED <<statusVars, turnVars, stackVars, work, pending, board,
                    prizes, discard, enchantments, poolVars>>

\* LookAtPrizes only reports; BlockResponses only gates casting.
LeafWithoutEffect ==
  /\ \E kind \in {"LookAtPrizes", "BlockResponses"} : Applying(kind)
  /\ UNCHANGED <<statusVars, turnVars, stackVars, work, pending, board,
                 pileVars, poolVars>>

ApplyLeaf ==
  \/ DealDamage \/ Heal \/ ReadySummon \/ CannotBeMovedByOpponent
  \/ MoveSummon \/ SwapPositions \/ SwapOpposingPositions
  \/ ProduceManaLeaf \/ DrawCards
  \/ ReturnSpellFromDiscard \/ ReturnSpellToDeckTop \/ LeafWithoutEffect

-----------------------------------------------------------------------------
(* The work queue.                                                         *)

Item == Head(work)
Rest == Tail(work)

Executing(op) ==
  /\ Draining /\ ~StackHasUnresolvedItems
  /\ work # <<>> /\ Item.op = op

\* Upkeep.
Readied(summon) ==
  IF summon = NoSummon THEN NoSummon ELSE [summon EXCEPT !.ready = TRUE]

ReadyAll ==
  /\ Executing("ReadyAll")
  /\ board' = [board EXCEPT ![active] =
                 [q \in Position |-> Readied(board[active][q])]]
  /\ work' = Rest
  /\ UNCHANGED <<statusVars, turnVars, stackVars, pending, resolving, pileVars,
                 poolVars>>

DrawCard ==
  /\ Executing("DrawCard")
  /\ Draw(active, 1)
  /\ work' = Rest
  /\ UNCHANGED <<turnVars, stackVars, pending, resolving, board, prizes,
                 discard, enchantments, poolVars>>

ProduceMana ==
  /\ Executing("ProduceMana")
  /\ Produce(Item.player, Natural)
  /\ work' = Rest
  /\ UNCHANGED <<statusVars, turnVars, stackVars, resolving, board, pileVars,
                 coin, losses>>

BeginMainPhase ==
  /\ Executing("BeginMainPhase")
  /\ phase' = "Main"
  /\ work' = Rest
  /\ UNCHANGED <<statusVars, active, window, onceVars, stackVars, pending,
                 resolving, board, pileVars, poolVars>>

-----------------------------------------------------------------------------
(* Destruction, Prizes, Promotion, loss (engine/destruction, engine/loss). *)

Lifeless(p, q) == Occupied(p, q) /\ FaceAt(p, q).life = NoLife

IsDestroyed(p, q) ==
  /\ Occupied(p, q) /\ ~Lifeless(p, q)
  /\ board[p][q].damage >= FaceAt(p, q).life

\* Faulty variants: no Promotion, no check for a loss.
DestructionChainUnpromoted(p, q) ==
  << At("DiscardDestroyedChain", q), For("RecordMainLoss", p),
     For("RecoverPrize", p), For("LossCheck", p) >>
DestructionChainUnchecked(p, q) ==
  << At("DiscardDestroyedChain", q), For("RecordMainLoss", p),
     For("RecoverPrize", p), For("PromoteBenchSummon", p),
     For("ResolveMovementConsequences", p) >>

\* The fixed order of one player's destruction; a Bench destruction only
\* discards and checks for a loss.
DestructionChain(p, q) ==
  << At("DiscardDestroyedChain", q) >>
    \o (IF q = Main
        THEN << For("RecordMainLoss", p), For("RecoverPrize", p),
                For("PromoteBenchSummon", p),
                For("ResolveMovementConsequences", p) >>
        ELSE <<>>)
    \o << For("LossCheck", p) >>

ChainIfDestroyed(p, q) ==
  IF IsDestroyed(p, q) THEN DestructionChain(p, q) ELSE <<>>

Break == status' = "Broken" /\ UNCHANGED outcome

\* A Summon that prints no Life breaks the match at its turn of the check.
DestructionCheck ==
  LET q == Item.position
      second == IF Lifeless(First, q) THEN <<>> ELSE ChainIfDestroyed(Second, q)
  IN /\ Executing("DestructionCheck")
     /\ IF Lifeless(First, q) \/ Lifeless(Second, q)
        THEN Break ELSE UNCHANGED statusVars
     /\ work' = Rest \o ChainIfDestroyed(First, q) \o second
     /\ UNCHANGED <<turnVars, stackVars, pending, resolving, board, pileVars,
                    poolVars>>

\* destroyed_controller: which board the item means is decided when it runs.
Victims(q) ==
  IF IsDestroyed(First, q) THEN {First}
  ELSE IF IsDestroyed(Second, q) THEN {Second} ELSE {}

BreaksDiscard(q) ==
  Lifeless(First, q) \/ (~IsDestroyed(First, q) /\ Lifeless(Second, q))

\* The chain goes to its owner's discard; the triggers on a destruction are
\* queued in front of the rest of the chain.
DiscardVictim(p, q) ==
  LET owner == board[p][q].owner IN
  /\ UNCHANGED <<statusVars, active>>
  /\ board' = [board EXCEPT ![p][q] = NoSummon]
  /\ discard' = [discard EXCEPT ![owner] = @ \o board[p][q].chain]
  /\ work' = Candidates(First, "AnySummonDestroyed")'
               \o Candidates(Second, "AnySummonDestroyed")' \o Rest

DiscardNothing(q) ==
  /\ IF BreaksDiscard(q) THEN Break ELSE UNCHANGED statusVars
  /\ work' = Rest
  /\ UNCHANGED <<active, board, discard>>

DiscardDestroyedChain ==
  LET q == Item.position IN
  /\ Executing("DiscardDestroyedChain")
  /\ IF Victims(q) = {} \/ BreaksDiscard(q) THEN DiscardNothing(q)
     ELSE \E p \in Victims(q) : DiscardVictim(p, q)
  /\ UNCHANGED <<phase, window, onceVars, stackVars, pending, resolving, deck,
                 hand, prizes, enchantments, poolVars>>

RecordMainLoss ==
  /\ Executing("RecordMainLoss")
  /\ losses' = [losses EXCEPT ![Item.player] = @ + 1]
  /\ work' = Rest
  /\ UNCHANGED <<statusVars, turnVars, stackVars, pending, resolving, board,
                 pileVars, mana, coin>>

\* Faulty variant: an empty pool returns before the step leaves the queue.
RecoverPrizeUnpopped ==
  /\ Executing("RecoverPrize")
  /\ pending' = IF prizes[Item.player] = <<>> THEN pending
                ELSE PrizePick(Opponent(Item.player))
  /\ work' = IF prizes[Item.player] = <<>> THEN work ELSE Rest
  /\ UNCHANGED <<statusVars, turnVars, stackVars, resolving, board, pileVars,
                 poolVars>>

\* The opponent chooses the Prize; an empty pool is a no-op.
RecoverPrize ==
  /\ Executing("RecoverPrize")
  /\ pending' = IF prizes[Item.player] = <<>> THEN pending
                ELSE PrizePick(Opponent(Item.player))
  /\ work' = Rest
  /\ UNCHANGED <<statusVars, turnVars, stackVars, resolving, board, pileVars,
                 poolVars>>

\* Automatic with one Benched Summon, a decision with several, nothing with
\* none.
PromoteBenchSummon ==
  LET p == Item.player IN
  /\ Executing("PromoteBenchSummon")
  /\ board' = IF Cardinality(OccupiedBench(p)) = 1
              THEN Promoted(p, CHOOSE q \in OccupiedBench(p) : TRUE) ELSE board
  /\ pending' = IF Cardinality(OccupiedBench(p)) > 1
                THEN Promotion(p) ELSE pending
  /\ work' = Rest
  /\ UNCHANGED <<statusVars, turnVars, stackVars, resolving, pileVars, poolVars>>

ResolveMovementConsequences ==
  LET p == Item.player IN
  /\ Executing("ResolveMovementConsequences")
  /\ work' = (IF Occupied(p, Main)
              THEN << MovementTrigger("LeavingBench", p, Main),
                      MovementTrigger("EnteringMain", p, Main) >>
              ELSE <<>>) \o Rest
  /\ UNCHANGED <<statusVars, turnVars, stackVars, pending, resolving, board,
                 pileVars, poolVars>>

NoSummonLeft(p) == OccupiedPositions(p) = {}

LossCheck ==
  LET p == Item.player IN
  /\ Executing("LossCheck")
  /\ IF losses[p] >= 3 THEN Ending(p, "ThirdMainLoss")
     ELSE IF NoSummonLeft(p) THEN Ending(p, "NoPromotionAvailable")
     ELSE UNCHANGED statusVars
  /\ work' = Rest
  /\ UNCHANGED <<turnVars, stackVars, pending, resolving, board, pileVars,
                 poolVars>>

-----------------------------------------------------------------------------
(* Triggers (engine/triggers).                                             *)

\* The arrival in Main is marked here, and nowhere else.
MarkedArrival(step, p, q) ==
  IF step = "EnteringMain" /\ q = Main /\ Occupied(p, Main)
  THEN [board EXCEPT ![p][Main].enteredMain = TRUE] ELSE board

RunMovementTrigger ==
  /\ Executing("MovementTrigger")
  /\ board' = MarkedArrival(Item.step, Item.player, Item.position)
  /\ work' = Fires(Item.player, Item.position, MovementEvent(Item.step)) \o Rest
  /\ UNCHANGED <<statusVars, turnVars, stackVars, pending, resolving, pileVars,
                 poolVars>>

\* The queued ability, read again on whatever Summon is there now.
FiringAbility ==
  IF Occupied(Item.player, Item.position)
  THEN {t \in PrintedTriggers(CardAt(Item.player, Item.position)) :
          t.id = Item.ability}
  ELSE {}

\* Damage from a trigger goes to the opposing Main, the rest to the source.
ImplicitTargets(q, leaves) ==
  IF \E n \in DOMAIN leaves : leaves[n].kind = "DealDamage"
  THEN <<Main>> ELSE <<q>>

TriggerItem(kind, ability) ==
  StackItem(kind, Item.player, Item.position, <<>>,
            ImplicitTargets(Item.position, ability.leaves), ability.leaves)

\* A respondable trigger starts a new Stack segment and opens a window.
FireRespondable ==
  /\ Executing("FireTrigger")
  /\ \E ability \in FiringAbility :
       /\ ability.respondable
       /\ stack' = Append(stack, TriggerItem("Trigger", ability))
  /\ bases' = Append(bases, Len(stack))
  /\ window' = WindowAfterPlay(Item.player)
  /\ work' = Rest
  /\ UNCHANGED <<statusVars, active, phase, onceVars, pending, resolving,
                 board, pileVars, poolVars>>

FireImmediate ==
  /\ Executing("FireTrigger")
  /\ \E ability \in FiringAbility :
       /\ ~ability.respondable
       /\ resolving' = TriggerItem("Immediate", ability)
  /\ work' = Rest
  /\ UNCHANGED <<statusVars, turnVars, stackVars, pending, board, pileVars,
                 poolVars>>

FireVanished ==
  /\ Executing("FireTrigger")
  /\ FiringAbility = {}
  /\ work' = Rest
  /\ UNCHANGED <<statusVars, turnVars, stackVars, pending, resolving, board,
                 pileVars, poolVars>>

ExecuteWorkItem ==
  \/ ReadyAll \/ DrawCard \/ ProduceMana \/ BeginMainPhase
  \/ DestructionCheck \/ DiscardDestroyedChain
  \/ RecordMainLoss \/ RecoverPrize
  \/ PromoteBenchSummon \/ ResolveMovementConsequences \/ LossCheck
  \/ RunMovementTrigger
  \/ FireRespondable \/ FireImmediate \/ FireVanished

DrainStep ==
  ResolveTopStackItem \/ ApplyLeaf \/ FinishResolving \/ ExecuteWorkItem
=============================================================================
