---------------------------- MODULE EngineProofs ----------------------------
(***************************************************************************)
(* Proofs about a match, for every set of cards, every catalog and every   *)
(* validated scenario.  First its control: which decision, window, Stack   *)
(* segment and queued work may exist together; and what the work queue     *)
(* still owes: the check that ends a match on a third Main loss, the       *)
(* consequences of an arrival in Main, and the advance that ends an        *)
(* Upkeep.  These debts are kept by the order in which a destruction and a *)
(* handover queue their steps, whatever windows, decisions, triggers and   *)
(* further destructions come in between.  Then its data: every step leaves *)
(* the match value well typed, and the state a transcript records between  *)
(* two actions rebuilds to that very state.                                *)
(***************************************************************************)
EXTENDS Engine, StateProjection, Recursion, SequenceTheorems

-----------------------------------------------------------------------------
(* The shape of the state the control argument reads.  Damage, Mana and    *)
(* the card piles are left out: no step of the control state depends on    *)
(* their values.                                                           *)

SummonShape(s) ==
  s \in [chain : Seq(CardInstance) \ {<<>>}, damage : {s.damage},
         ready : {s.ready}, owner : {s.owner}, marked : {s.marked},
         upgrade : {s.upgrade}, enteredMain : {s.enteredMain}]

Shaped(s) == s = NoSummon \/ SummonShape(s)

ShapedBoard(b) ==
  /\ b = [p \in Player |-> [q \in Position |-> b[p][q]]]
  /\ \A p \in Player, q \in Position : Shaped(b[p][q])

BoardShape == ShapedBoard(board)

ControlType ==
  /\ active \in Player /\ phase \in Phase
  /\ window \in [holder : Player, priorPass : BOOLEAN] \cup {NoWindow}
  /\ stack \in Seq(ItemOf(OnStack))
  /\ \A i \in DOMAIN stack : stack[i].kind = "Spell" => stack[i].cards # <<>>
  /\ resolving \in ItemOf(OnStack \cup OffStack) \cup {Idle}
  /\ work \in Seq(WorkItem)

\* The advance into Main is still to come.
Advances(queue) == \E i \in DOMAIN queue : queue[i].op = "BeginMainPhase"

UpkeepGoesOn == phase = "Upkeep" => Advances(work)

ControlInv ==
  SegmentsNeverNest /\ OneActorAtATime /\ HandoverIsClean /\ UpkeepGoesOn

IInv == BoardShape /\ ControlType /\ ControlInv

-----------------------------------------------------------------------------
(* Lemmas about the operators the actions are built from.                  *)

LEMMA OpponentType == \A p \in Player : Opponent(p) \in Player
BY DEF Player, Opponent

LEMMA ItemKinds ==
  ASSUME NEW r \in ItemOf(OnStack \cup OffStack)
  PROVE  r # Idle /\ r.kind \in OnStack \cup OffStack
BY DEF ItemOf, OnStack, OffStack, Idle

\* A Summon in play stands for a card of the match.
LEMMA CardAtType ==
  ASSUME BoardShape, NEW p \in Player, NEW q, Occupied(p, q)
  PROVE  /\ q \in Position
         /\ CardAt(p, q) \in CardInstance
         /\ FaceAt(p, q) \in CardFace
<1>1. q \in Position /\ board[p][q] # NoSummon
  BY DEF Occupied
<1>2. board[p][q].chain \in Seq(CardInstance) /\ board[p][q].chain # <<>>
  BY <1>1 DEF BoardShape, ShapedBoard, Shaped, SummonShape
<1>3. CardAt(p, q) \in CardInstance
  BY <1>2 DEF CardAt, TopCard
<1> QED
  BY <1>1, <1>3, FaceAssumption DEF FaceAt

\* A list of abilities, as the work that fires them.
LEMMA FiringListType ==
  ASSUME NEW p \in Player, NEW q \in Position, NEW e \in TriggerEvent,
         NEW abilities \in Seq(Ability)
  PROVE  [i \in DOMAIN abilities |-> FireTrigger(p, q, e, abilities[i].id)]
           \in Seq(WorkItem)
<1>1. \A i \in DOMAIN abilities : abilities[i] \in Ability
  BY ElementOfSeq, LenProperties
<1>2. \A i \in DOMAIN abilities : abilities[i].id \in STRING
  BY <1>1 DEF Ability
<1>3. \A id \in STRING : FireTrigger(p, q, e, id) \in WorkItem
  BY DEF FireTrigger, WorkItem
<1>4. DOMAIN abilities = 1 .. Len(abilities) /\ Len(abilities) \in Nat
  BY LenProperties
<1>5. [i \in DOMAIN abilities |-> FireTrigger(p, q, e, abilities[i].id)]
        \in [1 .. Len(abilities) -> WorkItem]
  BY <1>2, <1>3, <1>4
<1> QED
  BY <1>4, <1>5, SeqDef

\* The triggers a position fires are queued as work.
LEMMA FiresType ==
  ASSUME BoardShape, NEW p \in Player, NEW q \in Position,
         NEW e \in TriggerEvent
  PROVE  Fires(p, q, e) \in Seq(WorkItem)
<1>1. CASE Occupied(p, q)
  <2>1. FaceAt(p, q).triggers[e] \in Seq(Ability)
    BY <1>1, CardAtType DEF CardFace
  <2> QED
    BY <1>1, <2>1, FiringListType DEF Fires
<1>2. CASE ~Occupied(p, q)
  BY <1>2 DEF Fires
<1> QED
  BY <1>1, <1>2

LEMMA CandidatesType ==
  ASSUME BoardShape, NEW p \in Player, NEW e \in TriggerEvent
  PROVE  Candidates(p, e) \in Seq(WorkItem)
<1>1. \A q \in Position : Fires(p, q, e) \in Seq(WorkItem)
  BY FiresType
<1> QED
  BY <1>1 DEF Candidates, Position, Main, Bench

LEMMA DestructionChainType ==
  ASSUME NEW p \in Player, NEW q \in Position
  PROVE  DestructionChain(p, q) \in Seq(WorkItem)
<1>1. /\ At("DiscardDestroyedChain", q) \in WorkItem
      /\ For("RecordMainLoss", p) \in WorkItem
      /\ For("RecoverPrize", p) \in WorkItem
      /\ For("PromoteBenchSummon", p) \in WorkItem
      /\ For("ResolveMovementConsequences", p) \in WorkItem
      /\ For("LossCheck", p) \in WorkItem
  BY DEF At, For, WorkItem, PlayerWork
<1> QED
  BY <1>1 DEF DestructionChain

LEMMA ExchangeStepsType ==
  ASSUME NEW p \in Player, NEW slot \in Position
  PROVE  ExchangeSteps(p, slot) \in Seq(WorkItem)
<1>1. \A step \in MovementSteps, q \in Position :
        MovementTrigger(step, p, q) \in WorkItem
  BY DEF MovementTrigger, WorkItem
<1> QED
  BY <1>1 DEF ExchangeSteps, MovementSteps, Position, Main

\* The queue of an Upkeep still holds the advance into Main when work is
\* added on either side, or when some other item is taken from its front.
LEMMA AdvancesKept ==
  ASSUME NEW s \in Seq(WorkItem), NEW t \in Seq(WorkItem), Advances(s)
  PROVE  Advances(s \o t) /\ Advances(t \o s)
<1>1. PICK i \in 1 .. Len(s) : s[i].op = "BeginMainPhase"
  BY DEF Advances
<1>2. i \in DOMAIN (s \o t) /\ (s \o t)[i] = s[i]
  BY <1>1
<1>3. /\ i + Len(t) \in DOMAIN (t \o s)
      /\ (t \o s)[i + Len(t)] = s[i]
  BY <1>1
<1> QED
  BY <1>1, <1>2, <1>3 DEF Advances

LEMMA AdvancesBehind ==
  ASSUME NEW s \in Seq(WorkItem), s # <<>>, Advances(s),
         Head(s).op # "BeginMainPhase"
  PROVE  Tail(s) \in Seq(WorkItem) /\ Advances(Tail(s))
<1>1. PICK i \in 1 .. Len(s) : s[i].op = "BeginMainPhase"
  BY DEF Advances
<1>2. i # 1 /\ Len(s) \in Nat
  BY <1>1
<1>3. i - 1 \in DOMAIN Tail(s) /\ Tail(s)[i - 1] = s[i]
  BY <1>1, <1>2
<1>4. Advances(Tail(s))
  BY <1>1, <1>3 DEF Advances
<1> QED
  BY <1>4, HeadTailProperties

\* Writing one field of a Summon, or one position, keeps the shape.
LEMMA ShapedField ==
  ASSUME NEW s, SummonShape(s), NEW x
  PROVE  /\ SummonShape([s EXCEPT !.damage = x])
         /\ SummonShape([s EXCEPT !.ready = x])
         /\ SummonShape([s EXCEPT !.marked = x])
         /\ SummonShape([s EXCEPT !.enteredMain = x])
BY DEF SummonShape

LEMMA ShapedFresh ==
  ASSUME NEW s, Shaped(s), NEW expires
  PROVE  Shaped(FreshTurn(s, expires)) /\ Shaped(Readied(s))
<1>1. CASE s = NoSummon
  BY <1>1 DEF Shaped, FreshTurn, Readied
<1>2. CASE s # NoSummon
  <2>1. \A x, y, z :
          SummonShape([s EXCEPT !.upgrade = x, !.enteredMain = y, !.marked = z])
    BY <1>2 DEF Shaped, SummonShape
  <2>2. SummonShape(FreshTurn(s, expires))
    BY <1>2, <2>1 DEF FreshTurn
  <2>3. SummonShape(Readied(s))
    BY <1>2, ShapedField DEF Shaped, Readied
  <2> QED
    BY <2>2, <2>3 DEF Shaped
<1> QED
  BY <1>1, <1>2

LEMMA ShapedUpgraded ==
  ASSUME NEW s, SummonShape(s), NEW c \in CardInstance
  PROVE  SummonShape(Upgraded(s, c))
<1>1. s.chain \in Seq(CardInstance)
  BY DEF SummonShape
<1>2. Append(s.chain, c) \in Seq(CardInstance) \ {<<>>}
  BY <1>1, AppendProperties
<1>3. \A x, y : \A chain \in Seq(CardInstance) \ {<<>>} :
        SummonShape([s EXCEPT !.chain = chain, !.ready = x, !.upgrade = y])
  BY DEF SummonShape
<1> QED
  BY <1>2, <1>3 DEF Upgraded

LEMMA ShapedPut ==
  ASSUME NEW b, ShapedBoard(b), NEW p \in Player, NEW q \in Position,
         NEW s, Shaped(s)
  PROVE  ShapedBoard([b EXCEPT ![p][q] = s])
BY DEF ShapedBoard

LEMMA ShapedEmpty == Shaped(NoSummon)
BY DEF Shaped

LEMMA ShapedTouch ==
  ASSUME BoardShape, NEW p \in Player, NEW q, Occupied(p, q), NEW x
  PROVE  /\ ShapedBoard([board EXCEPT ![p][q].damage = x])
         /\ ShapedBoard([board EXCEPT ![p][q].ready = x])
         /\ ShapedBoard([board EXCEPT ![p][q].marked = x])
         /\ ShapedBoard([board EXCEPT ![p][q].enteredMain = x])
<1>1. q \in Position /\ SummonShape(board[p][q])
  BY DEF Occupied, BoardShape, ShapedBoard, Shaped
<1> DEFINE s == board[p][q]
<1>2. /\ [board EXCEPT ![p][q].damage = x]
            = [board EXCEPT ![p][q] = [s EXCEPT !.damage = x]]
      /\ [board EXCEPT ![p][q].ready = x]
            = [board EXCEPT ![p][q] = [s EXCEPT !.ready = x]]
      /\ [board EXCEPT ![p][q].marked = x]
            = [board EXCEPT ![p][q] = [s EXCEPT !.marked = x]]
      /\ [board EXCEPT ![p][q].enteredMain = x]
            = [board EXCEPT ![p][q] = [s EXCEPT !.enteredMain = x]]
  BY <1>1 DEF BoardShape, ShapedBoard
<1>3. /\ Shaped([s EXCEPT !.damage = x])
      /\ Shaped([s EXCEPT !.ready = x])
      /\ Shaped([s EXCEPT !.marked = x])
      /\ Shaped([s EXCEPT !.enteredMain = x])
  BY <1>1, ShapedField DEF Shaped
<1> HIDE DEF s
<1> QED
  BY <1>1, <1>2, <1>3, ShapedPut DEF BoardShape

LEMMA ShapedExchanged ==
  ASSUME BoardShape, NEW p \in Player, NEW slot \in Position
  PROVE  ShapedBoard(Exchanged(p, slot))
<1>1. Main \in Position /\ Shaped(board[p][Main]) /\ Shaped(board[p][slot])
  BY DEF BoardShape, ShapedBoard, Main, Position
<1>2. ShapedBoard([board EXCEPT ![p][Main] = board[p][slot]])
  BY <1>1, ShapedPut DEF BoardShape
<1> QED
  BY <1>1, <1>2, ShapedPut DEF Exchanged

LEMMA ShapedPromoted ==
  ASSUME BoardShape, NEW p \in Player, NEW slot \in Position
  PROVE  ShapedBoard(Promoted(p, slot))
<1>1. Main \in Position /\ Shaped(board[p][slot]) /\ Shaped(NoSummon)
  BY ShapedEmpty DEF BoardShape, ShapedBoard, Main, Position
<1>2. ShapedBoard([board EXCEPT ![p][Main] = board[p][slot]])
  BY <1>1, ShapedPut DEF BoardShape
<1> QED
  BY <1>1, <1>2, ShapedPut DEF Promoted

-----------------------------------------------------------------------------
(* Every step keeps the shape of the board.                                *)

LEMMA ResolvingType ==
  ASSUME ControlType, resolving # Idle
  PROVE  Controller \in Player /\ Targets \in Seq(Position)
BY DEF ControlType, ItemOf, Controller, Targets

LEMMA BoardAfterPlayer ==
  ASSUME IInv, NEW p \in Player, PlayerAction(p)
  PROVE  BoardShape'
<1> USE DEF IInv
<1>1. ASSUME NEW c \in CardInstance, NEW slot \in Bench, PlaySummon(p, c, slot)
      PROVE  BoardShape'
  <2>1. Shaped(NewSummon(p, <<c>>, 0, FALSE, "PlayedThisTurn"))
    BY DEF Shaped, SummonShape, NewSummon
  <2>2. slot \in Position
    BY DEF Position
  <2> QED
    BY <1>1, <2>1, <2>2, ShapedPut DEF PlaySummon, BoardShape
<1>2. ASSUME NEW c \in CardInstance, NEW q \in Position, UpgradeSummon(p, c, q)
      PROVE  BoardShape'
  <2>1. SummonShape(board[p][q])
    BY <1>2 DEF UpgradeSummon, Occupied, BoardShape, ShapedBoard, Shaped
  <2>2. Shaped(Upgraded(board[p][q], c))
    BY <2>1, ShapedUpgraded DEF Shaped
  <2> QED
    BY <1>2, <2>2, ShapedPut DEF UpgradeSummon, BoardShape
<1>3. ASSUME NEW slot \in Bench, NEW hint \in Hint, Retreat(p, slot, hint)
      PROVE  BoardShape'
  BY <1>3, ShapedExchanged DEF Retreat, Position, BoardShape
<1>4. ASSUME NEW q \in Position, NEW i, NEW targets, NEW hint \in Hint,
             ActivateSkill(p, q, i, targets, hint)
      PROVE  BoardShape'
  BY <1>4, ShapedTouch DEF ActivateSkill, BoardShape
<1>5. ASSUME PassPriority(p) PROVE BoardShape'
  <2>1. CASE Handover
    <3>1. \A q \in Player, r \in Position, expires \in BOOLEAN :
            Shaped(FreshTurn(board[q][r], expires))
      BY ShapedFresh DEF BoardShape, ShapedBoard
    <3>2. ShapedBoard(BoardAtHandover(Opponent(active)))
      BY <3>1 DEF ShapedBoard, BoardAtHandover
    <3> QED
      BY <2>1, <3>2 DEF Handover, NextPlayer, BoardShape
  <2>2. CASE MovePriority(p) \/ CloseWindow
    BY <2>2 DEF MovePriority, CloseWindow, BoardShape
  <2> QED
    BY <1>5, <2>1, <2>2 DEF PassPriority
<1>6. ASSUME NEW slot \in Bench, ChoosePromotion(p, slot) PROVE BoardShape'
  BY <1>6, ShapedPromoted DEF ChoosePromotion, Position, BoardShape
<1>7. ASSUME NEW c \in CardInstance, NEW targets, NEW hint \in Hint,
             CastSpell(p, c, targets, hint)
      PROVE  BoardShape'
  BY <1>7 DEF CastSpell, BoardShape
<1>8. ASSUME NEW hint \in Hint, DeclareAttack(p, hint) PROVE BoardShape'
  BY <1>8 DEF DeclareAttack, pileVars, BoardShape
<1>9. ASSUME EndTurn(p) PROVE BoardShape'
  BY <1>9 DEF EndTurn, BoardShape
<1>10. ASSUME NEW t, ConvertCoin(p, t) \/ ChooseManaType(p, t)
       PROVE  BoardShape'
  BY <1>10 DEF ConvertCoin, ChooseManaType, BoardShape
<1>11. ASSUME NEW i, ChoosePrize(p, i) PROVE BoardShape'
  BY <1>11 DEF ChoosePrize, BoardShape
<1>12. ASSUME Resign(p) PROVE BoardShape'
  BY <1>12 DEF Resign, BoardShape
<1> QED
  BY <1>1, <1>2, <1>3, <1>4, <1>5, <1>6, <1>7, <1>8, <1>9, <1>10, <1>11, <1>12
     DEF PlayerAction

LEMMA BoardAfterLeaf ==
  ASSUME IInv, ApplyLeaf
  PROVE  BoardShape'
<1> USE DEF IInv
<1>1. resolving # Idle
  BY DEF ApplyLeaf, DealDamage, Heal, ReadySummon, CannotBeMovedByOpponent,
         MoveSummon, SwapPositions, SwapOpposingPositions, ProduceManaLeaf,
         DrawCards, ReturnSpellFromDiscard, ReturnSpellToDeckTop,
         LeafWithoutEffect, Applying
<1>2. Controller \in Player /\ Opponent(Controller) \in Player
  BY <1>1, ResolvingType, OpponentType
<1>3. CASE DealDamage
  <2>1. CASE Occupied(Opponent(Controller), Selected)
    BY <1>2, <1>3, <2>1, ShapedTouch DEF DealDamage, BoardShape
  <2>2. CASE ~Occupied(Opponent(Controller), Selected)
    BY <1>3, <2>2 DEF DealDamage, BoardShape
  <2> QED
    BY <2>1, <2>2
<1>4. CASE Heal
  <2>1. CASE Occupied(Controller, Aim)
    BY <1>2, <1>4, <2>1, ShapedTouch DEF Heal, BoardShape
  <2>2. CASE ~Occupied(Controller, Aim)
    BY <1>4, <2>2 DEF Heal, BoardShape
  <2> QED
    BY <2>1, <2>2
<1>5. CASE ReadySummon
  <2>1. CASE Occupied(Controller, Selected)
    BY <1>2, <1>5, <2>1, ShapedTouch DEF ReadySummon, BoardShape
  <2>2. CASE ~Occupied(Controller, Selected)
    BY <1>5, <2>2 DEF ReadySummon, BoardShape
  <2> QED
    BY <2>1, <2>2
<1>6. CASE CannotBeMovedByOpponent
  <2>1. CASE Occupied(Controller, Aim)
    BY <1>2, <1>6, <2>1, ShapedTouch DEF CannotBeMovedByOpponent, BoardShape
  <2>2. CASE ~Occupied(Controller, Aim)
    BY <1>6, <2>2 DEF CannotBeMovedByOpponent, BoardShape
  <2> QED
    BY <2>1, <2>2
<1>7. CASE MoveSummon
  <2> DEFINE p == Controller
             from == Targets[1]
             to == Targets[2]
  <2>1. CASE board' = board
    BY <2>1 DEF BoardShape
  <2>2. CASE board' # board
    <3>1. /\ from \in Position /\ to \in Position
          /\ board' = [board EXCEPT ![p][to] = board[p][from],
                                    ![p][from] = NoSummon]
      BY <1>7, <2>2 DEF MoveSummon, Position
    <3>2. Shaped(board[p][from]) /\ Shaped(NoSummon)
      BY <1>2, <3>1, ShapedEmpty DEF BoardShape, ShapedBoard
    <3>3. ShapedBoard([board EXCEPT ![p][to] = board[p][from]])
      BY <1>2, <3>1, <3>2, ShapedPut DEF BoardShape
    <3> QED
      BY <1>2, <3>1, <3>2, <3>3, ShapedPut DEF BoardShape
  <2> QED
    BY <2>1, <2>2
<1>8. CASE SwapPositions \/ SwapOpposingPositions
  <2>1. \/ board' = board
        \/ \E p \in Player, slot \in Bench : board' = Exchanged(p, slot)
    BY <1>2, <1>8 DEF SwapPositions, SwapOpposingPositions, Exchange
  <2> QED
    BY <2>1, ShapedExchanged DEF Position, BoardShape
<1>9. CASE \/ ProduceManaLeaf \/ DrawCards \/ ReturnSpellFromDiscard
           \/ ReturnSpellToDeckTop \/ LeafWithoutEffect
  BY <1>9 DEF ProduceManaLeaf, DrawCards, ReturnSpellFromDiscard,
              ReturnSpellToDeckTop, LeafWithoutEffect, BoardShape
<1> QED
  BY <1>3, <1>4, <1>5, <1>6, <1>7, <1>8, <1>9 DEF ApplyLeaf

\* The loop executes the front of the queue, over a settled Stack segment.
LEMMA ExecutingItem ==
  ASSUME ControlType, ExecuteWorkItem
  PROVE  /\ Draining /\ ~StackHasUnresolvedItems
         /\ work # <<>> /\ Item \in WorkItem /\ Rest \in Seq(WorkItem)
<1>1. \E op : Executing(op)
  BY DEF ExecuteWorkItem, ReadyAll, DrawCard, ProduceMana, BeginMainPhase,
         DestructionCheck, DiscardDestroyedChain, RecordMainLoss, RecoverPrize,
         PromoteBenchSummon, ResolveMovementConsequences, LossCheck,
         RunMovementTrigger, FireRespondable, FireImmediate, FireVanished
<1>2. Draining /\ ~StackHasUnresolvedItems /\ work # <<>>
  BY <1>1 DEF Executing
<1> QED
  BY <1>2, HeadTailProperties DEF ControlType, Item, Rest

LEMMA BoardAfterWork ==
  ASSUME IInv, ExecuteWorkItem
  PROVE  BoardShape'
<1> USE DEF IInv
<1>1. Item \in WorkItem
  BY ExecutingItem
<1>2. CASE ReadyAll
  <2>1. ShapedBoard([board EXCEPT ![active] =
                       [q \in Position |-> Readied(board[active][q])]])
    BY ShapedFresh DEF BoardShape, ShapedBoard, ControlType
  <2> QED
    BY <1>2, <2>1 DEF ReadyAll, BoardShape
<1>3. CASE DiscardDestroyedChain
  <2>1. \/ board' = board
        \/ \E p \in Player, q \in Position :
              board' = [board EXCEPT ![p][q] = NoSummon]
    <3>1. Item.position \in Position
      BY <1>1, <1>3 DEF DiscardDestroyedChain, Executing, WorkItem, PlayerWork
    <3>2. Victims(Item.position) \subseteq Player
      BY OpponentType DEF Victims, First, Second, ControlType
    <3> QED
      BY <1>3, <3>1, <3>2 DEF DiscardDestroyedChain, DiscardNothing, DiscardVictim
  <2> QED
    BY <2>1, ShapedEmpty, ShapedPut DEF BoardShape
<1>4. CASE PromoteBenchSummon
  <2>1. Item.player \in Player
    BY <1>1, <1>4 DEF PromoteBenchSummon, Executing, WorkItem, PlayerWork
  <2>2. CASE Cardinality(OccupiedBench(Item.player)) = 1
    <3>1. PICK slot : board' = Promoted(Item.player, slot)
                      /\ slot = CHOOSE q \in OccupiedBench(Item.player) : TRUE
      BY <1>4, <2>2 DEF PromoteBenchSummon
    <3>2. OccupiedBench(Item.player) # {}
      BY <2>2, FS_EmptySet
    <3>3. slot \in Position
      BY <3>1, <3>2 DEF OccupiedBench, OccupiedPositions
    <3> QED
      BY <2>1, <3>1, <3>3, ShapedPromoted DEF BoardShape
  <2>3. CASE Cardinality(OccupiedBench(Item.player)) # 1
    BY <1>4, <2>3 DEF PromoteBenchSummon, BoardShape
  <2> QED
    BY <2>2, <2>3
<1>5. CASE RunMovementTrigger
  <2>1. Item.player \in Player
    BY <1>1, <1>5 DEF RunMovementTrigger, Executing, WorkItem, PlayerWork
  <2>2. \/ board' = board
        \/ /\ Occupied(Item.player, Main)
           /\ board' = [board EXCEPT ![Item.player][Main].enteredMain = TRUE]
    BY <1>5 DEF RunMovementTrigger, MarkedArrival
  <2>3. Occupied(Item.player, Main) =>
          ShapedBoard([board EXCEPT ![Item.player][Main].enteredMain = TRUE])
    BY <2>1, ShapedTouch
  <2> QED
    BY <2>2, <2>3 DEF BoardShape
<1>6. CASE \/ DrawCard \/ ProduceMana \/ BeginMainPhase \/ DestructionCheck
           \/ RecordMainLoss \/ RecoverPrize \/ ResolveMovementConsequences
           \/ LossCheck \/ FireRespondable \/ FireImmediate \/ FireVanished
  BY <1>6 DEF DrawCard, ProduceMana, BeginMainPhase, DestructionCheck,
              RecordMainLoss, RecoverPrize, ResolveMovementConsequences,
              LossCheck, FireRespondable, FireImmediate, FireVanished, BoardShape
<1> QED
  BY <1>2, <1>3, <1>4, <1>5, <1>6 DEF ExecuteWorkItem

LEMMA BoardShapeStep ==
  ASSUME IInv, Next
  PROVE  BoardShape'
<1>1. CASE ResolveTopStackItem \/ FinishResolving
  BY <1>1 DEF ResolveTopStackItem, FinishResolving, IInv, BoardShape
<1> QED
  BY <1>1, BoardAfterLeaf, BoardAfterWork, BoardAfterPlayer DEF Next, DrainStep

-----------------------------------------------------------------------------
(* What a resting and a draining match look like.                          *)

LEMMA SettledStack ==
  ASSUME IInv, resolving = Idle, ~StackHasUnresolvedItems
  PROVE  stack = <<>> /\ bases = <<>>
<1>1. bases \in {<<>>, <<0>>} /\ Len(stack) \in Nat
  BY DEF IInv, ControlInv, SegmentsNeverNest, ControlType
<1>2. CurrentBase = 0
  BY <1>1 DEF CurrentBase, Last
<1>3. stack = <<>>
  BY <1>1, <1>2, EmptySeq DEF StackHasUnresolvedItems, IInv, ControlType
<1> QED
  BY <1>3 DEF IInv, ControlInv, SegmentsNeverNest

LEMMA ActingFacts ==
  ASSUME IInv, NEW p, MayAct(p)
  PROVE  /\ resolving = Idle
         /\ pending = NoPending /\ window = NoWindow =>
              /\ stack = <<>> /\ bases = <<>> /\ work = <<>>
              /\ phase # "Upkeep"
<1>1. resolving = Idle /\ ~MatchOver
  BY DEF MayAct, AtRest
<1>2. ASSUME pending = NoPending, window = NoWindow
      PROVE  stack = <<>> /\ bases = <<>> /\ work = <<>> /\ phase # "Upkeep"
  <2>1. ~StackHasUnresolvedItems /\ work = <<>>
    BY <1>1, <1>2 DEF MayAct, AtRest, Settled
  <2>2. phase # "Upkeep"
    BY <2>1 DEF IInv, ControlInv, UpkeepGoesOn, Advances
  <2> QED
    BY <1>1, <2>1, <2>2, SettledStack
<1> QED
  BY <1>1, <1>2

LEMMA ControlUnchanged ==
  ASSUME IInv,
         UNCHANGED <<active, phase, window, stack, bases, work, pending, resolving>>
  PROVE  ControlType' /\ ControlInv'
BY DEF IInv, ControlType, ControlInv, SegmentsNeverNest, OneActorAtATime,
       HandoverIsClean, UpkeepGoesOn, FromStack

LEMMA AppendItem ==
  ASSUME ControlType, NEW item \in ItemOf(OnStack),
         item.kind = "Spell" => item.cards # <<>>,
         stack' = Append(stack, item)
  PROVE  /\ stack' \in Seq(ItemOf(OnStack)) /\ stack' # <<>>
         /\ (\A i \in DOMAIN stack :
                stack[i].kind = "Spell" => stack[i].cards # <<>>)'
<1>1. /\ stack' \in Seq(ItemOf(OnStack)) /\ stack' # <<>>
      /\ DOMAIN stack' = 1 .. Len(stack) + 1
      /\ \A i \in 1 .. Len(stack) : stack'[i] = stack[i]
      /\ stack'[Len(stack) + 1] = item
      /\ DOMAIN stack = 1 .. Len(stack) /\ Len(stack) \in Nat
  BY AppendProperties DEF ControlType
<1> QED
  BY <1>1 DEF ControlType

LEMMA WindowAfterPlayType ==
  ASSUME NEW p \in Player
  PROVE  /\ WindowAfterPlay(p) \in [holder : Player, priorPass : BOOLEAN]
         /\ WindowAfterPlay(p) # NoWindow
BY DEF WindowAfterPlay, NoWindow, Player, Opponent

-----------------------------------------------------------------------------
(* Every action of a player keeps the control invariant.                   *)

LEMMA ControlAfterPlay ==
  ASSUME IInv, NEW p \in Player,
         \/ \E hint \in Hint : DeclareAttack(p, hint)
         \/ \E c \in CardInstance, targets \in TargetChoices, hint \in Hint :
              CastSpell(p, c, targets, hint)
  PROVE  ControlType' /\ ControlInv'
<1> USE DEF IInv
<1>1. /\ MayAct(p) /\ pending = NoPending
      /\ window' = WindowAfterPlay(p)
      /\ UNCHANGED <<active, bases, work, pending, resolving>>
      /\ phase' \in Phase /\ (phase' = "Upkeep" => phase = "Upkeep")
  BY DEF DeclareAttack, CastSpell, ControlType, Phase
<1>2. /\ stack' \in Seq(ItemOf(OnStack)) /\ stack' # <<>>
      /\ (\A i \in DOMAIN stack :
             stack[i].kind = "Spell" => stack[i].cards # <<>>)'
  <2>1. CASE \E hint \in Hint : DeclareAttack(p, hint)
    <3>1. /\ AttackItem(p) \in ItemOf(OnStack)
          /\ AttackItem(p).kind # "Spell"
      BY DEF AttackItem, StackItem, ItemOf, OnStack, Position, Main
    <3> QED
      BY <2>1, <3>1, AppendItem DEF DeclareAttack
  <2>2. CASE \E c \in CardInstance, targets \in TargetChoices, hint \in Hint :
               CastSpell(p, c, targets, hint)
    <3>1. PICK c \in CardInstance, targets \in TargetChoices, hint \in Hint :
            CastSpell(p, c, targets, hint)
      BY <2>2
    <3>2. targets \in Seq(Position)
      BY TargetAssumption
    <3>3. SpellItem(p, c, targets) \in ItemOf(OnStack)
      BY <3>2 DEF SpellItem, StackItem, ItemOf, OnStack
    <3>4. SpellItem(p, c, targets).cards # <<>>
      BY DEF SpellItem, StackItem
    <3> QED
      BY <3>1, <3>3, <3>4, AppendItem DEF CastSpell
  <2> QED
    BY <2>1, <2>2
<1>3. resolving = Idle
  BY <1>1, ActingFacts
<1>4. window' \in [holder : Player, priorPass : BOOLEAN]
  BY <1>1, WindowAfterPlayType
<1>5. ControlType'
  BY <1>1, <1>2, <1>4 DEF ControlType
<1>6. ControlInv'
  BY <1>1, <1>2, <1>3 DEF ControlInv, SegmentsNeverNest, OneActorAtATime,
                          HandoverIsClean, UpkeepGoesOn
<1> QED
  BY <1>5, <1>6

LEMMA ControlAfterPass ==
  ASSUME IInv, NEW p \in Player, PassPriority(p)
  PROVE  ControlType' /\ ControlInv'
<1> USE DEF IInv
<1>1. resolving = Idle /\ pending = NoPending /\ window # NoWindow
  BY ActingFacts DEF PassPriority, HoldsPriority
<1>2. CASE MovePriority(p)
  <2>1. window' \in [holder : Player, priorPass : BOOLEAN]
    BY <1>2, OpponentType DEF MovePriority
  <2> QED
    BY <1>1, <1>2, <2>1
       DEF MovePriority, stackVars, ControlType, ControlInv, SegmentsNeverNest,
           OneActorAtATime, HandoverIsClean, UpkeepGoesOn
<1>3. CASE CloseWindow
  BY <1>1, <1>3
     DEF CloseWindow, stackVars, ControlType, ControlInv, SegmentsNeverNest,
         OneActorAtATime, HandoverIsClean, UpkeepGoesOn
<1>4. CASE stack = <<>> /\ Handover
  <2> DEFINE next == Opponent(active)
  <2>1. work = <<>> /\ bases = <<>>
    BY <1>1, <1>4 DEF ControlInv, HandoverIsClean
  <2>2. next \in Player
    BY OpponentType DEF ControlType
  <2>3. Candidates(next, "YourUpkeep") \in Seq(WorkItem)
    BY <2>2, CandidatesType DEF TriggerEvent
  <2>4. /\ Step("ReadyAll") \in WorkItem /\ Step("DrawCard") \in WorkItem
        /\ For("ProduceMana", next) \in WorkItem
        /\ Step("BeginMainPhase") \in WorkItem
    BY <2>2 DEF Step, For, WorkItem, PlayerWork
  <2> DEFINE before == << Step("ReadyAll") >> \o Candidates(next, "YourUpkeep")
             last == << Step("DrawCard"), For("ProduceMana", next),
                        Step("BeginMainPhase") >>
  <2>5. before \in Seq(WorkItem) /\ last \in Seq(WorkItem)
    BY <2>3, <2>4
  <2>6. Advances(last)
    BY DEF Advances, Step
  <2>7. UpkeepSteps(next) = before \o last
    BY <2>3, <2>4 DEF UpkeepSteps
  <2> HIDE DEF next, before, last
  <2>8. UpkeepSteps(next) \in Seq(WorkItem) /\ Advances(UpkeepSteps(next))
    BY <2>5, <2>6, <2>7, AdvancesKept
  <2>9. work' = UpkeepSteps(next)
    BY <1>4, <2>1, <2>8 DEF Handover, NextPlayer, next
  <2>10. ControlType'
    BY <1>4, <2>2, <2>8, <2>9
       DEF Handover, NextPlayer, next, stackVars, ControlType, Phase
  <2>11. ControlInv'
    BY <1>1, <1>4, <2>1, <2>8, <2>9
       DEF Handover, NextPlayer, stackVars, ControlInv, SegmentsNeverNest,
           OneActorAtATime, HandoverIsClean, UpkeepGoesOn
  <2> QED
    BY <2>10, <2>11
<1> QED
  BY <1>2, <1>3, <1>4 DEF PassPriority

LEMMA ControlAfterPlayer ==
  ASSUME IInv, NEW p \in Player, PlayerAction(p)
  PROVE  ControlType' /\ ControlInv'
<1> USE DEF IInv
<1>1. CASE \/ \E c \in CardInstance, slot \in Bench : PlaySummon(p, c, slot)
           \/ \E c \in CardInstance, q \in Position : UpgradeSummon(p, c, q)
           \/ \E t \in ManaType : ConvertCoin(p, t)
           \/ Resign(p)
  BY <1>1, ControlUnchanged
     DEF PlaySummon, UpgradeSummon, ConvertCoin, Resign, turnVars, stackVars
<1>2. CASE \/ \E t \in ManaType : ChooseManaType(p, t)
           \/ \E slot \in Bench : ChoosePromotion(p, slot)
           \/ \E i \in DOMAIN prizes[Opponent(p)] : ChoosePrize(p, i)
  <2>1. /\ UNCHANGED <<active, phase, window, stack, bases, work, resolving>>
        /\ pending' = NoPending
    BY <1>2 DEF ChooseManaType, ChoosePromotion, ChoosePrize, turnVars, stackVars
  <2> QED
    BY <2>1 DEF ControlType, ControlInv, SegmentsNeverNest, OneActorAtATime,
                HandoverIsClean, UpkeepGoesOn, FromStack
<1>3. CASE \E q \in Position, targets \in TargetChoices, hint \in Hint :
             \E i \in (IF Occupied(p, q) THEN DOMAIN FaceAt(p, q).skills ELSE {}) :
               ActivateSkill(p, q, i, targets, hint)
  <2>a. PICK q \in Position, targets \in TargetChoices, hint \in Hint :
          \E i \in (IF Occupied(p, q) THEN DOMAIN FaceAt(p, q).skills ELSE {}) :
            ActivateSkill(p, q, i, targets, hint)
    BY <1>3
  <2>1. PICK i : ActivateSkill(p, q, i, targets, hint)
    BY <2>a
  <2> DEFINE skill == FaceAt(p, q).skills[i]
  <2>2. Occupied(p, q) /\ i \in DOMAIN FaceAt(p, q).skills
    BY <2>1 DEF ActivateSkill
  <2>3. FaceAt(p, q).skills \in Seq(Skill)
    BY <2>2, CardAtType DEF CardFace
  <2>4. skill \in Skill
    BY <2>2, <2>3, ElementOfSeq, LenProperties
  <2>5. skill.leaves \in Seq(EffectLeaf) /\ targets \in Seq(Position)
    BY <2>4, TargetAssumption DEF Skill
  <2>6. resolving' = StackItem("Skill", p, q, <<>>, targets, skill.leaves)
    BY <2>1 DEF ActivateSkill
  <2>7. resolving' \in ItemOf(OnStack \cup OffStack)
    BY <2>5, <2>6 DEF StackItem, ItemOf, OffStack
  <2>8. /\ window = NoWindow
        /\ UNCHANGED <<active, phase, window, stack, bases, work, pending>>
    BY <2>1 DEF ActivateSkill, FreeMainPhase, turnVars, stackVars
  <2>9. resolving = Idle
    BY <2>1, ActingFacts DEF ActivateSkill
  <2>10. ControlType'
    BY <2>7, <2>8 DEF ControlType
  <2>11. ControlInv'
    BY <2>8, <2>9 DEF ControlInv, SegmentsNeverNest, OneActorAtATime,
                      HandoverIsClean, UpkeepGoesOn
  <2> QED
    BY <2>10, <2>11
<1>4. CASE \E slot \in Bench, hint \in Hint : Retreat(p, slot, hint)
  <2>1. PICK slot \in Bench, hint \in Hint : Retreat(p, slot, hint)
    BY <1>4
  <2>2. ExchangeSteps(p, slot) \in Seq(WorkItem)
    BY ExchangeStepsType DEF Position
  <2>3. work' \in Seq(WorkItem)
    BY <2>1, <2>2, ConcatProperties DEF Retreat, ControlType
  <2>4. /\ window = NoWindow /\ phase = "Main"
        /\ UNCHANGED <<active, phase, window, stack, bases, pending, resolving>>
    BY <2>1 DEF Retreat, FreeMainPhase, stackVars
  <2> QED
    BY <2>3, <2>4 DEF ControlType, ControlInv, SegmentsNeverNest, FromStack,
                      OneActorAtATime, HandoverIsClean, UpkeepGoesOn
<1>5. CASE EndTurn(p)
  <2>1. /\ MayAct(p) /\ pending = NoPending /\ window = NoWindow
        /\ window' = WindowAfterPlay(p)
        /\ UNCHANGED <<active, phase, stack, bases, work, pending, resolving>>
    BY <1>5 DEF EndTurn, NothingOpen, stackVars
  <2>2. /\ stack = <<>> /\ bases = <<>> /\ work = <<>> /\ resolving = Idle
        /\ phase # "Upkeep"
    BY <2>1, ActingFacts
  <2>3. window' \in [holder : Player, priorPass : BOOLEAN]
    BY <2>1, WindowAfterPlayType
  <2> QED
    BY <2>1, <2>2, <2>3
       DEF ControlType, ControlInv, SegmentsNeverNest, OneActorAtATime,
           HandoverIsClean, UpkeepGoesOn
<1> QED
  BY <1>1, <1>2, <1>3, <1>4, <1>5, ControlAfterPlay, ControlAfterPass
     DEF PlayerAction

-----------------------------------------------------------------------------
(* Every step of the resolution loop keeps the control invariant.          *)

\* The effects of a Stack item are a list of leaves, wherever they are read.
LEMMA ResolutionLeavesType ==
  ASSUME BoardShape, NEW item \in ItemOf(OnStack),
         item.kind = "Spell" => item.cards # <<>>
  PROVE  ResolutionLeaves(item) \in Seq(EffectLeaf)
<1>1. item.controller \in Player /\ item.leaves \in Seq(EffectLeaf)
  BY DEF ItemOf
<1>2. CASE item.kind = "Attack"
  <2>1. Occupied(item.controller, Main) =>
          FaceAt(item.controller, Main).attackLeaves \in Seq(EffectLeaf)
    BY <1>1, CardAtType DEF CardFace
  <2> QED
    BY <1>2, <2>1 DEF ResolutionLeaves
<1>3. CASE item.kind = "Spell"
  <2>1. item.cards \in Seq(CardInstance) /\ item.cards # <<>>
    BY <1>3 DEF ItemOf
  <2>2. item.cards[1] \in CardInstance
    BY <2>1
  <2>3. Face[item.cards[1]].leaves \in Seq(EffectLeaf)
    BY <2>2, FaceAssumption DEF CardFace
  <2> QED
    BY <1>3, <2>3 DEF ResolutionLeaves
<1>4. CASE item.kind = "Trigger"
  BY <1>1, <1>4 DEF ResolutionLeaves
<1> QED
  BY <1>2, <1>3, <1>4 DEF ItemOf, OnStack

LEMMA ControlAfterResolveTop ==
  ASSUME IInv, ResolveTopStackItem
  PROVE  ControlType' /\ ControlInv'
<1> USE DEF IInv
<1> DEFINE item == Last(stack)
<1>1. /\ Draining /\ StackHasUnresolvedItems
      /\ stack' = Front(stack)
      /\ resolving' = [item EXCEPT !.leaves = ResolutionLeaves(item)]
      /\ UNCHANGED <<active, phase, window, bases, work, pending>>
  BY DEF ResolveTopStackItem, turnVars
<1>2. stack # <<>>
  <2>1. CurrentBase \in Nat
    BY DEF CurrentBase, Last, ControlInv, SegmentsNeverNest
  <2> QED
    BY <1>1, <2>1 DEF StackHasUnresolvedItems
<1>3. /\ stack' \in Seq(ItemOf(OnStack))
      /\ item \in ItemOf(OnStack)
      /\ item.kind = "Spell" => item.cards # <<>>
      /\ (\A i \in DOMAIN stack :
             stack[i].kind = "Spell" => stack[i].cards # <<>>)'
  BY <1>1, <1>2 DEF ControlType, Front, Last
<1>4. ResolutionLeaves(item) \in Seq(EffectLeaf)
  BY <1>3, ResolutionLeavesType
<1> HIDE DEF item
<1>5. /\ resolving' \in ItemOf(OnStack \cup OffStack)
      /\ resolving'.kind \in OnStack
  BY <1>1, <1>3, <1>4 DEF ItemOf, OnStack
<1>6. window = NoWindow
  BY <1>1 DEF Draining
<1>7. ControlType'
  BY <1>1, <1>3, <1>5 DEF ControlType
<1>8. ControlInv'
  BY <1>1, <1>5, <1>6, ItemKinds DEF ControlInv, SegmentsNeverNest, FromStack,
     OneActorAtATime, HandoverIsClean, UpkeepGoesOn
<1> QED
  BY <1>7, <1>8

LEMMA ControlAfterFinish ==
  ASSUME IInv, FinishResolving
  PROVE  ControlType' /\ ControlInv'
<1> USE DEF IInv
<1>1. /\ resolving # Idle /\ resolving' = Idle
      /\ bases' = BasesOnceSettled
      /\ UNCHANGED <<active, phase, window, stack, work, pending>>
  BY DEF FinishResolving, turnVars
<1>2. window = NoWindow
  BY <1>1 DEF ControlInv, OneActorAtATime
<1>3. bases \in {<<>>, <<0>>} /\ (bases # <<>> => stack # <<>> \/ FromStack)
  BY <1>1 DEF ControlInv, SegmentsNeverNest
<1>4. bases' \in {<<>>, <<0>>} /\ (bases' # <<>> => stack # <<>>)
  <2>1. CASE FromStack /\ bases = <<0>> /\ Len(stack) = 0
    BY <1>1, <2>1 DEF BasesOnceSettled, Last, Front
  <2>2. CASE ~(FromStack /\ bases = <<0>> /\ Len(stack) = 0)
    BY <1>1, <1>3, <2>2 DEF BasesOnceSettled, Last, ControlType
  <2> QED
    BY <2>1, <2>2
<1>5. ControlType'
  BY <1>1 DEF ControlType
<1>6. ControlInv'
  BY <1>1, <1>2, <1>4
     DEF ControlInv, SegmentsNeverNest, OneActorAtATime, HandoverIsClean,
         UpkeepGoesOn
<1> QED
  BY <1>5, <1>6

LEMMA ControlAfterLeaf ==
  ASSUME IInv, ApplyLeaf
  PROVE  ControlType' /\ ControlInv'
<1> USE DEF IInv
<1>1. PICK kind : Applying(kind)
  BY DEF ApplyLeaf, DealDamage, Heal, ReadySummon, CannotBeMovedByOpponent,
         MoveSummon, SwapPositions, SwapOpposingPositions, ProduceManaLeaf,
         DrawCards, ReturnSpellFromDiscard, ReturnSpellToDeckTop,
         LeafWithoutEffect
<1>2. /\ resolving # Idle /\ resolving.leaves # <<>>
      /\ resolving' = [resolving EXCEPT !.leaves = Tail(@)]
  BY <1>1 DEF Applying
<1>3. resolving \in ItemOf(OnStack \cup OffStack)
  BY <1>2 DEF ControlType
<1>4. Tail(resolving.leaves) \in Seq(EffectLeaf)
  BY <1>2, <1>3, HeadTailProperties DEF ItemOf
<1>5. /\ resolving' \in ItemOf(OnStack \cup OffStack)
      /\ resolving'.kind = resolving.kind
  BY <1>2, <1>3, <1>4 DEF ItemOf
<1>6. UNCHANGED <<active, phase, window, stack, bases>>
  BY DEF ApplyLeaf, DealDamage, Heal, ReadySummon, CannotBeMovedByOpponent,
         MoveSummon, SwapPositions, SwapOpposingPositions, Exchange,
         ProduceManaLeaf, DrawCards, ReturnSpellFromDiscard,
         ReturnSpellToDeckTop, LeafWithoutEffect, BoardOnly, turnVars, stackVars
<1>7. work' \in Seq(WorkItem) /\ (Advances(work) => Advances(work'))
  <2>1. Controller \in Player /\ Opponent(Controller) \in Player
    BY <1>2, ResolvingType, OpponentType
  <2>2. ASSUME NEW more \in Seq(WorkItem), work' = work \o more
        PROVE  work' \in Seq(WorkItem) /\ (Advances(work) => Advances(work'))
    BY <2>2, AdvancesKept, ConcatProperties DEF ControlType
  <2>3. CASE work' = work
    BY <2>3 DEF ControlType
  <2>4. CASE DealDamage /\ work' # work
    <3>1. /\ Selected \in Position
          /\ work' = Append(work, At("DestructionCheck", Selected))
      BY <2>4 DEF DealDamage, Occupied
    <3>2. At("DestructionCheck", Selected) \in WorkItem
      BY <3>1 DEF At, WorkItem
    <3>3. /\ << At("DestructionCheck", Selected) >> \in Seq(WorkItem)
          /\ work' = work \o << At("DestructionCheck", Selected) >>
      BY <3>1, <3>2, AppendIsConcat DEF ControlType
    <3> QED
      BY <2>2, <3>3
  <2>5. CASE MoveSummon /\ work' # work
    <3> DEFINE p == Controller
               to == Targets[2]
               more == << MovementTrigger("LeavingBench", p, to),
                          MovementTrigger("EnteringBench", p, to) >>
    <3>1. to \in Position /\ work' = work \o more
      BY <2>5 DEF MoveSummon, Position
    <3>2. more \in Seq(WorkItem)
      <4>1. /\ MovementTrigger("LeavingBench", p, to) \in WorkItem
            /\ MovementTrigger("EnteringBench", p, to) \in WorkItem
        BY <2>1, <3>1 DEF MovementTrigger, WorkItem, MovementSteps
      <4> QED
        BY <4>1
    <3> HIDE DEF more
    <3> QED
      BY <2>2, <3>1, <3>2
  <2>6. CASE (SwapPositions \/ SwapOpposingPositions) /\ work' # work
    <3>1. PICK p \in Player, slot \in Position :
            work' = work \o ExchangeSteps(p, slot)
      BY <2>1, <2>6 DEF SwapPositions, SwapOpposingPositions, Exchange, Position
    <3>2. ExchangeSteps(p, slot) \in Seq(WorkItem)
      BY ExchangeStepsType
    <3> QED
      BY <2>2, <3>1, <3>2
  <2>7. CASE \/ Heal \/ ReadySummon \/ CannotBeMovedByOpponent
             \/ ProduceManaLeaf \/ DrawCards \/ ReturnSpellFromDiscard
             \/ ReturnSpellToDeckTop \/ LeafWithoutEffect
    <3>1. work' = work
      BY <2>7 DEF Heal, ReadySummon, CannotBeMovedByOpponent, ProduceManaLeaf,
                  DrawCards, ReturnSpellFromDiscard, ReturnSpellToDeckTop,
                  LeafWithoutEffect, BoardOnly
    <3> QED
      BY <2>3, <3>1
  <2> QED
    BY <2>3, <2>4, <2>5, <2>6, <2>7 DEF ApplyLeaf
<1>8. window = NoWindow
  BY <1>2 DEF ControlInv, OneActorAtATime
<1>9. ControlType'
  BY <1>5, <1>6, <1>7 DEF ControlType
<1>10. ControlInv'
  BY <1>2, <1>5, <1>6, <1>7, <1>8, ItemKinds
     DEF ControlInv, SegmentsNeverNest, FromStack, OneActorAtATime,
         HandoverIsClean, UpkeepGoesOn
<1> QED
  BY <1>9, <1>10

\* An item that is not the advance leaves the advance in the queue, whatever
\* it puts in front of the rest or behind it.
LEMMA RestKept ==
  ASSUME IInv, ExecuteWorkItem
  PROVE  /\ Rest \in Seq(WorkItem)
         /\ Item.op # "BeginMainPhase" /\ Advances(work) => Advances(Rest)
<1>1. Rest \in Seq(WorkItem) /\ work \in Seq(WorkItem) /\ work # <<>>
  BY ExecutingItem DEF IInv, ControlType
<1> QED
  BY <1>1, AdvancesBehind DEF Item, Rest

LEMMA QueueKept ==
  ASSUME IInv, ExecuteWorkItem, NEW more \in Seq(WorkItem)
  PROVE  /\ more \o Rest \in Seq(WorkItem)
         /\ Rest \o more \in Seq(WorkItem)
         /\ Item.op # "BeginMainPhase" /\ Advances(work) =>
              Advances(more \o Rest) /\ Advances(Rest \o more)
<1>1. Advances(Rest) => Advances(more \o Rest) /\ Advances(Rest \o more)
  BY RestKept, AdvancesKept
<1> QED
  BY <1>1, RestKept, ConcatProperties

\* The triggers a destruction queues, in the order of rules section 41.
LEMMA DestructionTriggersType ==
  BoardShape /\ active \in Player =>
    Candidates(First, "AnySummonDestroyed")
      \o Candidates(Second, "AnySummonDestroyed") \in Seq(WorkItem)
<1> SUFFICES ASSUME BoardShape, active \in Player
             PROVE  Candidates(First, "AnySummonDestroyed")
                      \o Candidates(Second, "AnySummonDestroyed")
                      \in Seq(WorkItem)
  OBVIOUS
<1>1. /\ First \in Player /\ Second \in Player
      /\ "AnySummonDestroyed" \in TriggerEvent
  BY OpponentType DEF First, Second, TriggerEvent
<1> QED
  BY <1>1, CandidatesType, ConcatProperties

LEMMA ChainIfDestroyedType ==
  ASSUME NEW p \in Player, NEW q \in Position
  PROVE  ChainIfDestroyed(p, q) \in Seq(WorkItem)
BY DestructionChainType DEF ChainIfDestroyed

\* What most items do to the control state: nothing but their queue.
LEMMA ControlAfterQueue ==
  ASSUME IInv, ExecuteWorkItem,
         UNCHANGED <<active, phase, window, stack, bases, resolving>>,
         work' \in Seq(WorkItem), Advances(work) => Advances(work')
  PROVE  ControlType' /\ ControlInv'
<1>1. window = NoWindow
  BY ExecutingItem DEF Draining, IInv
<1> QED
  BY <1>1 DEF IInv, ControlType, ControlInv, SegmentsNeverNest, FromStack,
              OneActorAtATime, HandoverIsClean, UpkeepGoesOn

\* The ability a queued trigger fires is one its Summon prints.
LEMMA FiringAbilityType ==
  ASSUME IInv, ExecuteWorkItem, Item.op = "FireTrigger"
  PROVE  /\ Item.player \in Player /\ Item.position \in Position
         /\ FiringAbility \subseteq Ability
<1>1. Item.player \in Player /\ Item.position \in Position
  BY ExecutingItem DEF IInv, WorkItem, PlayerWork
<1>2. ASSUME NEW ability \in FiringAbility PROVE ability \in Ability
  <2>1. /\ Occupied(Item.player, Item.position)
        /\ ability \in PrintedTriggers(CardAt(Item.player, Item.position))
    BY <1>2 DEF FiringAbility
  <2> DEFINE card == CardAt(Item.player, Item.position)
  <2>2. card \in CardInstance
    BY <1>1, <2>1, CardAtType DEF IInv
  <2>3. PICK e \in TriggerEvent : ability \in Range(Face[card].triggers[e])
    BY <2>1 DEF PrintedTriggers
  <2>4. Face[card].triggers[e] \in Seq(Ability)
    BY <2>2, FaceAssumption DEF CardFace
  <2> QED
    BY <2>3, <2>4, ElementOfSeq, LenProperties DEF Range
<1> QED
  BY <1>1, <1>2

LEMMA TriggerItemType ==
  ASSUME Item.player \in Player, Item.position \in Position,
         NEW kind, NEW ability \in Ability
  PROVE  TriggerItem(kind, ability) \in ItemOf({kind})
<1>1. ability.leaves \in Seq(EffectLeaf)
  BY DEF Ability
<1>2. ImplicitTargets(Item.position, ability.leaves) \in Seq(Position)
  <2>1. Main \in Position
    BY DEF Position
  <2>2. <<Main>> \in Seq(Position) /\ <<Item.position>> \in Seq(Position)
    BY <2>1
  <2> QED
    BY <2>2, Zenon DEF ImplicitTargets
<1> QED
  BY <1>1, <1>2 DEF TriggerItem, StackItem, ItemOf

LEMMA ControlAfterFire ==
  ASSUME IInv, ExecuteWorkItem, FireRespondable \/ FireImmediate
  PROVE  ControlType' /\ ControlInv'
<1> USE DEF IInv
<1>1. /\ Draining /\ Item.op = "FireTrigger" /\ work' = Rest
      /\ UNCHANGED <<active, phase, pending>>
  BY ExecutingItem DEF FireRespondable, FireImmediate, Executing, turnVars
<1>2. /\ resolving = Idle /\ window = NoWindow /\ pending = NoPending
      /\ stack = <<>> /\ bases = <<>>
  BY <1>1, ExecutingItem, SettledStack DEF Draining
<1>3. /\ Item.player \in Player /\ Item.position \in Position
      /\ FiringAbility \subseteq Ability
  BY <1>1, FiringAbilityType
<1>4. work' \in Seq(WorkItem) /\ (Advances(work) => Advances(work'))
  BY <1>1, RestKept
<1>5. CASE FireRespondable
  <2>1. PICK ability \in FiringAbility :
          stack' = Append(stack, TriggerItem("Trigger", ability))
    BY <1>5 DEF FireRespondable
  <2>2. TriggerItem("Trigger", ability) \in ItemOf(OnStack)
    BY <1>3, <2>1, TriggerItemType DEF ItemOf, OnStack
  <2>3. TriggerItem("Trigger", ability).kind # "Spell"
    BY DEF TriggerItem, StackItem
  <2>4. /\ stack' \in Seq(ItemOf(OnStack)) /\ stack' # <<>>
        /\ (\A i \in DOMAIN stack :
               stack[i].kind = "Spell" => stack[i].cards # <<>>)'
    BY <2>1, <2>2, <2>3, AppendItem
  <2>5. /\ bases' = <<0>> /\ window' = WindowAfterPlay(Item.player)
        /\ resolving' = resolving
    BY <1>2, <1>5 DEF FireRespondable
  <2>6. window' \in [holder : Player, priorPass : BOOLEAN]
    BY <1>3, <2>5, WindowAfterPlayType
  <2>7. ControlType'
    BY <1>1, <1>4, <2>4, <2>5, <2>6 DEF ControlType
  <2>8. ControlInv'
    BY <1>1, <1>2, <1>4, <2>4, <2>5
       DEF ControlInv, SegmentsNeverNest, OneActorAtATime, HandoverIsClean,
           UpkeepGoesOn
  <2> QED
    BY <2>7, <2>8
<1>6. CASE FireImmediate
  <2>1. PICK ability \in FiringAbility :
          resolving' = TriggerItem("Immediate", ability)
    BY <1>6 DEF FireImmediate
  <2>2. resolving' \in ItemOf(OnStack \cup OffStack)
    BY <1>3, <2>1, TriggerItemType DEF ItemOf, OffStack
  <2>3. UNCHANGED <<window, stack, bases>>
    BY <1>6 DEF FireImmediate, turnVars, stackVars
  <2>4. ControlType'
    BY <1>1, <1>4, <2>2, <2>3 DEF ControlType
  <2>5. ControlInv'
    BY <1>1, <1>2, <1>4, <2>3
       DEF ControlInv, SegmentsNeverNest, OneActorAtATime, HandoverIsClean,
           UpkeepGoesOn
  <2> QED
    BY <2>4, <2>5
<1> QED
  BY <1>5, <1>6

LEMMA ControlAfterWork ==
  ASSUME IInv, ExecuteWorkItem
  PROVE  ControlType' /\ ControlInv'
<1> USE DEF IInv
<1>0. Item \in WorkItem /\ active \in Player /\ BoardShape'
  BY ExecutingItem, BoardAfterWork DEF ControlType
<1>1. CASE \/ ReadyAll \/ DrawCard \/ ProduceMana \/ RecordMainLoss
           \/ RecoverPrize \/ PromoteBenchSummon \/ LossCheck \/ FireVanished
  <2>1. /\ UNCHANGED <<active, phase, window, stack, bases, resolving>>
        /\ work' = Rest /\ Item.op # "BeginMainPhase"
    BY <1>1 DEF ReadyAll, DrawCard, ProduceMana, RecordMainLoss, RecoverPrize,
                PromoteBenchSummon, LossCheck, FireVanished, Executing,
                turnVars, stackVars
  <2> QED
    BY <2>1, RestKept, ControlAfterQueue
<1>2. CASE BeginMainPhase
  <2>1. /\ UNCHANGED <<active, window, stack, bases, resolving>>
        /\ phase' = "Main" /\ work' = Rest
    BY <1>2 DEF BeginMainPhase, stackVars
  <2>2. work' \in Seq(WorkItem) /\ window = NoWindow
    BY <2>1, ExecutingItem DEF Draining
  <2> QED
    BY <2>1, <2>2 DEF ControlType, Phase, ControlInv, SegmentsNeverNest,
                      FromStack, OneActorAtATime, HandoverIsClean, UpkeepGoesOn
<1>3. CASE DestructionCheck
  <2> DEFINE q == Item.position
             one == ChainIfDestroyed(First, q)
             two == IF Lifeless(First, q) THEN <<>> ELSE ChainIfDestroyed(Second, q)
  <2>1. /\ UNCHANGED <<active, phase, window, stack, bases, resolving>>
        /\ work' = Rest \o one \o two /\ Item.op = "DestructionCheck"
    BY <1>3 DEF DestructionCheck, Executing, turnVars, stackVars
  <2>2. q \in Position /\ First \in Player /\ Second \in Player
    BY <1>0, <2>1, OpponentType DEF WorkItem, PlayerWork, First, Second
  <2>3. one \in Seq(WorkItem) /\ two \in Seq(WorkItem)
    BY <2>2, ChainIfDestroyedType
  <2> HIDE DEF one, two
  <2>4. /\ Rest \o one \in Seq(WorkItem)
        /\ Advances(work) => Advances(Rest \o one)
    BY <2>1, <2>3, QueueKept
  <2>5. /\ work' \in Seq(WorkItem)
        /\ Advances(work) => Advances(work')
    BY <2>1, <2>3, <2>4, AdvancesKept, ConcatProperties
  <2> QED
    BY <2>1, <2>5, ControlAfterQueue
<1>4. CASE DiscardDestroyedChain
  <2> DEFINE fired == (Candidates(First, "AnySummonDestroyed")
                         \o Candidates(Second, "AnySummonDestroyed"))'
  <2>1. /\ UNCHANGED <<active, phase, window, stack, bases, resolving>>
        /\ work' = Rest \/ work' = fired \o Rest
        /\ Item.op = "DiscardDestroyedChain"
    BY <1>4 DEF DiscardDestroyedChain, DiscardNothing, DiscardVictim, Executing,
                stackVars
  <2>2. fired \in Seq(WorkItem)
    <3>1. (BoardShape /\ active \in Player)'
      BY <1>0, <2>1
    <3>2. (Candidates(First, "AnySummonDestroyed")
             \o Candidates(Second, "AnySummonDestroyed") \in Seq(WorkItem))'
      BY <3>1, DestructionTriggersType, PTL
    <3> QED
      BY <3>2
  <2> HIDE DEF fired
  <2>3. CASE work' = Rest
    BY <2>1, <2>3, RestKept, ControlAfterQueue
  <2>4. CASE work' = fired \o Rest
    BY <2>1, <2>2, <2>4, QueueKept, ControlAfterQueue
  <2> QED
    BY <2>1, <2>3, <2>4
<1>5. CASE ResolveMovementConsequences
  <2> DEFINE front == IF Occupied(Item.player, Main)
                      THEN << MovementTrigger("LeavingBench", Item.player, Main),
                              MovementTrigger("EnteringMain", Item.player, Main) >>
                      ELSE <<>>
  <2>1. /\ UNCHANGED <<active, phase, window, stack, bases, resolving>>
        /\ work' = front \o Rest /\ Item.op = "ResolveMovementConsequences"
    BY <1>5 DEF ResolveMovementConsequences, Executing, turnVars, stackVars
  <2>2. Item.player \in Player
    BY <1>0, <2>1 DEF WorkItem, PlayerWork
  <2>3. front \in Seq(WorkItem)
    <3>1. /\ MovementTrigger("LeavingBench", Item.player, Main) \in WorkItem
          /\ MovementTrigger("EnteringMain", Item.player, Main) \in WorkItem
      BY <2>2 DEF MovementTrigger, WorkItem, MovementSteps, Position, Main
    <3> QED
      BY <3>1
  <2> HIDE DEF front
  <2> QED
    BY <2>1, <2>3, QueueKept, ControlAfterQueue
<1>6. CASE RunMovementTrigger
  <2> DEFINE e == MovementEvent(Item.step)
             front == Fires(Item.player, Item.position, e)
  <2>1. /\ UNCHANGED <<active, phase, window, stack, bases, resolving>>
        /\ work' = front \o Rest /\ Item.op = "MovementTrigger"
    BY <1>6 DEF RunMovementTrigger, Executing, turnVars, stackVars
  <2>2. /\ Item.player \in Player /\ Item.position \in Position
        /\ Item.step \in MovementSteps
    BY <1>0, <2>1 DEF WorkItem, PlayerWork
  <2>3. e \in TriggerEvent
    BY <2>2 DEF MovementEvent, MovementSteps, TriggerEvent
  <2>4. front \in Seq(WorkItem)
    BY <2>2, <2>3, FiresType
  <2> HIDE DEF front
  <2> QED
    BY <2>1, <2>4, QueueKept, ControlAfterQueue
<1>7. CASE FireRespondable \/ FireImmediate
  BY <1>7, ControlAfterFire
<1> QED
  BY <1>1, <1>2, <1>3, <1>4, <1>5, <1>6, <1>7 DEF ExecuteWorkItem

-----------------------------------------------------------------------------
(* The invariant holds of every match, and what follows from it.           *)

LEMMA InitIInv == Init => IInv
<1> SUFFICES ASSUME Init PROVE IInv
  OBVIOUS
<1>1. PICK s \in Setups : FromScenario(s)
  BY DEF Init
<1>2. /\ s.active \in Player
      /\ s.board \in [Player -> [Position -> SummonInstance \cup {NoSummon}]]
  BY SetupAssumption DEF ValidSetup
<1>3. \A summon \in SummonInstance \cup {NoSummon} : Shaped(summon)
  BY DEF SummonInstance, Shaped, SummonShape
<1>4. BoardShape
  BY <1>1, <1>2, <1>3 DEF FromScenario, BoardShape, ShapedBoard
<1>5. ControlType
  BY <1>1, <1>2 DEF FromScenario, ControlType, Phase
<1>6. ControlInv
  BY <1>1 DEF FromScenario, ControlInv, SegmentsNeverNest, OneActorAtATime,
              HandoverIsClean, UpkeepGoesOn
<1> QED
  BY <1>4, <1>5, <1>6 DEF IInv

LEMMA NextIInv == IInv /\ [Next]_vars => IInv'
<1>1. ASSUME IInv, Next PROVE IInv'
  <2>1. CASE DrainStep
    BY <1>1, <2>1, BoardShapeStep, ControlAfterResolveTop, ControlAfterFinish,
       ControlAfterLeaf, ControlAfterWork DEF DrainStep, IInv
  <2>2. CASE \E p \in Player : PlayerAction(p)
    BY <1>1, <2>2, BoardShapeStep, ControlAfterPlayer DEF IInv
  <2> QED
    BY <1>1, <2>1, <2>2 DEF Next
<1>2. ASSUME IInv, UNCHANGED vars PROVE IInv'
  <2>1. BoardShape'
    BY <1>2 DEF vars, IInv, BoardShape
  <2>2. ControlType' /\ ControlInv'
    BY <1>2, ControlUnchanged DEF vars, turnVars, stackVars
  <2> QED
    BY <2>1, <2>2 DEF IInv
<1> QED
  BY <1>1, <1>2

(***************************************************************************)
(* The inductive invariant: the control state is well typed (the Stack     *)
(* holds Attacks, Spells and triggers, the queue holds WorkItems), the     *)
(* board is made of Summons with a non-empty chain, and the four control   *)
(* properties hold together.                                               *)
(***************************************************************************)
THEOREM ControlInvariant == Spec => []IInv
<1>1. Init => IInv
  BY InitIInv
<1>2. IInv /\ [Next]_vars => IInv'
  BY NextIInv
<1> QED
  BY <1>1, <1>2, PTL DEF Spec

(***************************************************************************)
(* Stack segments never nest (GameState.stack_segment_bases, stack::pass). *)
(***************************************************************************)
THEOREM SegmentsNeverNestAlways == Spec => []SegmentsNeverNest
<1>1. IInv => SegmentsNeverNest
  BY DEF IInv, ControlInv
<1> QED
  BY <1>1, ControlInvariant, PTL

(***************************************************************************)
(* A decision and an open window exclude each other (apply::required_actor).*)
(***************************************************************************)
THEOREM OneActorAtATimeAlways == Spec => []OneActorAtATime
<1>1. IInv => OneActorAtATime
  BY DEF IInv, ControlInv
<1> QED
  BY <1>1, ControlInvariant, PTL

(***************************************************************************)
(* The end-of-turn window stands over a clean queue and no open segment    *)
(* (stack::pass, turn::handover).                                          *)
(***************************************************************************)
THEOREM HandoverIsCleanAlways == Spec => []HandoverIsClean
<1>1. IInv => HandoverIsClean
  BY DEF IInv, ControlInv
<1> QED
  BY <1>1, ControlInvariant, PTL

(***************************************************************************)
(* A match that rests on nobody's decision is never stuck in an Upkeep and *)
(* has an empty Stack: the active player can end the turn (turn::end_turn).*)
(***************************************************************************)
THEOREM QuietIsPlayableAlways == Spec => []QuietIsPlayable
<1>1. IInv => QuietIsPlayable
  <2> SUFFICES ASSUME IInv, Quiet
               PROVE  phase # "Upkeep" /\ stack = <<>> /\ bases = <<>>
    BY DEF QuietIsPlayable
  <2>1. resolving = Idle /\ ~StackHasUnresolvedItems /\ work = <<>>
    BY DEF Quiet, AtRest, Settled
  <2>2. stack = <<>> /\ bases = <<>>
    BY <2>1, SettledStack
  <2>3. phase # "Upkeep"
    BY <2>1 DEF IInv, ControlInv, UpkeepGoesOn, Advances
  <2> QED
    BY <2>2, <2>3
<1> QED
  BY <1>1, ControlInvariant, PTL

-----------------------------------------------------------------------------
(* Queues.                                                                 *)

\* The check for p's loss is still to come.
Checked(queue, p) == \E i \in DOMAIN queue : queue[i] = For("LossCheck", p)

\* No loss of p is recorded before that check.
CheckedFirst(queue, p) ==
  /\ Checked(queue, p)
  /\ \A i \in DOMAIN queue : queue[i] = For("RecordMainLoss", p) =>
       \E k \in DOMAIN queue : k < i /\ queue[k] = For("LossCheck", p)

\* Every queued Main loss has a check behind it, and before the next loss of
\* that player; every queued promotion its consequences right behind it.
LossesFollowed(queue) ==
  \A p \in Player : \A i \in DOMAIN queue :
    queue[i] = For("RecordMainLoss", p) =>
      \E j \in DOMAIN queue : i < j /\ queue[j] = For("LossCheck", p)
LossesSpaced(queue) ==
  \A p \in Player : \A i, j \in DOMAIN queue :
    /\ i < j
    /\ queue[i] = For("RecordMainLoss", p) /\ queue[j] = For("RecordMainLoss", p)
    => \E k \in DOMAIN queue : i < k /\ k < j /\ queue[k] = For("LossCheck", p)
PromotionsFollowed(queue) ==
  \A p \in Player : \A i \in DOMAIN queue :
    queue[i] = For("PromoteBenchSummon", p) =>
      /\ i + 1 \in DOMAIN queue
      /\ queue[i + 1] = For("ResolveMovementConsequences", p)
Followed(queue) ==
  LossesFollowed(queue) /\ LossesSpaced(queue) /\ PromotionsFollowed(queue)

\* Work that neither records a loss nor promotes owes nothing.
Owing == {"RecordMainLoss", "PromoteBenchSummon"}
OwesNothing(queue) == \A i \in DOMAIN queue : queue[i].op \notin Owing

\* The steps of an Upkeep; ordinary work has none of them.
UpkeepOps == UpkeepWork \cup {"BeginMainPhase"}
Ordinary(queue) == \A i \in DOMAIN queue : queue[i].op \notin UpkeepOps

\* What any step but the handover may queue.
Queueable(queue) == Followed(queue) /\ Ordinary(queue)

LEMMA NothingIsFollowed ==
  ASSUME NEW s \in Seq(WorkItem), OwesNothing(s)
  PROVE  Followed(s)
BY DEF Followed, LossesFollowed, LossesSpaced, PromotionsFollowed, OwesNothing, Owing, For

LEMMA EmptyOwesNothing == <<>> \in Seq(WorkItem) /\ OwesNothing(<<>>)
<1> DEFINE e == <<>>
<1>1. e \in Seq(WorkItem) /\ DOMAIN e = {}
  OBVIOUS
<1> HIDE DEF e
<1>2. OwesNothing(e)
  BY <1>1 DEF OwesNothing
<1> QED
  BY <1>1, <1>2 DEF e

LEMMA EmptyIsQueueable == <<>> \in Seq(WorkItem) /\ Queueable(<<>>)
<1> DEFINE e == <<>>
<1>1. e \in Seq(WorkItem) /\ DOMAIN e = {}
  OBVIOUS
<1> HIDE DEF e
<1>2. OwesNothing(e) /\ Ordinary(e)
  BY <1>1 DEF OwesNothing, Ordinary
<1> QED
  BY <1>1, <1>2, NothingIsFollowed DEF e, Queueable

LEMMA CheckedFirstJoin ==
  ASSUME NEW s \in Seq(WorkItem), NEW t \in Seq(WorkItem), NEW p,
         CheckedFirst(s, p)
  PROVE  /\ CheckedFirst(s \o t, p)
         /\ OwesNothing(t) => CheckedFirst(t \o s, p)
<1> DEFINE loss == For("RecordMainLoss", p)
           check == For("LossCheck", p)
<1>1. /\ Len(s) \in Nat /\ Len(t) \in Nat
      /\ DOMAIN s = 1 .. Len(s) /\ DOMAIN t = 1 .. Len(t)
      /\ loss.op = "RecordMainLoss"
  BY LenProperties DEF For
<1>2. PICK c \in 1 .. Len(s) : s[c] = check
  BY DEF CheckedFirst, Checked
<1>3. \A i \in 1 .. Len(s) : s[i] = loss => \E k \in 1 .. Len(s) : k < i /\ s[k] = check
  BY DEF CheckedFirst
<1> HIDE DEF loss, check
<1>4. CheckedFirst(s \o t, p)
  <2> DEFINE u == s \o t
  <2>1. /\ u \in Seq(WorkItem) /\ Len(u) = Len(s) + Len(t) /\ DOMAIN u = 1 .. Len(u)
        /\ \A i \in 1 .. Len(s) : u[i] = s[i]
    BY LenProperties
  <2> HIDE DEF u
  <2>2. c \in DOMAIN u /\ u[c] = check
    BY <1>1, <1>2, <2>1
  <2>3. ASSUME NEW i \in DOMAIN u, u[i] = loss
        PROVE  \E k \in DOMAIN u : k < i /\ u[k] = check
    <3>1. CASE i \in 1 .. Len(s)
      <4>1. PICK k \in 1 .. Len(s) : k < i /\ s[k] = check
        BY <1>3, <2>1, <2>3, <3>1
      <4> QED
        BY <1>1, <2>1, <4>1
    <3>2. CASE i \notin 1 .. Len(s)
      <4>1. c < i
        BY <1>1, <1>2, <2>1, <3>2
      <4> QED
        BY <2>2, <4>1
    <3> QED
      BY <3>1, <3>2
  <2> QED
    BY <2>2, <2>3 DEF CheckedFirst, Checked, u, loss, check
<1>5. ASSUME OwesNothing(t)
      PROVE  CheckedFirst(t \o s, p)
  <2> DEFINE u == t \o s
  <2>1. /\ u \in Seq(WorkItem) /\ Len(u) = Len(s) + Len(t) /\ DOMAIN u = 1 .. Len(u)
        /\ \A i \in 1 .. Len(t) : u[i] = t[i]
        /\ \A i \in 1 .. Len(s) : u[i + Len(t)] = s[i]
    BY LenProperties
  <2> HIDE DEF u
  <2>2. c + Len(t) \in DOMAIN u /\ u[c + Len(t)] = check
    BY <1>1, <1>2, <2>1
  <2>3. ASSUME NEW i \in DOMAIN u, u[i] = loss
        PROVE  \E k \in DOMAIN u : k < i /\ u[k] = check
    <3>1. i \notin 1 .. Len(t)
      BY <1>1, <1>5, <2>1, <2>3 DEF OwesNothing, Owing
    <3>2. i - Len(t) \in 1 .. Len(s) /\ s[i - Len(t)] = loss
      BY <1>1, <2>1, <2>3, <3>1
    <3>3. PICK k \in 1 .. Len(s) : k < i - Len(t) /\ s[k] = check
      BY <1>3, <3>2
    <3>4. k + Len(t) \in DOMAIN u /\ k + Len(t) < i /\ u[k + Len(t)] = check
      BY <1>1, <2>1, <3>2, <3>3
    <3> QED
      BY <3>4
  <2> QED
    BY <2>2, <2>3 DEF CheckedFirst, Checked, u, loss, check
<1> QED
  BY <1>4, <1>5

LEMMA CheckedFirstTail ==
  ASSUME NEW s \in Seq(WorkItem), s # <<>>, NEW p, CheckedFirst(s, p),
         Head(s) # For("LossCheck", p)
  PROVE  CheckedFirst(Tail(s), p) /\ Head(s) # For("RecordMainLoss", p)
<1> DEFINE u == Tail(s)
           loss == For("RecordMainLoss", p)
           check == For("LossCheck", p)
<1>1. /\ Len(s) \in Nat /\ Len(s) > 0 /\ u \in Seq(WorkItem) /\ Head(s) = s[1]
      /\ Len(u) = Len(s) - 1 /\ \A i \in 1 .. Len(u) : u[i] = s[i + 1]
      /\ DOMAIN s = 1 .. Len(s) /\ DOMAIN u = 1 .. Len(u)
  BY LenProperties
<1> HIDE DEF u
<1>2. PICK c \in 1 .. Len(s) : s[c] = check
  BY DEF CheckedFirst, Checked
<1>3. \A i \in 1 .. Len(s) : s[i] = loss => \E k \in 1 .. Len(s) : k < i /\ s[k] = check
  BY DEF CheckedFirst
<1> HIDE DEF loss
<1>4. c - 1 \in DOMAIN u /\ u[c - 1] = check
  <2>1. c # 1
    BY <1>1, <1>2
  <2> QED
    BY <1>1, <1>2, <2>1
<1>5. ASSUME NEW i \in DOMAIN u, u[i] = loss
      PROVE  \E k \in DOMAIN u : k < i /\ u[k] = check
  <2>1. i + 1 \in 1 .. Len(s) /\ s[i + 1] = loss
    BY <1>1, <1>5
  <2>2. PICK k \in 1 .. Len(s) : k < i + 1 /\ s[k] = check
    BY <1>3, <2>1
  <2>3. k # 1
    BY <1>1, <2>2
  <2>4. k - 1 \in DOMAIN u /\ k - 1 < i /\ u[k - 1] = check
    BY <1>1, <2>2, <2>3
  <2> QED
    BY <2>4
<1>6. s[1] # loss
  BY <1>1, <1>3
<1> HIDE DEF check
<1> QED
  BY <1>1, <1>4, <1>5, <1>6 DEF CheckedFirst, Checked, u, loss, check

LEMMA FollowedJoin ==
  ASSUME NEW s \in Seq(WorkItem), NEW t \in Seq(WorkItem),
         Followed(s), Followed(t)
  PROVE  Followed(s \o t)
<1> DEFINE u == s \o t
<1>1. /\ Len(s) \in Nat /\ Len(t) \in Nat /\ u \in Seq(WorkItem)
      /\ Len(u) = Len(s) + Len(t)
      /\ \A i \in 1 .. Len(s) : u[i] = s[i]
      /\ \A i \in 1 .. Len(t) : u[i + Len(s)] = t[i]
  OBVIOUS
<1>2. DOMAIN s = 1 .. Len(s) /\ DOMAIN t = 1 .. Len(t) /\ DOMAIN u = 1 .. Len(u)
  BY <1>1, LenProperties
<1> HIDE DEF u
<1>3. LossesFollowed(u)
  <2> SUFFICES ASSUME NEW p \in Player, NEW i \in 1 .. Len(u),
                      u[i] = For("RecordMainLoss", p)
               PROVE  \E j \in 1 .. Len(u) : i < j /\ u[j] = For("LossCheck", p)
    BY <1>2 DEF LossesFollowed
  <2>1. CASE i \in 1 .. Len(s)
    <3>1. PICK j \in 1 .. Len(s) : i < j /\ s[j] = For("LossCheck", p)
      BY <1>1, <1>2, <2>1 DEF Followed, LossesFollowed
    <3> QED
      BY <1>1, <3>1
  <2>2. CASE i \notin 1 .. Len(s)
    <3>1. i - Len(s) \in 1 .. Len(t) /\ t[i - Len(s)] = u[i]
      BY <1>1, <2>2
    <3>2. PICK j \in 1 .. Len(t) : i - Len(s) < j /\ t[j] = For("LossCheck", p)
      BY <1>2, <3>1 DEF Followed, LossesFollowed
    <3>3. j + Len(s) \in 1 .. Len(u) /\ i < j + Len(s) /\ u[j + Len(s)] = t[j]
      BY <1>1, <3>2
    <3> QED
      BY <3>2, <3>3
  <2> QED
    BY <2>1, <2>2
<1>4. PromotionsFollowed(u)
  <2> SUFFICES ASSUME NEW p \in Player, NEW i \in 1 .. Len(u),
                      u[i] = For("PromoteBenchSummon", p)
               PROVE  /\ i + 1 \in 1 .. Len(u)
                      /\ u[i + 1] = For("ResolveMovementConsequences", p)
    BY <1>2 DEF PromotionsFollowed
  <2>1. CASE i \in 1 .. Len(s)
    <3>1. i + 1 \in 1 .. Len(s) /\ s[i + 1] = For("ResolveMovementConsequences", p)
      BY <1>1, <1>2, <2>1 DEF Followed, PromotionsFollowed
    <3> QED
      BY <1>1, <3>1
  <2>2. CASE i \notin 1 .. Len(s)
    <3>1. i - Len(s) \in 1 .. Len(t) /\ t[i - Len(s)] = u[i]
      BY <1>1, <2>2
    <3>2. /\ (i - Len(s)) + 1 \in 1 .. Len(t)
          /\ t[(i - Len(s)) + 1] = For("ResolveMovementConsequences", p)
      BY <1>2, <3>1 DEF Followed, PromotionsFollowed
    <3>3. /\ i + 1 \in 1 .. Len(u)
          /\ u[i + 1] = t[(i - Len(s)) + 1]
      <4>1. ((i - Len(s)) + 1) + Len(s) = i + 1
        BY <1>1
      <4> QED
        BY <1>1, <3>2, <4>1
    <3> QED
      BY <3>2, <3>3
  <2> QED
    BY <2>1, <2>2
<1>5. LossesSpaced(u)
  <2> SUFFICES ASSUME NEW p \in Player, NEW i \in 1 .. Len(u), NEW j \in 1 .. Len(u), i < j,
                      u[i] = For("RecordMainLoss", p), u[j] = For("RecordMainLoss", p)
               PROVE  \E k \in 1 .. Len(u) : i < k /\ k < j /\ u[k] = For("LossCheck", p)
    BY <1>2 DEF LossesSpaced
  <2>1. CASE j \in 1 .. Len(s)
    <3>1. i \in 1 .. Len(s) /\ s[i] = u[i] /\ s[j] = u[j]
      BY <1>1, <2>1
    <3>2. PICK k \in 1 .. Len(s) : i < k /\ k < j /\ s[k] = For("LossCheck", p)
      BY <1>2, <2>1, <3>1 DEF Followed, LossesSpaced
    <3> QED
      BY <1>1, <3>2
  <2>2. CASE i \in 1 .. Len(s) /\ j \notin 1 .. Len(s)
    <3>1. PICK k \in 1 .. Len(s) : i < k /\ s[k] = For("LossCheck", p)
      BY <1>1, <1>2, <2>2 DEF Followed, LossesFollowed
    <3>2. k < j
      BY <1>1, <2>2
    <3> QED
      BY <1>1, <3>1, <3>2
  <2>3. CASE i \notin 1 .. Len(s)
    <3>. DEFINE a == i - Len(s)
                b == j - Len(s)
    <3>1. /\ a \in 1 .. Len(t) /\ b \in 1 .. Len(t) /\ a < b
          /\ t[a] = u[i] /\ t[b] = u[j]
      <4>1. a \in 1 .. Len(t) /\ t[a] = u[i]
        <5>1. a \in 1 .. Len(t) /\ a + Len(s) = i
          BY <1>1, <2>3
        <5> HIDE DEF a
        <5> QED
          BY <1>1, <5>1
      <4>2. b \in 1 .. Len(t) /\ t[b] = u[j]
        <5>1. b \in 1 .. Len(t) /\ b + Len(s) = j
          BY <1>1, <2>3
        <5> HIDE DEF b
        <5> QED
          BY <1>1, <5>1
      <4> QED
        BY <1>1, <4>1, <4>2
    <3>. HIDE DEF a, b
    <3>2. PICK k \in 1 .. Len(t) : a < k /\ k < b /\ t[k] = For("LossCheck", p)
      BY <1>2, <3>1 DEF Followed, LossesSpaced
    <3>3. /\ k + Len(s) \in 1 .. Len(u) /\ i < k + Len(s) /\ k + Len(s) < j
          /\ u[k + Len(s)] = t[k]
      BY <1>1, <3>2 DEF a, b
    <3> QED
      BY <3>2, <3>3
  <2> QED
    BY <2>1, <2>2, <2>3
<1> QED
  BY <1>3, <1>4, <1>5 DEF Followed, u

LEMMA QueueableJoin ==
  ASSUME NEW s \in Seq(WorkItem), NEW t \in Seq(WorkItem),
         Queueable(s), Queueable(t)
  PROVE  /\ s \o t \in Seq(WorkItem) /\ Queueable(s \o t)
         /\ OwesNothing(s) /\ OwesNothing(t) => OwesNothing(s \o t)
<1> DEFINE u == s \o t
<1>1. /\ Len(s) \in Nat /\ Len(t) \in Nat /\ u \in Seq(WorkItem)
      /\ Len(u) = Len(s) + Len(t)
      /\ \A i \in 1 .. Len(u) :
           u[i] = IF i <= Len(s) THEN s[i] ELSE t[i - Len(s)]
  OBVIOUS
<1>2. DOMAIN s = 1 .. Len(s) /\ DOMAIN t = 1 .. Len(t) /\ DOMAIN u = 1 .. Len(u)
  BY <1>1, LenProperties
<1> HIDE DEF u
<1>3. Ordinary(u)
  <2> SUFFICES ASSUME NEW i \in 1 .. Len(u)
               PROVE  u[i].op \notin UpkeepOps
    BY <1>2 DEF Ordinary
  <2>1. CASE i <= Len(s)
    BY <1>1, <1>2, <2>1 DEF Queueable, Ordinary
  <2>2. CASE ~(i <= Len(s))
    <3>1. i - Len(s) \in 1 .. Len(t) /\ u[i] = t[i - Len(s)]
      BY <1>1, <2>2
    <3> QED
      BY <1>2, <3>1 DEF Queueable, Ordinary
  <2> QED
    BY <2>1, <2>2
<1>4. ASSUME OwesNothing(s), OwesNothing(t)
      PROVE  OwesNothing(u)
  <2> SUFFICES ASSUME NEW i \in 1 .. Len(u)
               PROVE  u[i].op \notin Owing
    BY <1>2 DEF OwesNothing
  <2>1. CASE i <= Len(s)
    BY <1>1, <1>2, <1>4, <2>1 DEF OwesNothing
  <2>2. CASE ~(i <= Len(s))
    <3>1. i - Len(s) \in 1 .. Len(t) /\ u[i] = t[i - Len(s)]
      BY <1>1, <2>2
    <3> QED
      BY <1>2, <1>4, <3>1 DEF OwesNothing
  <2> QED
    BY <2>1, <2>2
<1> QED
  BY <1>1, <1>3, <1>4, FollowedJoin DEF u, Queueable

LEMMA FollowedTail ==
  ASSUME NEW s \in Seq(WorkItem), s # <<>>, Followed(s)
  PROVE  Followed(Tail(s))
<1> DEFINE u == Tail(s)
<1>1. /\ Len(s) \in Nat /\ Len(s) > 0 /\ u \in Seq(WorkItem)
      /\ Len(u) = Len(s) - 1 /\ \A i \in 1 .. Len(u) : u[i] = s[i + 1]
  OBVIOUS
<1>2. DOMAIN s = 1 .. Len(s) /\ DOMAIN u = 1 .. Len(u)
  BY <1>1, LenProperties
<1> HIDE DEF u
<1>3. LossesFollowed(u)
  <2> SUFFICES ASSUME NEW p \in Player, NEW i \in 1 .. Len(u),
                      u[i] = For("RecordMainLoss", p)
               PROVE  \E j \in 1 .. Len(u) : i < j /\ u[j] = For("LossCheck", p)
    BY <1>2 DEF LossesFollowed
  <2>1. PICK j \in 1 .. Len(s) : i + 1 < j /\ s[j] = For("LossCheck", p)
    BY <1>1, <1>2, SMTT(30) DEF Followed, LossesFollowed
  <2>2. j - 1 \in 1 .. Len(u) /\ i < j - 1 /\ u[j - 1] = s[j]
    BY <1>1, <2>1
  <2> QED
    BY <2>1, <2>2
<1>4. PromotionsFollowed(u)
  <2> SUFFICES ASSUME NEW p \in Player, NEW i \in 1 .. Len(u),
                      u[i] = For("PromoteBenchSummon", p)
               PROVE  /\ i + 1 \in 1 .. Len(u)
                      /\ u[i + 1] = For("ResolveMovementConsequences", p)
    BY <1>2 DEF PromotionsFollowed
  <2>1. i + 1 \in 1 .. Len(s) /\ s[i + 1] = For("PromoteBenchSummon", p)
    BY <1>1
  <2>2. /\ (i + 1) + 1 \in 1 .. Len(s)
        /\ s[(i + 1) + 1] = For("ResolveMovementConsequences", p)
    BY <1>2, <2>1 DEF Followed, PromotionsFollowed
  <2>3. i + 1 \in 1 .. Len(u) /\ u[i + 1] = s[(i + 1) + 1]
    BY <1>1, <2>2
  <2> QED
    BY <2>2, <2>3
<1>5. LossesSpaced(u)
  <2> SUFFICES ASSUME NEW p \in Player, NEW i \in 1 .. Len(u), NEW j \in 1 .. Len(u), i < j,
                      u[i] = For("RecordMainLoss", p), u[j] = For("RecordMainLoss", p)
               PROVE  \E k \in 1 .. Len(u) : i < k /\ k < j /\ u[k] = For("LossCheck", p)
    BY <1>2 DEF LossesSpaced
  <2>. DEFINE a == i + 1
              b == j + 1
  <2>1. /\ a \in 1 .. Len(s) /\ b \in 1 .. Len(s) /\ a < b
        /\ s[a] = u[i] /\ s[b] = u[j]
    BY <1>1
  <2>. HIDE DEF a, b
  <2>2. PICK k \in 1 .. Len(s) : a < k /\ k < b /\ s[k] = For("LossCheck", p)
    BY <1>2, <2>1 DEF Followed, LossesSpaced
  <2>3. k - 1 \in 1 .. Len(u) /\ i < k - 1 /\ k - 1 < j /\ u[k - 1] = s[k]
    BY <1>1, <2>2 DEF a, b
  <2> QED
    BY <2>2, <2>3
<1> QED
  BY <1>3, <1>4, <1>5 DEF Followed, u

\* What the item at the front owes is in the rest of the queue.
LEMMA OwedBehind ==
  ASSUME NEW s \in Seq(WorkItem), s # <<>>, Followed(s), NEW p \in Player
  PROVE  /\ Head(s) = For("RecordMainLoss", p) => CheckedFirst(Tail(s), p)
         /\ Head(s) = For("PromoteBenchSummon", p) =>
              /\ Tail(s) # <<>>
              /\ Head(Tail(s)) = For("ResolveMovementConsequences", p)
<1> DEFINE u == Tail(s)
<1>1. /\ Len(s) \in Nat /\ Len(s) > 0 /\ u \in Seq(WorkItem) /\ Head(s) = s[1]
      /\ Len(u) = Len(s) - 1 /\ \A i \in 1 .. Len(u) : u[i] = s[i + 1]
  OBVIOUS
<1>2. DOMAIN s = 1 .. Len(s) /\ DOMAIN u = 1 .. Len(u) /\ 1 \in DOMAIN s
  BY <1>1, LenProperties
<1> HIDE DEF u
<1>3. ASSUME Head(s) = For("RecordMainLoss", p) PROVE CheckedFirst(u, p)
  <2>1. PICK j \in 1 .. Len(s) : 1 < j /\ s[j] = For("LossCheck", p)
    BY <1>1, <1>2, <1>3 DEF Followed, LossesFollowed
  <2>2. j - 1 \in 1 .. Len(u) /\ u[j - 1] = s[j]
    BY <1>1, <2>1
  <2>3. ASSUME NEW i \in 1 .. Len(u), u[i] = For("RecordMainLoss", p)
        PROVE  \E k \in 1 .. Len(u) : k < i /\ u[k] = For("LossCheck", p)
    <3> DEFINE a == i + 1
    <3>1. 1 < a /\ a \in 1 .. Len(s) /\ s[a] = u[i]
      BY <1>1
    <3> HIDE DEF a
    <3>2. PICK k \in 1 .. Len(s) : 1 < k /\ k < a /\ s[k] = For("LossCheck", p)
      <4>1. /\ s[1] = For("RecordMainLoss", p) /\ s[a] = For("RecordMainLoss", p)
            /\ 1 \in 1 .. Len(s)
        BY <1>1, <1>3, <2>3, <3>1
      <4>2. LossesSpaced(s)
        BY DEF Followed
      <4> QED
        BY <1>2, <3>1, <4>1, <4>2 DEF LossesSpaced
    <3>3. k - 1 \in 1 .. Len(u) /\ k - 1 < i /\ u[k - 1] = s[k]
      BY <1>1, <3>2 DEF a
    <3> QED
      BY <3>2, <3>3
  <2> QED
    BY <1>2, <2>1, <2>2, <2>3 DEF CheckedFirst, Checked
<1>4. ASSUME Head(s) = For("PromoteBenchSummon", p)
      PROVE  u # <<>> /\ Head(u) = For("ResolveMovementConsequences", p)
  <2>1. 1 + 1 \in 1 .. Len(s) /\ s[1 + 1] = For("ResolveMovementConsequences", p)
    BY <1>1, <1>2, <1>4 DEF Followed, PromotionsFollowed
  <2>2. 1 \in 1 .. Len(u) /\ u[1] = s[1 + 1]
    BY <1>1, <2>1
  <2> QED
    BY <1>1, <2>1, <2>2
<1> QED
  BY <1>3, <1>4 DEF u

-----------------------------------------------------------------------------
(* What the steps queue owes nothing that is not queued with it.           *)

LEMMA FiresQueueable ==
  ASSUME BoardShape, NEW p \in Player, NEW q \in Position,
         NEW e \in TriggerEvent
  PROVE  /\ Fires(p, q, e) \in Seq(WorkItem) /\ Queueable(Fires(p, q, e))
         /\ OwesNothing(Fires(p, q, e))
<1>1. OwesNothing(Fires(p, q, e)) /\ Ordinary(Fires(p, q, e))
  BY DEF OwesNothing, Owing, Ordinary, UpkeepOps, UpkeepWork, Fires, FireTrigger
<1> QED
  BY <1>1, FiresType, NothingIsFollowed DEF Queueable

LEMMA CandidatesQueueable ==
  ASSUME BoardShape, NEW p \in Player, NEW e \in TriggerEvent
  PROVE  /\ Candidates(p, e) \in Seq(WorkItem) /\ Queueable(Candidates(p, e))
         /\ OwesNothing(Candidates(p, e))
<1> DEFINE Light(s) == s \in Seq(WorkItem) /\ Queueable(s) /\ OwesNothing(s)
           two == Fires(p, Main, e) \o Fires(p, 1, e)
           three == two \o Fires(p, 2, e)
<1>1. \A q \in Position : Light(Fires(p, q, e))
  BY FiresQueueable
<1>2. Main \in Position /\ 1 \in Position /\ 2 \in Position /\ 3 \in Position
  BY DEF Position, Main, Bench
<1>3. Light(two)
  BY <1>1, <1>2, QueueableJoin
<1> HIDE DEF two
<1>4. Light(three)
  BY <1>1, <1>2, <1>3, QueueableJoin
<1> HIDE DEF three
<1>5. Light(three \o Fires(p, 3, e))
  BY <1>1, <1>2, <1>4, QueueableJoin
<1> QED
  BY <1>5 DEF Candidates, three, two

LEMMA ExchangeStepsQueueable ==
  ASSUME NEW p \in Player, NEW slot \in Position
  PROVE  /\ ExchangeSteps(p, slot) \in Seq(WorkItem)
         /\ Queueable(ExchangeSteps(p, slot))
<1>1. OwesNothing(ExchangeSteps(p, slot)) /\ Ordinary(ExchangeSteps(p, slot))
  BY DEF OwesNothing, Owing, Ordinary, UpkeepOps, UpkeepWork, ExchangeSteps,
         MovementTrigger
<1> QED
  BY <1>1, ExchangeStepsType, NothingIsFollowed DEF Queueable

LEMMA DestructionChainQueueable ==
  ASSUME NEW p \in Player, NEW q \in Position
  PROVE  /\ DestructionChain(p, q) \in Seq(WorkItem)
         /\ Queueable(DestructionChain(p, q))
<1> DEFINE a == << At("DiscardDestroyedChain", q) >>
           b == << For("RecordMainLoss", p), For("RecoverPrize", p),
                   For("PromoteBenchSummon", p),
                   For("ResolveMovementConsequences", p) >>
           c == << For("LossCheck", p) >>
<1>1. /\ At("DiscardDestroyedChain", q) \in WorkItem
      /\ For("RecordMainLoss", p) \in WorkItem
      /\ For("RecoverPrize", p) \in WorkItem
      /\ For("PromoteBenchSummon", p) \in WorkItem
      /\ For("ResolveMovementConsequences", p) \in WorkItem
      /\ For("LossCheck", p) \in WorkItem
  BY DEF At, For, WorkItem, PlayerWork
<1>2. /\ a \in Seq(WorkItem) /\ b \in Seq(WorkItem) /\ c \in Seq(WorkItem)
      /\ Len(a) = 1 /\ Len(b) = 4 /\ Len(c) = 1
      /\ a[1].op = "DiscardDestroyedChain"
      /\ b[1] = For("RecordMainLoss", p) /\ b[2].op = "RecoverPrize"
      /\ b[3] = For("PromoteBenchSummon", p)
      /\ b[4] = For("ResolveMovementConsequences", p)
      /\ c[1] = For("LossCheck", p)
  BY <1>1 DEF At, For
<1>3. /\ q = Main => DestructionChain(p, q) = a \o b \o c
      /\ q # Main => DestructionChain(p, q) = a \o <<>> \o c
  BY DEF DestructionChain
<1> HIDE DEF a, b, c
<1>4. CASE q = Main
  <2> DEFINE chain == a \o b \o c
  <2> DEFINE ab == a \o b
  <2>5. /\ ab \in Seq(WorkItem) /\ Len(ab) = 5 /\ ab[1] = a[1]
        /\ ab[2] = b[1] /\ ab[3] = b[2] /\ ab[4] = b[3] /\ ab[5] = b[4]
    <3>1. /\ ab \in Seq(WorkItem) /\ Len(ab) = Len(a) + Len(b)
          /\ \A i \in 1 .. Len(a) + Len(b) :
               ab[i] = IF i <= Len(a) THEN a[i] ELSE b[i - Len(a)]
      BY <1>2, ConcatProperties
    <3> HIDE DEF ab
    <3> QED
      BY <1>2, <3>1
  <2> HIDE DEF ab
  <2>6. /\ Len(ab \o c) = 6 /\ ab \o c \in Seq(WorkItem)
        /\ \A i \in 1 .. 5 : (ab \o c)[i] = ab[i]
        /\ (ab \o c)[6] = c[1]
    <3>1. /\ ab \o c \in Seq(WorkItem) /\ Len(ab \o c) = Len(ab) + Len(c)
          /\ \A i \in 1 .. Len(ab) + Len(c) :
               (ab \o c)[i] = IF i <= Len(ab) THEN ab[i] ELSE c[i - Len(ab)]
      BY <1>2, <2>5, ConcatProperties
    <3> QED
      BY <1>2, <2>5, <3>1
  <2>1. /\ Len(chain) = 6 /\ chain \in Seq(WorkItem)
        /\ chain[1] = a[1] /\ chain[2] = b[1] /\ chain[3] = b[2]
        /\ chain[4] = b[3] /\ chain[5] = b[4] /\ chain[6] = c[1]
    BY <2>5, <2>6 DEF ab
  <2>2. DOMAIN chain = 1 .. 6
    BY <2>1, LenProperties
  <2> HIDE DEF chain
  <2>3. LossesFollowed(chain)
    BY <1>2, <2>1, <2>2 DEF LossesFollowed, For
  <2>4. LossesSpaced(chain) /\ PromotionsFollowed(chain)
    BY <1>2, <2>1, <2>2 DEF LossesSpaced, PromotionsFollowed, For
  <2>7. Ordinary(chain)
    BY <1>2, <2>1, <2>2 DEF Ordinary, UpkeepOps, UpkeepWork, For
  <2> QED
    BY <1>3, <1>4, <2>3, <2>4, <2>7, DestructionChainType
    DEF Queueable, Followed, chain
<1>5. CASE q # Main
  <2> DEFINE chain == a \o <<>> \o c
  <2>1. /\ Len(chain) = 2 /\ chain \in Seq(WorkItem)
        /\ chain[1] = a[1] /\ chain[2] = c[1]
    <3>1. a \o <<>> = a
      BY <1>2, ConcatEmptySeq
    <3>2. /\ a \o c \in Seq(WorkItem) /\ Len(a \o c) = Len(a) + Len(c)
          /\ \A i \in 1 .. Len(a) + Len(c) :
               (a \o c)[i] = IF i <= Len(a) THEN a[i] ELSE c[i - Len(a)]
      BY <1>2, ConcatProperties
    <3> QED
      BY <1>2, <3>1, <3>2
  <2>2. DOMAIN chain = 1 .. 2
    BY <2>1, LenProperties
  <2> HIDE DEF chain
  <2>3. OwesNothing(chain) /\ Ordinary(chain)
    BY <1>2, <2>1, <2>2 DEF OwesNothing, Owing, Ordinary, UpkeepOps, UpkeepWork, For
  <2> QED
    BY <1>3, <1>5, <2>1, <2>3, NothingIsFollowed DEF Queueable, chain
<1> QED
  BY <1>4, <1>5

\* What one step does to the queue: it adds work at one end of it, after
\* taking the item at the front when it is a step of the queue.  What comes
\* in front owes nothing.
QueueGrows(more) ==
  \/ work' = work \o more
  \/ /\ ExecuteWorkItem /\ work' \in {Rest \o more, more \o Rest}
     /\ work' = Rest \o more \/ OwesNothing(more)

\* Only closing the end-of-turn window queues an Upkeep.
TurnPasses == Handover /\ window # NoWindow /\ stack = <<>> /\ ~MatchOver

QueueChange ==
  \E more \in Seq(WorkItem) :
    Followed(more) /\ (Ordinary(more) \/ TurnPasses) /\ QueueGrows(more)

LEMMA NothingAdded ==
  ASSUME IInv, work' = work \/ (ExecuteWorkItem /\ work' = Rest)
  PROVE  QueueChange
<1>1. work \in Seq(WorkItem) /\ (ExecuteWorkItem => Rest \in Seq(WorkItem))
  BY ExecutingItem DEF IInv, ControlType
<1>2. <<>> \in Seq(WorkItem) /\ Queueable(<<>>)
  BY EmptyIsQueueable
<1>3. QueueGrows(<<>>)
  <2>1. work' = work => work' = work \o <<>>
    BY <1>1, ConcatEmptySeq
  <2>2. ExecuteWorkItem /\ work' = Rest => work' = Rest \o <<>>
    BY <1>1, ConcatEmptySeq
  <2> QED
    BY <2>1, <2>2 DEF QueueGrows
<1> QED
  BY <1>2, <1>3 DEF Queueable, QueueChange

LEMMA DestructionTriggersQueueable ==
  BoardShape /\ active \in Player =>
    /\ Candidates(First, "AnySummonDestroyed")
         \o Candidates(Second, "AnySummonDestroyed") \in Seq(WorkItem)
    /\ Queueable(Candidates(First, "AnySummonDestroyed")
                   \o Candidates(Second, "AnySummonDestroyed"))
    /\ OwesNothing(Candidates(First, "AnySummonDestroyed")
                     \o Candidates(Second, "AnySummonDestroyed"))
<1> SUFFICES ASSUME BoardShape, active \in Player
             PROVE  LET one == Candidates(First, "AnySummonDestroyed")
                        two == Candidates(Second, "AnySummonDestroyed")
                    IN /\ one \o two \in Seq(WorkItem) /\ Queueable(one \o two)
                       /\ OwesNothing(one \o two)
  OBVIOUS
<1>1. /\ First \in Player /\ Second \in Player
      /\ "AnySummonDestroyed" \in TriggerEvent
  BY OpponentType DEF First, Second, TriggerEvent
<1> QED
  BY <1>1, CandidatesQueueable, QueueableJoin

LEMMA UpkeepStepsFollowed ==
  ASSUME BoardShape, NEW next \in Player
  PROVE  UpkeepSteps(next) \in Seq(WorkItem) /\ Followed(UpkeepSteps(next))
<1>1. /\ Candidates(next, "YourUpkeep") \in Seq(WorkItem)
      /\ Followed(Candidates(next, "YourUpkeep"))
  BY CandidatesQueueable DEF TriggerEvent, Queueable
<1>2. /\ Step("ReadyAll") \in WorkItem /\ Step("DrawCard") \in WorkItem
      /\ For("ProduceMana", next) \in WorkItem
      /\ Step("BeginMainPhase") \in WorkItem
  BY DEF Step, For, WorkItem, PlayerWork
<1> DEFINE first == << Step("ReadyAll") >>
           before == first \o Candidates(next, "YourUpkeep")
           last == << Step("DrawCard"), For("ProduceMana", next),
                      Step("BeginMainPhase") >>
<1>3. OwesNothing(first) /\ OwesNothing(last)
  BY DEF OwesNothing, Owing, Step, For
<1>4. first \in Seq(WorkItem) /\ last \in Seq(WorkItem)
  BY <1>2
<1>5. UpkeepSteps(next) = before \o last
  BY <1>1, <1>2 DEF UpkeepSteps
<1> HIDE DEF first, last
<1>6. Followed(first) /\ Followed(last)
  BY <1>3, <1>4, NothingIsFollowed
<1>7. before \in Seq(WorkItem) /\ Followed(before)
  BY <1>1, <1>4, <1>6, FollowedJoin, ConcatProperties
<1> HIDE DEF before
<1> QED
  BY <1>4, <1>5, <1>6, <1>7, FollowedJoin, ConcatProperties

LEMMA QueueAfterPlayer ==
  ASSUME IInv, NEW p \in Player, PlayerAction(p)
  PROVE  QueueChange
<1>1. CASE \E slot \in Bench, hint \in Hint : Retreat(p, slot, hint)
  <2>1. PICK slot \in Bench, hint \in Hint : Retreat(p, slot, hint)
    BY <1>1
  <2>2. /\ ExchangeSteps(p, slot) \in Seq(WorkItem)
        /\ Queueable(ExchangeSteps(p, slot))
    BY ExchangeStepsQueueable DEF Position
  <2> QED
    BY <2>1, <2>2 DEF Retreat, Queueable, QueueChange, QueueGrows
<1>2. CASE PassPriority(p)
  <2>1. work' = work \/ TurnPasses
    BY <1>2 DEF PassPriority, HoldsPriority, MayAct, MovePriority, CloseWindow,
                TurnPasses
  <2>2. CASE TurnPasses
    <3>1. NextPlayer \in Player
      BY OpponentType DEF NextPlayer, IInv, ControlType
    <3>2. /\ UpkeepSteps(NextPlayer) \in Seq(WorkItem)
          /\ Followed(UpkeepSteps(NextPlayer))
      BY <3>1, UpkeepStepsFollowed DEF IInv
    <3> QED
      BY <2>2, <3>2 DEF TurnPasses, Handover, QueueChange, QueueGrows
  <2> QED
    BY <2>1, <2>2, NothingAdded
<1>3. CASE \/ \E c \in CardInstance, slot \in Bench : PlaySummon(p, c, slot)
           \/ \E c \in CardInstance, q \in Position : UpgradeSummon(p, c, q)
           \/ \E c \in CardInstance, targets \in TargetChoices, hint \in Hint :
                CastSpell(p, c, targets, hint)
           \/ \E q \in Position, targets \in TargetChoices, hint \in Hint :
                \E i \in (IF Occupied(p, q) THEN DOMAIN FaceAt(p, q).skills ELSE {}) :
                  ActivateSkill(p, q, i, targets, hint)
           \/ \E hint \in Hint : DeclareAttack(p, hint)
           \/ EndTurn(p)
           \/ \E t \in ManaType : ConvertCoin(p, t) \/ ChooseManaType(p, t)
           \/ \E slot \in Bench : ChoosePromotion(p, slot)
           \/ \E i \in DOMAIN prizes[Opponent(p)] : ChoosePrize(p, i)
           \/ Resign(p)
  <2>1. work' = work
    BY <1>3, ZenonT(30) DEF PlaySummon, UpgradeSummon, CastSpell, ActivateSkill, DeclareAttack,
                EndTurn, ConvertCoin, ChooseManaType, ChoosePromotion, ChoosePrize,
                Resign
  <2> QED
    BY <2>1, NothingAdded
<1> QED
  BY <1>1, <1>2, <1>3 DEF PlayerAction

LEMMA QueueAfterLeaf ==
  ASSUME IInv, ApplyLeaf
  PROVE  QueueChange
<1>1. resolving # Idle /\ Controller \in Player /\ Opponent(Controller) \in Player
  <2>1. resolving # Idle
    BY DEF ApplyLeaf, Applying, DealDamage, Heal, ReadySummon,
           CannotBeMovedByOpponent, MoveSummon, SwapPositions,
           SwapOpposingPositions, ProduceManaLeaf, DrawCards,
           ReturnSpellFromDiscard, ReturnSpellToDeckTop, LeafWithoutEffect
  <2>2. Controller \in Player
    BY <2>1 DEF IInv, ControlType, ItemOf, Controller
  <2> QED
    BY <2>1, <2>2, OpponentType
<1>2. CASE DealDamage
  <2>1. work' = work \/ (/\ Selected \in Position
                         /\ work' = Append(work, At("DestructionCheck", Selected)))
    BY <1>2 DEF DealDamage, Occupied
  <2> DEFINE more == << At("DestructionCheck", Selected) >>
  <2>2. ASSUME Selected \in Position
        PROVE  more \in Seq(WorkItem) /\ Queueable(more)
               /\ Append(work, At("DestructionCheck", Selected)) = work \o more
    <3>1. At("DestructionCheck", Selected) \in WorkItem
      BY <2>2 DEF At, WorkItem
    <3>2. OwesNothing(more) /\ Ordinary(more)
      BY DEF OwesNothing, Owing, Ordinary, UpkeepOps, UpkeepWork, At
    <3>3. more \in Seq(WorkItem)
      BY <3>1
    <3>4. Append(work, At("DestructionCheck", Selected)) = work \o more
      BY <3>1, AppendIsConcat DEF IInv, ControlType
    <3> QED
      BY <3>2, <3>3, <3>4, NothingIsFollowed DEF Queueable
  <2> HIDE DEF more
  <2> QED
    BY <2>1, <2>2, NothingAdded DEF Queueable, QueueChange, QueueGrows
<1>3. CASE MoveSummon
  <2>1. PICK q \in Position :
          work' = work \/ work' = work \o
            << MovementTrigger("LeavingBench", Controller, q),
               MovementTrigger("EnteringBench", Controller, q) >>
    BY <1>3 DEF MoveSummon, Position
  <2> DEFINE more == << MovementTrigger("LeavingBench", Controller, q),
                        MovementTrigger("EnteringBench", Controller, q) >>
  <2>2. OwesNothing(more) /\ Ordinary(more)
    BY DEF OwesNothing, Owing, Ordinary, UpkeepOps, UpkeepWork, MovementTrigger
  <2>3. more \in Seq(WorkItem)
    <3>1. \A step \in MovementSteps : MovementTrigger(step, Controller, q) \in WorkItem
      BY <1>1 DEF MovementTrigger, WorkItem
    <3> QED
      BY <3>1 DEF MovementSteps
  <2>4. Followed(more)
    BY <2>2, <2>3, NothingIsFollowed
  <2> QED
    BY <2>1, <2>2, <2>3, <2>4, NothingAdded DEF QueueChange, QueueGrows
<1>4. CASE SwapPositions \/ SwapOpposingPositions
  <2>1. PICK p \in Player, slot \in Position :
          work' = work \/ work' = work \o ExchangeSteps(p, slot)
    BY <1>1, <1>4 DEF SwapPositions, SwapOpposingPositions, Exchange, Position
  <2>2. /\ ExchangeSteps(p, slot) \in Seq(WorkItem)
        /\ Queueable(ExchangeSteps(p, slot))
    BY ExchangeStepsQueueable
  <2> QED
    BY <2>1, <2>2, NothingAdded DEF Queueable, QueueChange, QueueGrows
<1>5. CASE \/ Heal \/ ReadySummon \/ CannotBeMovedByOpponent \/ ProduceManaLeaf
           \/ DrawCards \/ ReturnSpellFromDiscard \/ ReturnSpellToDeckTop
           \/ LeafWithoutEffect
  <2>1. work' = work
    BY <1>5 DEF Heal, ReadySummon, CannotBeMovedByOpponent, ProduceManaLeaf,
                DrawCards, ReturnSpellFromDiscard, ReturnSpellToDeckTop,
                LeafWithoutEffect, BoardOnly
  <2> QED
    BY <2>1, NothingAdded
<1> QED
  BY <1>2, <1>3, <1>4, <1>5 DEF ApplyLeaf

LEMMA QueueAfterWork ==
  ASSUME IInv, ExecuteWorkItem
  PROVE  QueueChange
<1> USE DEF IInv
<1>0. /\ Item \in WorkItem /\ Rest \in Seq(WorkItem) /\ active \in Player
      /\ BoardShape'
  BY ExecutingItem, BoardAfterWork DEF ControlType
<1>1. CASE \/ ReadyAll \/ DrawCard \/ ProduceMana \/ BeginMainPhase
           \/ RecordMainLoss \/ RecoverPrize \/ PromoteBenchSummon
           \/ LossCheck \/ FireRespondable \/ FireImmediate \/ FireVanished
  <2>1. work' = Rest
    BY <1>1 DEF ReadyAll, DrawCard, ProduceMana, BeginMainPhase, RecordMainLoss,
                RecoverPrize, PromoteBenchSummon, LossCheck, FireRespondable,
                FireImmediate, FireVanished
  <2> QED
    BY <2>1, NothingAdded
<1>2. CASE DestructionCheck
  <2> DEFINE q == Item.position
             one == ChainIfDestroyed(First, q)
             two == IF Lifeless(First, q) THEN <<>> ELSE ChainIfDestroyed(Second, q)
  <2>1. work' = Rest \o one \o two /\ Item.op = "DestructionCheck"
    BY <1>2 DEF DestructionCheck, Executing
  <2>2. q \in Position /\ First \in Player /\ Second \in Player
    BY <1>0, <2>1, OpponentType DEF WorkItem, PlayerWork, First, Second
  <2>3. <<>> \in Seq(WorkItem) /\ Queueable(<<>>)
    BY EmptyIsQueueable
  <2>4. \A p \in Player : /\ ChainIfDestroyed(p, q) \in Seq(WorkItem)
                          /\ Queueable(ChainIfDestroyed(p, q))
    BY <2>2, <2>3, DestructionChainQueueable DEF ChainIfDestroyed
  <2>5. /\ one \in Seq(WorkItem) /\ Queueable(one)
        /\ two \in Seq(WorkItem) /\ Queueable(two)
    BY <2>2, <2>3, <2>4
  <2> HIDE DEF one, two
  <2>6. one \o two \in Seq(WorkItem) /\ Queueable(one \o two)
    BY <2>5, QueueableJoin
  <2>7. work' = Rest \o (one \o two)
    BY <1>0, <2>1, <2>5, ConcatAssociative
  <2> QED
    BY <2>6, <2>7 DEF Queueable, QueueChange, QueueGrows
<1>3. CASE DiscardDestroyedChain
  <2> DEFINE fired == (Candidates(First, "AnySummonDestroyed")
                         \o Candidates(Second, "AnySummonDestroyed"))'
  <2>1. active' = active /\ (work' = Rest \/ work' = fired \o Rest)
    BY <1>3 DEF DiscardDestroyedChain, DiscardNothing, DiscardVictim
  <2>2. BoardShape /\ active \in Player =>
          /\ Candidates(First, "AnySummonDestroyed")
               \o Candidates(Second, "AnySummonDestroyed") \in Seq(WorkItem)
          /\ Queueable(Candidates(First, "AnySummonDestroyed")
                         \o Candidates(Second, "AnySummonDestroyed"))
          /\ OwesNothing(Candidates(First, "AnySummonDestroyed")
                           \o Candidates(Second, "AnySummonDestroyed"))
    BY DestructionTriggersQueueable
  <2>3. (BoardShape /\ active \in Player)'
    BY <1>0, <2>1
  <2>4. fired \in Seq(WorkItem) /\ Queueable(fired) /\ OwesNothing(fired)
    <3>1. (/\ Candidates(First, "AnySummonDestroyed")
               \o Candidates(Second, "AnySummonDestroyed") \in Seq(WorkItem)
           /\ Queueable(Candidates(First, "AnySummonDestroyed")
                          \o Candidates(Second, "AnySummonDestroyed"))
           /\ OwesNothing(Candidates(First, "AnySummonDestroyed")
                            \o Candidates(Second, "AnySummonDestroyed")))'
      BY <2>3, DestructionTriggersQueueable, PTL
    <3> QED
      BY <3>1 DEF Queueable, Followed, LossesFollowed, LossesSpaced, PromotionsFollowed,
                  Ordinary, OwesNothing
  <2> HIDE DEF fired
  <2> QED
    BY <2>1, <2>4, NothingAdded DEF Queueable, QueueChange, QueueGrows
<1>4. CASE ResolveMovementConsequences
  <2> DEFINE front == IF Occupied(Item.player, Main)
                      THEN << MovementTrigger("LeavingBench", Item.player, Main),
                              MovementTrigger("EnteringMain", Item.player, Main) >>
                      ELSE <<>>
  <2>1. work' = front \o Rest /\ Item.op = "ResolveMovementConsequences"
    BY <1>4 DEF ResolveMovementConsequences, Executing
  <2>2. Item.player \in Player
    BY <1>0, <2>1 DEF WorkItem, PlayerWork
  <2>3. front \in Seq(WorkItem)
    <3>1. /\ MovementTrigger("LeavingBench", Item.player, Main) \in WorkItem
          /\ MovementTrigger("EnteringMain", Item.player, Main) \in WorkItem
      BY <2>2 DEF MovementTrigger, WorkItem, MovementSteps, Position, Main
    <3> QED
      BY <3>1
  <2>4. OwesNothing(front) /\ Ordinary(front)
    BY EmptyOwesNothing, EmptyIsQueueable
    DEF OwesNothing, Owing, Queueable, Ordinary, UpkeepOps, UpkeepWork, MovementTrigger
  <2> HIDE DEF front
  <2> QED
    BY <2>1, <2>3, <2>4, NothingIsFollowed DEF QueueChange, QueueGrows
<1>5. CASE RunMovementTrigger
  <2> DEFINE e == MovementEvent(Item.step)
             front == Fires(Item.player, Item.position, e)
  <2>1. work' = front \o Rest /\ Item.op = "MovementTrigger"
    BY <1>5 DEF RunMovementTrigger, Executing
  <2>2. /\ Item.player \in Player /\ Item.position \in Position
        /\ Item.step \in MovementSteps
    BY <1>0, <2>1 DEF WorkItem, PlayerWork
  <2>3. e \in TriggerEvent
    BY <2>2 DEF MovementEvent, MovementSteps, TriggerEvent
  <2>4. front \in Seq(WorkItem) /\ Queueable(front) /\ OwesNothing(front)
    BY <2>2, <2>3, FiresQueueable
  <2> HIDE DEF front
  <2> QED
    BY <2>1, <2>4 DEF Queueable, QueueChange, QueueGrows
<1> QED
  BY <1>1, <1>2, <1>3, <1>4, <1>5 DEF ExecuteWorkItem

LEMMA QueueStep ==
  ASSUME IInv, Next
  PROVE  QueueChange
<1>1. CASE ResolveTopStackItem \/ FinishResolving
  <2>1. work' = work
    BY <1>1 DEF ResolveTopStackItem, FinishResolving
  <2> QED
    BY <2>1, NothingAdded
<1> QED
  BY <1>1, QueueAfterPlayer, QueueAfterLeaf, QueueAfterWork DEF Next, DrainStep

LEMMA FollowedStep ==
  ASSUME IInv, Followed(work), QueueChange
  PROVE  Followed(work)'
<1>1. PICK more \in Seq(WorkItem) : Followed(more) /\ QueueGrows(more)
  BY DEF QueueChange
<1>2. work \in Seq(WorkItem)
  BY DEF IInv, ControlType
<1>3. CASE work' = work \o more
  BY <1>1, <1>2, <1>3, FollowedJoin
<1>4. CASE ExecuteWorkItem /\ work' \in {Rest \o more, more \o Rest}
  <2>1. Rest \in Seq(WorkItem) /\ Followed(Rest)
    BY <1>2, <1>4, ExecutingItem, FollowedTail DEF IInv, Rest
  <2> QED
    BY <1>1, <1>4, <2>1, FollowedJoin
<1> QED
  BY <1>1, <1>3, <1>4 DEF QueueGrows

-----------------------------------------------------------------------------
(* The third Main loss.                                                    *)

\* A third loss has its check queued, before any further loss is recorded, so
\* there is no fourth.
ThirdIsChecked(p) == losses[p] >= 3 /\ ~MatchOver => CheckedFirst(work, p)
LossInv ==
  /\ losses \in [Player -> 0 .. 3] /\ Followed(work)
  /\ \A p \in Player : ThirdIsChecked(p)

\* Nothing but RecordMainLoss counts a loss, and no step resumes a match.
LEMMA LossesElsewhere ==
  ASSUME IInv, Next
  PROVE  /\ losses' = losses \/ RecordMainLoss
         /\ status' = status \/ MatchOver'
<1> USE DEF poolVars, statusVars, MatchOver, Ending
<1>1. ASSUME NEW p \in Player, PlayerAction(p)
      PROVE  losses' = losses /\ (status' = status \/ status' = "Ended")
  <2>1. CASE \/ \E c \in CardInstance, slot \in Bench : PlaySummon(p, c, slot)
             \/ \E c \in CardInstance, q \in Position : UpgradeSummon(p, c, q)
             \/ \E c \in CardInstance, targets \in TargetChoices, hint \in Hint :
                  CastSpell(p, c, targets, hint)
             \/ \E q \in Position, targets \in TargetChoices, hint \in Hint :
                  \E i \in (IF Occupied(p, q) THEN DOMAIN FaceAt(p, q).skills ELSE {}) :
                    ActivateSkill(p, q, i, targets, hint)
    BY <2>1, ZenonT(30) DEF PlaySummon, UpgradeSummon, CastSpell, ActivateSkill
  <2>2. CASE \/ \E slot \in Bench, hint \in Hint : Retreat(p, slot, hint)
             \/ \E hint \in Hint : DeclareAttack(p, hint)
             \/ EndTurn(p) \/ PassPriority(p)
    BY <2>2 DEF Retreat, DeclareAttack, EndTurn, PassPriority, MovePriority,
                CloseWindow, Handover
  <2>3. CASE \/ \E t \in ManaType : ConvertCoin(p, t) \/ ChooseManaType(p, t)
             \/ \E slot \in Bench : ChoosePromotion(p, slot)
             \/ \E i \in DOMAIN prizes[Opponent(p)] : ChoosePrize(p, i)
             \/ Resign(p)
    BY <2>3 DEF ConvertCoin, ChooseManaType, ChoosePromotion, ChoosePrize, Resign
  <2> QED
    BY <1>1, <2>1, <2>2, <2>3 DEF PlayerAction
<1>2. CASE ResolveTopStackItem \/ FinishResolving
  BY <1>2 DEF ResolveTopStackItem, FinishResolving
<1>3. CASE ApplyLeaf
  <2>1. CASE DealDamage \/ Heal \/ ReadySummon \/ CannotBeMovedByOpponent
               \/ MoveSummon \/ SwapPositions \/ SwapOpposingPositions
    BY <2>1 DEF DealDamage, Heal, ReadySummon, CannotBeMovedByOpponent, MoveSummon,
                SwapPositions, SwapOpposingPositions, Exchange, BoardOnly
  <2>2. CASE ProduceManaLeaf \/ DrawCards \/ ReturnSpellFromDiscard
               \/ ReturnSpellToDeckTop \/ LeafWithoutEffect
    BY <2>2 DEF ProduceManaLeaf, DrawCards, Draw, ReturnSpellFromDiscard,
                ReturnSpellToDeckTop, LeafWithoutEffect
  <2> QED
    BY <1>3, <2>1, <2>2 DEF ApplyLeaf
<1>4. CASE ExecuteWorkItem
  <2>1. CASE ReadyAll \/ DrawCard \/ ProduceMana \/ BeginMainPhase
    BY <2>1 DEF ReadyAll, DrawCard, Draw, ProduceMana, BeginMainPhase
  <2>2. CASE DestructionCheck \/ DiscardDestroyedChain
    BY <2>2 DEF DestructionCheck, DiscardDestroyedChain, DiscardNothing,
                DiscardVictim, Break
  <2>3. CASE \/ RecoverPrize \/ PromoteBenchSummon \/ ResolveMovementConsequences
             \/ LossCheck
    BY <2>3 DEF RecoverPrize, PromoteBenchSummon, ResolveMovementConsequences,
                LossCheck
  <2>4. CASE RunMovementTrigger \/ FireRespondable \/ FireImmediate \/ FireVanished
    BY <2>4 DEF RunMovementTrigger, FireRespondable, FireImmediate, FireVanished
  <2>5. CASE RecordMainLoss
    BY <2>5 DEF RecordMainLoss
  <2> QED
    BY <1>4, <2>1, <2>2, <2>3, <2>4, <2>5 DEF ExecuteWorkItem
<1> QED
  BY <1>1, <1>2, <1>3, <1>4 DEF Next, DrainStep

\* A check that comes first does so until it runs.
LEMMA CheckStaysFirst ==
  ASSUME IInv, QueueChange, NEW p \in Player, CheckedFirst(work, p),
         ~(ExecuteWorkItem /\ Item = For("LossCheck", p))
  PROVE  CheckedFirst(work, p)'
<1>1. PICK more \in Seq(WorkItem) : QueueGrows(more)
  BY DEF QueueChange
<1>2. work \in Seq(WorkItem)
  BY DEF IInv, ControlType
<1>3. CASE work' = work \o more
  <2>1. CheckedFirst(work \o more, p)
    BY <1>2, CheckedFirstJoin
  <2> QED
    BY <1>3, <2>1 DEF CheckedFirst, Checked
<1>4. CASE /\ ExecuteWorkItem /\ work' \in {Rest \o more, more \o Rest}
           /\ work' = Rest \o more \/ OwesNothing(more)
  <2>1. Rest \in Seq(WorkItem) /\ CheckedFirst(Rest, p)
    BY <1>2, <1>4, ExecutingItem, CheckedFirstTail DEF IInv, Rest, Item
  <2>2. /\ CheckedFirst(Rest \o more, p)
        /\ OwesNothing(more) => CheckedFirst(more \o Rest, p)
    BY <2>1, CheckedFirstJoin
  <2> QED
    BY <1>4, <2>2 DEF CheckedFirst, Checked
<1> QED
  BY <1>1, <1>3, <1>4 DEF QueueGrows

LEMMA LossStep ==
  ASSUME IInv, LossInv, Next
  PROVE  LossInv'
<1>1. QueueChange /\ Followed(work)'
  BY QueueStep, FollowedStep DEF LossInv
<1>2. /\ losses' = losses \/ RecordMainLoss
      /\ status' = status \/ MatchOver'
  BY LossesElsewhere
<1>3. RecordMainLoss =>
        /\ ExecuteWorkItem /\ work' = Rest /\ ~MatchOver
        /\ Item.op = "RecordMainLoss" /\ Item = For("RecordMainLoss", Item.player)
        /\ Item.player \in Player
        /\ losses' = [losses EXCEPT ![Item.player] = @ + 1]
  <2> SUFFICES ASSUME RecordMainLoss
               PROVE  /\ ExecuteWorkItem /\ work' = Rest /\ ~MatchOver
                      /\ Item.op = "RecordMainLoss"
                      /\ Item = For("RecordMainLoss", Item.player)
                      /\ Item.player \in Player
                      /\ losses' = [losses EXCEPT ![Item.player] = @ + 1]
    OBVIOUS
  <2>1. ExecuteWorkItem /\ Item \in WorkItem
    BY ExecutingItem DEF ExecuteWorkItem, IInv
  <2>2. work' = Rest /\ ~MatchOver /\ Item.op = "RecordMainLoss"
        /\ losses' = [losses EXCEPT ![Item.player] = @ + 1]
    BY DEF RecordMainLoss, Executing, Draining
  <2>3. Item \in [op : PlayerWork, player : Player]
    BY <2>1, <2>2 DEF WorkItem, PlayerWork
  <2> QED
    BY <2>1, <2>2, <2>3 DEF For
<1>4. ASSUME NEW p \in Player, RecordMainLoss, Item = For("RecordMainLoss", p)
      PROVE  /\ Item.player = p /\ losses[p] \in 0 .. 2
             /\ CheckedFirst(work, p)'
  <2>1. /\ work \in Seq(WorkItem) /\ work # <<>> /\ Item = Head(work) /\ Rest = Tail(work)
    BY <1>3, <1>4, ExecutingItem DEF IInv, ControlType, Item, Rest
  <2>2. Item # For("LossCheck", p)
    BY <1>4 DEF For
  <2>3. ~CheckedFirst(work, p)
    BY <1>4, <2>1, <2>2, CheckedFirstTail
  <2>4. losses[p] \in 0 .. 3 /\ ~(losses[p] >= 3)
    BY <1>3, <1>4, <2>3 DEF LossInv, ThirdIsChecked
  <2>5. CheckedFirst(Rest, p)
    BY <1>4, <2>1, OwedBehind DEF LossInv
  <2>6. work' = Rest /\ Item.player = p
    BY <1>3, <1>4 DEF For
  <2> QED
    BY <2>4, <2>5, <2>6 DEF CheckedFirst, Checked
<1>5. (losses \in [Player -> 0 .. 3])'
  <2>1. CASE RecordMainLoss
    <3>1. losses[Item.player] \in 0 .. 2
      BY <1>3, <1>4, <2>1
    <3> QED
      BY <1>3, <2>1, <3>1 DEF LossInv
  <2> QED
    BY <1>2, <2>1 DEF LossInv
<1>6. ASSUME NEW p \in Player, losses'[p] >= 3, ~MatchOver'
      PROVE  CheckedFirst(work, p)'
  <2>1. ~MatchOver
    BY <1>2, <1>6 DEF MatchOver
  <2>2. ~(ExecuteWorkItem /\ Item = For("LossCheck", p)) \/ losses[p] < 3
    <3> SUFFICES ASSUME ExecuteWorkItem, Item = For("LossCheck", p), losses[p] >= 3
                 PROVE  FALSE
      BY DEF LossInv
    <3>1. Item.op = "LossCheck" /\ Item.player = p
      BY DEF For
    <3>2. LossCheck
      BY <3>1 DEF ExecuteWorkItem, Executing, ReadyAll, DrawCard, ProduceMana,
                  BeginMainPhase, DestructionCheck, DiscardDestroyedChain,
                  RecordMainLoss, RecoverPrize, PromoteBenchSummon,
                  ResolveMovementConsequences, RunMovementTrigger,
                  FireRespondable, FireImmediate, FireVanished
    <3>3. status' = "Ended"
      BY <3>1, <3>2 DEF LossCheck, Ending
    <3> QED
      BY <1>6, <3>3 DEF MatchOver
  <2>3. CASE RecordMainLoss /\ Item = For("RecordMainLoss", p)
    BY <1>4, <2>3
  <2>4. CASE ~(RecordMainLoss /\ Item = For("RecordMainLoss", p))
    <3>1. losses'[p] = losses[p]
      BY <1>2, <1>3, <2>4 DEF LossInv
    <3>2. CheckedFirst(work, p)
      BY <1>6, <2>1, <3>1 DEF LossInv, ThirdIsChecked
    <3>3. ~(losses[p] < 3)
      BY <1>6, <3>1 DEF LossInv
    <3>4. ~(ExecuteWorkItem /\ Item = For("LossCheck", p))
      BY <2>2, <3>3
    <3> QED
      BY <1>1, <3>2, <3>4, CheckStaysFirst
  <2> QED
    BY <2>3, <2>4
<1>7. (\A p \in Player : ThirdIsChecked(p))'
  BY <1>6 DEF ThirdIsChecked
<1> QED
  BY <1>1, <1>5, <1>7 DEF LossInv

\* A scenario may be written with three losses already counted: nothing
\* queues the check for those.
NobodyHasLostYet == \A s \in Setups, p \in Player : s.losses[p] < 3

LEMMA LossesAlways == NobodyHasLostYet => (Spec => []LossInv)
<1> SUFFICES ASSUME NobodyHasLostYet PROVE Spec => []LossInv
  OBVIOUS
<1>1. Init => LossInv
  <2> SUFFICES ASSUME Init PROVE LossInv
    OBVIOUS
  <2>1. PICK s \in Setups : FromScenario(s)
    BY DEF Init
  <2>2. losses = s.losses /\ work = <<>> /\ losses \in [Player -> Nat]
    BY <2>1, SetupAssumption DEF FromScenario, ValidSetup
  <2>3. Followed(work)
    BY <2>2, EmptyOwesNothing, NothingIsFollowed
  <2>4. \A p \in Player : losses[p] < 3 /\ losses[p] \in Nat
    BY <2>2 DEF NobodyHasLostYet
  <2>5. losses \in [Player -> 0 .. 3]
    BY <2>2, <2>4
  <2> QED
    BY <2>3, <2>4, <2>5 DEF LossInv, ThirdIsChecked
<1>2. IInv /\ LossInv /\ [Next]_vars => LossInv'
  <2>1. ASSUME IInv, LossInv, UNCHANGED vars PROVE LossInv'
    BY <2>1 DEF LossInv, vars, statusVars, stackVars, poolVars, Followed,
                LossesFollowed, LossesSpaced, PromotionsFollowed, ThirdIsChecked,
                CheckedFirst, Checked, MatchOver
  <2> QED
    BY <2>1, LossStep
<1> QED
  BY <1>1, <1>2, ControlInvariant, PTL DEF Spec

(***************************************************************************)
(* While a match goes on, a third Main loss has its check in the queue     *)
(* (destruction::record_main_loss, loss::check): whatever windows,         *)
(* decisions, triggers and further destructions come before it, the check  *)
(* is neither dropped nor overtaken.                                       *)
(***************************************************************************)
THEOREM ThirdLossIsDecidedAlways ==
  NobodyHasLostYet => (Spec => []ThirdLossIsDecided)
<1>1. LossInv => ThirdLossIsDecided
  BY DEF LossInv, ThirdIsChecked, ThirdLossIsDecided, CheckedFirst, Checked
<1> QED
  BY <1>1, LossesAlways, PTL

(***************************************************************************)
(* Nobody is ever counted a fourth loss, however many destructions of one  *)
(* Main are queued at once: the check of the third comes before the next   *)
(* is recorded (PlayerState.main_losses is a byte that is added to).       *)
(***************************************************************************)
ThreeLossesAtMost == \A p \in Player : losses[p] \in 0 .. 3
THEOREM NobodyLosesAFourth ==
  NobodyHasLostYet => (Spec => []ThreeLossesAtMost)
<1>1. LossInv => ThreeLossesAtMost
  BY DEF LossInv, ThreeLossesAtMost
<1> QED
  BY <1>1, LossesAlways, PTL

-----------------------------------------------------------------------------
(* The Upkeep.                                                             *)

\* The advance into Main is the last step of its Upkeep, and queued at most
\* once.
UpkeepOrdered(queue) ==
  \A i, j \in DOMAIN queue :
    queue[i].op = "BeginMainPhase" /\ queue[j].op \in UpkeepOps => j <= i

UpkeepInv == UpkeepOrdered(work) /\ (phase # "Upkeep" => ~Advances(work))

LEMMA OrdinaryIsOrdered ==
  ASSUME NEW s, Ordinary(s)
  PROVE  UpkeepOrdered(s) /\ ~Advances(s)
BY DEF Ordinary, UpkeepOrdered, UpkeepOps, Advances

LEMMA NoAdvanceJoin ==
  ASSUME NEW s \in Seq(WorkItem), NEW t \in Seq(WorkItem),
         ~Advances(s), ~Advances(t)
  PROVE  ~Advances(s \o t)
<1> DEFINE u == s \o t
<1>1. /\ Len(s) \in Nat /\ Len(t) \in Nat /\ u \in Seq(WorkItem)
      /\ Len(u) = Len(s) + Len(t)
      /\ \A i \in 1 .. Len(u) :
           u[i] = IF i <= Len(s) THEN s[i] ELSE t[i - Len(s)]
  OBVIOUS
<1>2. DOMAIN s = 1 .. Len(s) /\ DOMAIN t = 1 .. Len(t) /\ DOMAIN u = 1 .. Len(u)
  BY <1>1, LenProperties
<1> HIDE DEF u
<1>3. ASSUME NEW i \in 1 .. Len(u) PROVE u[i].op # "BeginMainPhase"
  <2>1. CASE i <= Len(s)
    BY <1>1, <1>2, <2>1, SMTT(30) DEF Advances
  <2>2. CASE ~(i <= Len(s))
    <3>1. i - Len(s) \in 1 .. Len(t) /\ u[i] = t[i - Len(s)]
      BY <1>1, <2>2
    <3> QED
      BY <1>2, <3>1 DEF Advances
  <2> QED
    BY <2>1, <2>2
<1> QED
  BY <1>2, <1>3 DEF Advances, u

\* Work queued in front of an Upkeep, or ordinary work behind it.
LEMMA OrderedJoin ==
  ASSUME NEW s \in Seq(WorkItem), NEW t \in Seq(WorkItem),
         UpkeepOrdered(s), UpkeepOrdered(t), Ordinary(t) \/ ~Advances(s)
  PROVE  UpkeepOrdered(s \o t)
<1> DEFINE u == s \o t
<1>1. /\ Len(s) \in Nat /\ Len(t) \in Nat /\ u \in Seq(WorkItem)
      /\ Len(u) = Len(s) + Len(t)
      /\ \A i \in 1 .. Len(u) :
           u[i] = IF i <= Len(s) THEN s[i] ELSE t[i - Len(s)]
  OBVIOUS
<1>2. DOMAIN s = 1 .. Len(s) /\ DOMAIN t = 1 .. Len(t) /\ DOMAIN u = 1 .. Len(u)
  BY <1>1, LenProperties
<1> HIDE DEF u
<1>3. ASSUME NEW i \in 1 .. Len(u), NEW j \in 1 .. Len(u),
             u[i].op = "BeginMainPhase", u[j].op \in UpkeepOps
      PROVE  j <= i
  <2>1. i > Len(s) => i - Len(s) \in 1 .. Len(t) /\ u[i] = t[i - Len(s)]
    BY <1>1
  <2>2. j > Len(s) => j - Len(s) \in 1 .. Len(t) /\ u[j] = t[j - Len(s)]
    BY <1>1
  <2>3. CASE i <= Len(s) /\ j <= Len(s)
    <3>1. i \in 1 .. Len(s) /\ j \in 1 .. Len(s) /\ u[i] = s[i] /\ u[j] = s[j]
      BY <1>1, <2>3
    <3> QED
      BY <1>2, <1>3, <3>1 DEF UpkeepOrdered
  <2>4. CASE i <= Len(s) /\ j > Len(s)
    <3>1. i \in 1 .. Len(s) /\ u[i] = s[i]
      BY <1>1, <2>4
    <3>2. Advances(s)
      BY <1>2, <1>3, <3>1 DEF Advances
    <3>3. t[j - Len(s)].op \notin UpkeepOps
      BY <1>2, <2>2, <2>4, <3>2 DEF Ordinary
    <3> QED
      BY <1>3, <2>2, <2>4, <3>3
  <2>5. CASE i > Len(s) /\ j <= Len(s)
    BY <1>1, <2>5
  <2>6. CASE i > Len(s) /\ j > Len(s)
    <3>1. j - Len(s) <= i - Len(s)
      BY <1>2, <1>3, <2>1, <2>2, <2>6 DEF UpkeepOrdered
    <3> QED
      BY <1>1, <3>1
  <2> QED
    BY <1>1, <2>3, <2>4, <2>5, <2>6
<1> QED
  BY <1>2, <1>3 DEF UpkeepOrdered, u

LEMMA OrderedTail ==
  ASSUME NEW s \in Seq(WorkItem), s # <<>>
  PROVE  /\ UpkeepOrdered(s) => UpkeepOrdered(Tail(s))
         /\ ~Advances(s) => ~Advances(Tail(s))
         /\ UpkeepOrdered(s) /\ Head(s).op = "BeginMainPhase" => Ordinary(Tail(s))
<1> DEFINE u == Tail(s)
<1>1. /\ Len(s) \in Nat /\ Len(s) > 0 /\ u \in Seq(WorkItem) /\ Head(s) = s[1]
      /\ Len(u) = Len(s) - 1 /\ \A i \in 1 .. Len(u) : u[i] = s[i + 1]
  OBVIOUS
<1>2. DOMAIN s = 1 .. Len(s) /\ DOMAIN u = 1 .. Len(u) /\ 1 \in DOMAIN s
  BY <1>1, LenProperties
<1>3. \A i \in 1 .. Len(u) : i + 1 \in 1 .. Len(s) /\ u[i] = s[i + 1]
  BY <1>1
<1> HIDE DEF u
<1>4. ASSUME UpkeepOrdered(s) PROVE UpkeepOrdered(u)
  <2> SUFFICES ASSUME NEW i \in 1 .. Len(u), NEW j \in 1 .. Len(u),
                      u[i].op = "BeginMainPhase", u[j].op \in UpkeepOps
               PROVE  j <= i
    BY <1>2 DEF UpkeepOrdered
  <2>1. j + 1 <= i + 1
    BY <1>2, <1>3, <1>4 DEF UpkeepOrdered
  <2> QED
    BY <1>1, <2>1
<1>5. ASSUME ~Advances(s) PROVE ~Advances(u)
  BY <1>2, <1>3, <1>5 DEF Advances
<1>6. ASSUME UpkeepOrdered(s), Head(s).op = "BeginMainPhase" PROVE Ordinary(u)
  <2> SUFFICES ASSUME NEW j \in 1 .. Len(u), u[j].op \in UpkeepOps PROVE FALSE
    BY <1>2 DEF Ordinary
  <2>1. j + 1 <= 1
    BY <1>1, <1>2, <1>3, <1>6 DEF UpkeepOrdered
  <2> QED
    BY <1>1, <2>1
<1> QED
  BY <1>4, <1>5, <1>6 DEF u

LEMMA UpkeepStepsOrdered ==
  ASSUME BoardShape, NEW next \in Player
  PROVE  UpkeepSteps(next) \in Seq(WorkItem) /\ UpkeepOrdered(UpkeepSteps(next))
<1>1. /\ Candidates(next, "YourUpkeep") \in Seq(WorkItem)
      /\ Ordinary(Candidates(next, "YourUpkeep"))
  BY CandidatesQueueable DEF TriggerEvent, Queueable
<1>2. /\ Step("ReadyAll") \in WorkItem /\ Step("DrawCard") \in WorkItem
      /\ For("ProduceMana", next) \in WorkItem
      /\ Step("BeginMainPhase") \in WorkItem
  BY DEF Step, For, WorkItem, PlayerWork
<1> DEFINE first == << Step("ReadyAll") >>
           before == first \o Candidates(next, "YourUpkeep")
           last == << Step("DrawCard"), For("ProduceMana", next),
                      Step("BeginMainPhase") >>
<1>3. /\ first \in Seq(WorkItem) /\ last \in Seq(WorkItem)
      /\ DOMAIN first = {1} /\ first[1].op = "ReadyAll"
      /\ Len(last) = 3 /\ last[1].op = "DrawCard" /\ last[2].op = "ProduceMana"
  BY <1>2 DEF Step, For
<1>4. UpkeepSteps(next) = before \o last
  BY <1>1, <1>2 DEF UpkeepSteps
<1> HIDE DEF first, last
<1>5. DOMAIN last = {1, 2, 3}
  BY <1>3, LenProperties
<1>6. UpkeepOrdered(first) /\ ~Advances(first)
  BY <1>3 DEF UpkeepOrdered, Advances
<1>7. UpkeepOrdered(last)
  BY <1>3, <1>5 DEF UpkeepOrdered
<1>8. before \in Seq(WorkItem) /\ UpkeepOrdered(before) /\ ~Advances(before)
  BY <1>1, <1>3, <1>6, OrdinaryIsOrdered, OrderedJoin, NoAdvanceJoin,
     ConcatProperties
<1> HIDE DEF before
<1> QED
  BY <1>3, <1>4, <1>7, <1>8, OrderedJoin, ConcatProperties

\* The turn moves on in three steps only, and never once the match is over.
TurnKept == active' = active /\ phase' = phase
AttackDeclared == phase = "Main" /\ phase' = "Combat" /\ active' = active

LEMMA TurnMoves ==
  ASSUME IInv, Next
  PROVE  /\ MatchOver => TurnKept /\ MatchOver'
         /\ ~TurnKept => /\ status' = status
                         /\ AttackDeclared \/ TurnPasses \/ BeginMainPhase
<1> USE DEF turnVars, statusVars, TurnKept
<1>1. ASSUME NEW p \in Player, PlayerAction(p)
      PROVE  /\ ~MatchOver
             /\ ~TurnKept => status' = status /\ (AttackDeclared \/ TurnPasses)
  <2>1. CASE \/ \E c \in CardInstance, slot \in Bench : PlaySummon(p, c, slot)
             \/ \E c \in CardInstance, q \in Position : UpgradeSummon(p, c, q)
             \/ \E c \in CardInstance, targets \in TargetChoices, hint \in Hint :
                  CastSpell(p, c, targets, hint)
             \/ \E q \in Position, targets \in TargetChoices, hint \in Hint :
                  \E i \in (IF Occupied(p, q) THEN DOMAIN FaceAt(p, q).skills ELSE {}) :
                    ActivateSkill(p, q, i, targets, hint)
    <3>1. ASSUME NEW c \in CardInstance, NEW slot \in Bench, PlaySummon(p, c, slot)
          PROVE  ~MatchOver /\ TurnKept
      BY <3>1 DEF PlaySummon, MayAct
    <3>2. ASSUME NEW c \in CardInstance, NEW q \in Position, UpgradeSummon(p, c, q)
          PROVE  ~MatchOver /\ TurnKept
      BY <3>2 DEF UpgradeSummon, MayAct
    <3>3. ASSUME NEW c \in CardInstance, NEW targets \in TargetChoices, NEW hint \in Hint,
                 CastSpell(p, c, targets, hint)
          PROVE  ~MatchOver /\ TurnKept
      BY <3>3 DEF CastSpell, MayAct
    <3>4. ASSUME NEW q \in Position, NEW targets \in TargetChoices, NEW hint \in Hint, NEW i,
                 ActivateSkill(p, q, i, targets, hint)
          PROVE  ~MatchOver /\ TurnKept
      BY <3>4 DEF ActivateSkill, MayAct
    <3>. HIDE DEF TurnKept
    <3>. QED  BY <2>1, <3>1, <3>2, <3>3, <3>4
  <2>2. CASE (\E slot \in Bench, hint \in Hint : Retreat(p, slot, hint)) \/ EndTurn(p)
    BY <2>2 DEF Retreat, EndTurn, MayAct
  <2>3. CASE \E hint \in Hint : DeclareAttack(p, hint)
    BY <2>3 DEF DeclareAttack, MayAct, AttackDeclared
  <2>4. CASE PassPriority(p)
    BY <2>4 DEF PassPriority, MayAct, HoldsPriority, MovePriority, CloseWindow,
                Handover, TurnPasses
  <2>5. CASE \/ \E t \in ManaType : ConvertCoin(p, t) \/ ChooseManaType(p, t)
             \/ \E slot \in Bench : ChoosePromotion(p, slot)
             \/ \E i \in DOMAIN prizes[Opponent(p)] : ChoosePrize(p, i)
             \/ Resign(p)
    BY <2>5 DEF ConvertCoin, ChooseManaType, ChoosePromotion, ChoosePrize, Resign,
                MayAct
  <2> QED
    BY <1>1, <2>1, <2>2, <2>3, <2>4, <2>5 DEF PlayerAction
<1>2. CASE ResolveTopStackItem \/ FinishResolving
  BY <1>2 DEF ResolveTopStackItem, FinishResolving, MatchOver
<1>3. CASE ApplyLeaf
  <2>1. ~MatchOver
    BY <1>3 DEF ApplyLeaf, DealDamage, Heal, ReadySummon, CannotBeMovedByOpponent,
                MoveSummon, SwapPositions, SwapOpposingPositions, ProduceManaLeaf,
                DrawCards, ReturnSpellFromDiscard, ReturnSpellToDeckTop,
                LeafWithoutEffect, Applying
  <2>2. CASE DealDamage \/ Heal \/ ReadySummon \/ CannotBeMovedByOpponent
               \/ MoveSummon \/ SwapPositions \/ SwapOpposingPositions
    BY <2>1, <2>2 DEF DealDamage, Heal, ReadySummon, CannotBeMovedByOpponent,
                MoveSummon, SwapPositions, SwapOpposingPositions, Exchange, BoardOnly
  <2>3. CASE ProduceManaLeaf \/ DrawCards \/ ReturnSpellFromDiscard
               \/ ReturnSpellToDeckTop \/ LeafWithoutEffect
    BY <2>1, <2>3 DEF ProduceManaLeaf, DrawCards, ReturnSpellFromDiscard,
                ReturnSpellToDeckTop, LeafWithoutEffect
  <2> QED
    BY <1>3, <2>2, <2>3 DEF ApplyLeaf
<1>4. CASE ExecuteWorkItem
  <2>1. ~MatchOver
    BY <1>4, ExecutingItem DEF IInv, Draining
  <2>2. CASE BeginMainPhase
    BY <2>1, <2>2 DEF BeginMainPhase
  <2>3. CASE ReadyAll \/ DrawCard \/ ProduceMana \/ DestructionCheck
    BY <2>1, <2>3 DEF ReadyAll, DrawCard, ProduceMana, DestructionCheck
  <2>4. CASE DiscardDestroyedChain
    BY <2>1, <2>4 DEF DiscardDestroyedChain, DiscardNothing, DiscardVictim
  <2>5. CASE \/ RecordMainLoss \/ RecoverPrize \/ PromoteBenchSummon
             \/ ResolveMovementConsequences \/ LossCheck
    BY <2>1, <2>5 DEF RecordMainLoss, RecoverPrize, PromoteBenchSummon,
                      ResolveMovementConsequences, LossCheck
  <2>6. CASE RunMovementTrigger \/ FireRespondable \/ FireImmediate \/ FireVanished
    BY <2>1, <2>6 DEF RunMovementTrigger, FireRespondable, FireImmediate, FireVanished
  <2> QED
    BY <1>4, <2>2, <2>3, <2>4, <2>5, <2>6 DEF ExecuteWorkItem
<1> QED
  BY <1>1, <1>2, <1>3, <1>4 DEF Next, DrainStep

\* What BeginMainPhase leaves behind is no Upkeep work.
LEMMA UpkeepDone ==
  ASSUME IInv, UpkeepInv, BeginMainPhase
  PROVE  /\ phase = "Upkeep" /\ phase' = "Main" /\ active' = active
         /\ status' = status
         /\ work' \in Seq(WorkItem) /\ Ordinary(work')
<1>1. /\ Executing("BeginMainPhase") /\ work' = Rest
      /\ phase' = "Main" /\ active' = active /\ status' = status
  BY DEF BeginMainPhase, statusVars
<1>2. ExecuteWorkItem
  BY DEF ExecuteWorkItem
<1>3. /\ work # <<>> /\ work \in Seq(WorkItem) /\ Rest \in Seq(WorkItem)
      /\ Item.op = "BeginMainPhase"
  BY <1>1, <1>2, ExecutingItem DEF IInv, ControlType, Executing
<1>4. Ordinary(Rest)
  BY <1>3, OrderedTail DEF UpkeepInv, Rest, Item
<1>5. Advances(work)
  <2>1. 1 \in DOMAIN work /\ work[1] = Head(work)
    BY <1>3, LenProperties
  <2> QED
    BY <1>3, <2>1 DEF Advances, Item
<1> QED
  BY <1>1, <1>3, <1>4, <1>5 DEF UpkeepInv

LEMMA UpkeepStep ==
  ASSUME IInv, UpkeepInv, Next
  PROVE  UpkeepInv'
<1>1. PICK more \in Seq(WorkItem) :
        (Ordinary(more) \/ TurnPasses) /\ QueueGrows(more)
  BY QueueStep DEF QueueChange
<1>2. work \in Seq(WorkItem)
  BY DEF IInv, ControlType
<1>3. CASE TurnPasses
  <2>1. work = <<>> /\ NextPlayer \in Player
    BY <1>3, OpponentType
       DEF TurnPasses, IInv, ControlInv, HandoverIsClean, ControlType, NextPlayer
  <2>2. /\ UpkeepSteps(NextPlayer) \in Seq(WorkItem)
        /\ UpkeepOrdered(UpkeepSteps(NextPlayer))
    BY <2>1, UpkeepStepsOrdered DEF IInv
  <2>3. phase' = "Upkeep" /\ work' = work \o UpkeepSteps(NextPlayer)
    BY <1>3 DEF TurnPasses, Handover
  <2>4. work' = UpkeepSteps(NextPlayer)
    BY <2>1, <2>2, <2>3, ConcatEmptySeq
  <2> QED
    BY <2>2, <2>3, <2>4 DEF UpkeepInv, UpkeepOrdered
<1>4. CASE BeginMainPhase
  <2>1. Ordinary(work')
    BY <1>4, UpkeepDone
  <2>2. UpkeepOrdered(work') /\ ~Advances(work')
    BY <2>1, OrdinaryIsOrdered
  <2> QED
    BY <2>2 DEF UpkeepInv, UpkeepOrdered, Advances
<1>5. CASE ~TurnPasses /\ ~BeginMainPhase
  <2>1. phase' # "Upkeep" => phase # "Upkeep"
    BY <1>5, TurnMoves DEF TurnKept, AttackDeclared
  <2>2. Ordinary(more) /\ UpkeepOrdered(more) /\ ~Advances(more)
    BY <1>1, <1>5, OrdinaryIsOrdered
  <2>3. CASE work' = work \o more
    <3>1. /\ UpkeepOrdered(work \o more)
          /\ ~Advances(work) => ~Advances(work \o more)
      BY <1>2, <2>2, OrderedJoin, NoAdvanceJoin DEF UpkeepInv
    <3> QED
      BY <2>1, <2>3, <3>1 DEF UpkeepInv, UpkeepOrdered, Advances
  <2>4. CASE ExecuteWorkItem /\ work' \in {Rest \o more, more \o Rest}
    <3>1. /\ Rest \in Seq(WorkItem) /\ UpkeepOrdered(Rest)
          /\ ~Advances(work) => ~Advances(Rest)
      BY <1>2, <2>4, ExecutingItem, OrderedTail DEF IInv, Rest, UpkeepInv
    <3>2. /\ UpkeepOrdered(Rest \o more) /\ UpkeepOrdered(more \o Rest)
          /\ ~Advances(Rest) => ~Advances(Rest \o more) /\ ~Advances(more \o Rest)
      BY <2>2, <3>1, OrderedJoin, NoAdvanceJoin
    <3>3. UpkeepOrdered(work') /\ (~Advances(work) => ~Advances(work'))
      BY <2>4, <3>1, <3>2
    <3> QED
      BY <2>1, <3>3 DEF UpkeepInv, UpkeepOrdered, Advances
  <2> QED
    BY <1>1, <2>3, <2>4 DEF QueueGrows
<1> QED
  BY <1>3, <1>4, <1>5

LEMMA UpkeepAlways == Spec => []UpkeepInv
<1>1. Init => UpkeepInv
  <2> SUFFICES ASSUME Init PROVE UpkeepInv
    OBVIOUS
  <2>1. PICK s \in Setups : FromScenario(s)
    BY DEF Init
  <2>2. work = <<>>
    BY <2>1 DEF FromScenario
  <2>3. Ordinary(work)
    BY <2>2, EmptyIsQueueable DEF Queueable
  <2> QED
    BY <2>3, OrdinaryIsOrdered DEF UpkeepInv
<1>2. IInv /\ UpkeepInv /\ [Next]_vars => UpkeepInv'
  <2>1. ASSUME IInv, UpkeepInv, UNCHANGED vars PROVE UpkeepInv'
    BY <2>1 DEF vars, turnVars, UpkeepInv, UpkeepOrdered, Advances
  <2> QED
    BY <2>1, UpkeepStep
<1> QED
  BY <1>1, <1>2, ControlInvariant, PTL DEF Spec

LEMMA QueuedOnce ==
  ASSUME IInv, UpkeepInv
  PROVE  MainPhaseIsQueuedOnce
<1> DEFINE advances == {i \in DOMAIN work : work[i].op = "BeginMainPhase"}
<1>1. CASE phase = "Upkeep"
  <2>1. Advances(work)
    BY <1>1 DEF IInv, ControlInv, UpkeepGoesOn
  <2>2. PICK i \in DOMAIN work : work[i].op = "BeginMainPhase"
    BY <2>1 DEF Advances
  <2>3. DOMAIN work \subseteq Nat
    BY LenProperties DEF IInv, ControlType
  <2>4. \A j \in advances : j = i
    BY <2>2, <2>3 DEF UpkeepInv, UpkeepOrdered, UpkeepOps
  <2>5. advances = {i}
    BY <2>2, <2>4
  <2>6. Cardinality(advances) = 1
    BY <2>5, FS_Singleton
  <2> QED
    BY <1>1, <2>6 DEF MainPhaseIsQueuedOnce
<1>2. CASE phase # "Upkeep"
  BY <1>2 DEF UpkeepInv, Advances, MainPhaseIsQueuedOnce
<1> QED
  BY <1>1, <1>2

\* What MainPhaseFollowsUpkeep says of one step.
UpkeepLeftClean ==
  phase = "Upkeep" /\ phase' = "Main" =>
    \A i \in DOMAIN work' : work'[i].op \notin UpkeepWork

(***************************************************************************)
(* A turn enters its Main Phase once, and with its Upkeep done             *)
(* (turn::handover, resolution's BeginMainPhase): the advance stays the    *)
(* last Upkeep step in the queue and the only one of its kind, whatever    *)
(* triggers, decisions, windows and destructions an Upkeep goes through.   *)
(***************************************************************************)
THEOREM UpkeepIsFinishedAlways == Spec => UpkeepIsFinished
<1>1. IInv /\ UpkeepInv => MainPhaseIsQueuedOnce
  BY QueuedOnce
<1>2. IInv /\ UpkeepInv /\ [Next]_vars => [UpkeepLeftClean]_vars
  <2> SUFFICES ASSUME IInv, UpkeepInv, Next, phase = "Upkeep", phase' = "Main"
               PROVE  \A i \in DOMAIN work' : work'[i].op \notin UpkeepWork
    BY DEF UpkeepLeftClean
  <2>1. BeginMainPhase
    BY TurnMoves DEF TurnKept, AttackDeclared, TurnPasses, Handover
  <2>2. Ordinary(work')
    BY <2>1, UpkeepDone
  <2> QED
    BY <2>2 DEF Ordinary, UpkeepOps
<1>3. MainPhaseFollowsUpkeep <=> [][UpkeepLeftClean]_vars
  BY PTL DEF MainPhaseFollowsUpkeep, UpkeepLeftClean
<1> QED
  BY <1>1, <1>2, <1>3, UpkeepAlways, ControlInvariant, PTL
     DEF Spec, UpkeepIsFinished

(***************************************************************************)
(* The engine implements TurnProtocol: phases only move forward, the turn  *)
(* passes out of a Main or Combat Phase into the opponent's Upkeep, and a  *)
(* match that is over moves no more (turn.rs, resolution.rs).              *)
(***************************************************************************)
THEOREM FollowsTurnProtocolAlways == Spec => FollowsTurnProtocol
<1>1. Init => Turns!Init
  <2> SUFFICES ASSUME Init PROVE Turns!Init
    OBVIOUS
  <2>1. PICK s \in Setups : FromScenario(s)
    BY DEF Init
  <2>2. active \in Player
    BY <2>1, SetupAssumption DEF FromScenario, ValidSetup
  <2> QED
    BY <2>1, <2>2 DEF FromScenario, MatchOver, Player, Turns!Init, Turns!Seat
<1>2. IInv /\ UpkeepInv /\ [Next]_vars => [Turns!Next]_(Turns!turn)
  <2>1. ASSUME UNCHANGED vars PROVE UNCHANGED Turns!turn
    BY <2>1 DEF vars, turnVars, statusVars, MatchOver, Turns!turn
  <2>2. ASSUME IInv, UpkeepInv, Next PROVE [Turns!Next]_(Turns!turn)
    <3>1. status' = status \/ MatchOver'
      BY <2>2, LossesElsewhere
    <3>2. CASE TurnKept
      <4>1. (MatchOver' <=> MatchOver) \/ (~MatchOver /\ MatchOver')
        BY <3>1 DEF MatchOver
      <4> QED
        BY <3>2, <4>1 DEF TurnKept, Turns!turn, Turns!Next, Turns!Finish, MatchOver
    <3>3. CASE ~TurnKept
      <4>1. ~MatchOver /\ status' = status
        BY <2>2, <3>3, TurnMoves
      <4>2. CASE AttackDeclared
        BY <4>1, <4>2 DEF AttackDeclared, MatchOver, Turns!Next, Turns!EnterCombat
      <4>3. CASE BeginMainPhase
        BY <2>2, <4>1, <4>3, UpkeepDone DEF MatchOver, Turns!Next, Turns!EnterMain
      <4>4. CASE TurnPasses
        <5>1. phase \in {"Main", "Combat"}
          BY <2>2, <4>4 DEF TurnPasses, IInv, ControlInv, HandoverIsClean,
                            ControlType, Phase
        <5>2. active' = Opponent(active) /\ phase' = "Upkeep"
          BY <4>4 DEF TurnPasses, Handover, NextPlayer
        <5> QED
          BY <4>1, <5>1, <5>2
             DEF MatchOver, Opponent, Turns!Next, Turns!PassTurn, Turns!Other
      <4> QED
        BY <2>2, <3>3, <4>2, <4>3, <4>4, TurnMoves
    <3> QED
      BY <3>2, <3>3
  <2> QED
    BY <2>1, <2>2
<1> QED
  BY <1>1, <1>2, UpkeepAlways, ControlInvariant, PTL
     DEF Spec, FollowsTurnProtocol, Turns!Spec

-----------------------------------------------------------------------------
(* The arrival in Main.                                                    *)

\* A Main that leaves, or keeps the card its chain is built on, is no arrival.
SameSummon(before, after) ==
  after = NoSummon \/ (before # NoSummon /\ after.chain[1] = before.chain[1])
MainsKept(b) == \A p \in Player : SameSummon(board[p][Main], b[p][Main])

\* A decision about a promotion has its consequences behind it.
PromotionAwaited ==
  pending.kind = "Promotion" =>
    \E i \in DOMAIN work :
      work[i] = For("ResolveMovementConsequences", pending.player)

Announced ==
  \A p \in Player : Arrives(p) =>
    \E i \in DOMAIN work' :
      work'[i] \in { MovementTrigger("EnteringMain", p, Main),
                     For("ResolveMovementConsequences", p) }

LEMMA KeptIsNoArrival ==
  ASSUME MainsKept(board')
  PROVE  Announced
BY DEF MainsKept, SameSummon, Announced, Arrives

LEMMA BoardUntouched ==
  ASSUME board' = board
  PROVE  Announced
<1>1. MainsKept(board')
  BY DEF MainsKept, SameSummon
<1> QED
  BY <1>1, KeptIsNoArrival

LEMMA PutKept ==
  ASSUME BoardShape, NEW p \in Player, NEW q \in Position, NEW s,
         q = Main => SameSummon(board[p][Main], s)
  PROVE  MainsKept([board EXCEPT ![p][q] = s])
BY DEF BoardShape, ShapedBoard, MainsKept, SameSummon, Main, Position

LEMMA TouchKept ==
  ASSUME BoardShape, NEW p \in Player, NEW q, Occupied(p, q), NEW x
  PROVE  /\ MainsKept([board EXCEPT ![p][q].damage = x])
         /\ MainsKept([board EXCEPT ![p][q].ready = x])
         /\ MainsKept([board EXCEPT ![p][q].marked = x])
         /\ MainsKept([board EXCEPT ![p][q].enteredMain = x])
<1>1. q \in Position /\ SummonShape(board[p][q]) /\ board[p][q] # NoSummon
  BY DEF Occupied, BoardShape, ShapedBoard, Shaped
<1> DEFINE s == board[p][q]
<1>2. /\ [board EXCEPT ![p][q].damage = x]
            = [board EXCEPT ![p][q] = [s EXCEPT !.damage = x]]
      /\ [board EXCEPT ![p][q].ready = x]
            = [board EXCEPT ![p][q] = [s EXCEPT !.ready = x]]
      /\ [board EXCEPT ![p][q].marked = x]
            = [board EXCEPT ![p][q] = [s EXCEPT !.marked = x]]
      /\ [board EXCEPT ![p][q].enteredMain = x]
            = [board EXCEPT ![p][q] = [s EXCEPT !.enteredMain = x]]
  BY <1>1 DEF BoardShape, ShapedBoard
<1>3. /\ SameSummon(s, [s EXCEPT !.damage = x])
      /\ SameSummon(s, [s EXCEPT !.ready = x])
      /\ SameSummon(s, [s EXCEPT !.marked = x])
      /\ SameSummon(s, [s EXCEPT !.enteredMain = x])
  BY <1>1 DEF SummonShape, SameSummon
<1> QED
  BY <1>1, <1>2, <1>3, PutKept

LEMMA FreshKept ==
  ASSUME NEW s, Shaped(s), NEW expires
  PROVE  SameSummon(s, FreshTurn(s, expires)) /\ SameSummon(s, Readied(s))
<1>1. CASE s = NoSummon
  BY <1>1 DEF FreshTurn, Readied, SameSummon
<1>2. CASE s # NoSummon
  BY <1>2 DEF Shaped, SummonShape, FreshTurn, Readied, SameSummon
<1> QED
  BY <1>1, <1>2

LEMMA UpgradeKept ==
  ASSUME NEW s, SummonShape(s), NEW c \in CardInstance
  PROVE  s # NoSummon => SameSummon(s, Upgraded(s, c))
<1>1. s.chain \in Seq(CardInstance) /\ s.chain # <<>>
  BY DEF SummonShape
<1>2. Append(s.chain, c)[1] = s.chain[1]
  BY <1>1
<1>3. Upgraded(s, c).chain = Append(s.chain, c)
  BY DEF Upgraded, SummonShape
<1> QED
  BY <1>2, <1>3 DEF SameSummon

\* Both exchanges queue the four movement steps, the arrival among them.
LEMMA ExchangeAnnounced ==
  ASSUME IInv, NEW p \in Player, NEW slot \in Bench,
         board' = Exchanged(p, slot), work' = work \o ExchangeSteps(p, slot)
  PROVE  Announced
<1> DEFINE steps == ExchangeSteps(p, slot)
<1>1. slot \in Position /\ slot # Main /\ Main \in Position
  BY DEF Position, Bench, Main
<1>2. /\ work \in Seq(WorkItem) /\ steps \in Seq(WorkItem)
      /\ Len(steps) = 4 /\ steps[4] = MovementTrigger("EnteringMain", p, Main)
  BY <1>1, ExchangeStepsType DEF IInv, ControlType, ExchangeSteps
<1> HIDE DEF steps
<1>3. /\ Len(work) + 4 \in DOMAIN (work \o steps)
      /\ (work \o steps)[Len(work) + 4] = MovementTrigger("EnteringMain", p, Main)
  <2> DEFINE all == work \o steps
  <2>1. /\ Len(work) \in Nat /\ all \in Seq(WorkItem) /\ Len(all) = Len(work) + 4
        /\ \A i \in 1 .. 4 : all[i + Len(work)] = steps[i]
    <3>1. /\ Len(work) \in Nat /\ all \in Seq(WorkItem)
          /\ Len(all) = Len(work) + Len(steps)
          /\ \A i \in 1 .. Len(work) + Len(steps) :
               all[i] = IF i <= Len(work) THEN work[i] ELSE steps[i - Len(work)]
      BY <1>2, ConcatProperties, LenProperties
    <3> HIDE DEF all
    <3>2. ASSUME NEW i \in 1 .. 4
          PROVE  all[i + Len(work)] = steps[i]
      <4>1. /\ i + Len(work) \in 1 .. Len(work) + Len(steps)
            /\ ~(i + Len(work) <= Len(work)) /\ (i + Len(work)) - Len(work) = i
        BY <1>2, <3>1
      <4> QED
        BY <3>1, <4>1
    <3> QED
      BY <1>2, <3>1, <3>2
  <2>2. DOMAIN all = 1 .. Len(all)
    BY <2>1, LenProperties
  <2> HIDE DEF all
  <2>3. 4 + Len(work) = Len(work) + 4 /\ Len(work) + 4 \in 1 .. Len(all)
    BY <2>1
  <2>4. all[4 + Len(work)] = steps[4]
    BY <1>2, <2>1
  <2> QED
    BY <1>2, <2>2, <2>3, <2>4 DEF all
<1>4. \A r \in Player : r # p => board'[r] = board[r]
  BY DEF Exchanged, IInv, BoardShape, ShapedBoard
<1> SUFFICES ASSUME NEW r \in Player, Arrives(r)
             PROVE  \E i \in DOMAIN work' :
                      work'[i] \in { MovementTrigger("EnteringMain", r, Main),
                                     For("ResolveMovementConsequences", r) }
  BY DEF Announced
<1>5. r = p
  BY <1>4 DEF Arrives
<1> QED
  BY <1>3, <1>5 DEF steps

LEMMA AnnouncedByPlayer ==
  ASSUME IInv, PromotionAwaited, NEW p \in Player, PlayerAction(p)
  PROVE  Announced
<1> USE DEF IInv
<1>1. ASSUME NEW c \in CardInstance, NEW slot \in Bench, PlaySummon(p, c, slot)
      PROVE  Announced
  <2>1. slot \in Position /\ slot # Main
    BY DEF Position, Bench, Main
  <2> QED
    BY <1>1, <2>1, PutKept, KeptIsNoArrival DEF PlaySummon
<1>2. ASSUME NEW c \in CardInstance, NEW q \in Position, UpgradeSummon(p, c, q)
      PROVE  Announced
  <2>1. SummonShape(board[p][q]) /\ board[p][q] # NoSummon
    BY <1>2 DEF UpgradeSummon, Occupied, BoardShape, ShapedBoard, Shaped
  <2>2. SameSummon(board[p][q], Upgraded(board[p][q], c))
    BY <2>1, UpgradeKept
  <2> QED
    BY <1>2, <2>2, PutKept, KeptIsNoArrival DEF UpgradeSummon
<1>3. ASSUME NEW slot \in Bench, NEW hint \in Hint, Retreat(p, slot, hint)
      PROVE  Announced
  BY <1>3, ExchangeAnnounced DEF Retreat
<1>4. ASSUME NEW q \in Position, NEW i, NEW targets, NEW hint \in Hint,
             ActivateSkill(p, q, i, targets, hint)
      PROVE  Announced
  BY <1>4, TouchKept, KeptIsNoArrival DEF ActivateSkill
<1>5. ASSUME PassPriority(p) PROVE Announced
  <2>1. CASE Handover
    <3>1. \A r \in Player, expires \in BOOLEAN :
            SameSummon(board[r][Main], FreshTurn(board[r][Main], expires))
      BY FreshKept DEF BoardShape, ShapedBoard, Main, Position
    <3>2. MainsKept(BoardAtHandover(Opponent(active)))
      BY <3>1 DEF MainsKept, BoardAtHandover, Main, Position
    <3> QED
      BY <2>1, <3>2, KeptIsNoArrival DEF Handover, NextPlayer
  <2>2. CASE MovePriority(p) \/ CloseWindow
    BY <2>2, BoardUntouched DEF MovePriority, CloseWindow
  <2> QED
    BY <1>5, <2>1, <2>2 DEF PassPriority
<1>6. ASSUME NEW slot \in Bench, ChoosePromotion(p, slot) PROVE Announced
  <2>1. pending = Promotion(p) /\ board' = Promoted(p, slot) /\ work' = work
    BY <1>6 DEF ChoosePromotion
  <2>2. \E i \in DOMAIN work : work[i] = For("ResolveMovementConsequences", p)
    BY <2>1 DEF PromotionAwaited, Promotion
  <2>3. \A r \in Player : r # p => board'[r] = board[r]
    BY <2>1 DEF Promoted, BoardShape, ShapedBoard
  <2> QED
    BY <2>1, <2>2, <2>3 DEF Announced, Arrives
<1>7. CASE \/ \E c \in CardInstance, targets \in TargetChoices, hint \in Hint :
                CastSpell(p, c, targets, hint)
           \/ \E hint \in Hint : DeclareAttack(p, hint)
           \/ EndTurn(p)
           \/ \E t \in ManaType : ConvertCoin(p, t) \/ ChooseManaType(p, t)
           \/ \E i \in DOMAIN prizes[Opponent(p)] : ChoosePrize(p, i)
           \/ Resign(p)
  <2>1. board' = board
    BY <1>7 DEF CastSpell, DeclareAttack, EndTurn, ConvertCoin, ChooseManaType,
                ChoosePrize, Resign
  <2> QED
    BY <2>1, BoardUntouched
<1> QED
  BY <1>1, <1>2, <1>3, <1>4, <1>5, <1>6, <1>7 DEF PlayerAction

LEMMA AnnouncedByLeaf ==
  ASSUME IInv, ApplyLeaf
  PROVE  Announced
<1> USE DEF IInv
<1>1. resolving # Idle
  BY DEF ApplyLeaf, DealDamage, Heal, ReadySummon, CannotBeMovedByOpponent,
         MoveSummon, SwapPositions, SwapOpposingPositions, ProduceManaLeaf,
         DrawCards, ReturnSpellFromDiscard, ReturnSpellToDeckTop,
         LeafWithoutEffect, Applying
<1>2. Controller \in Player /\ Opponent(Controller) \in Player
  BY <1>1, ResolvingType, OpponentType
<1>3. CASE DealDamage
  <2>1. CASE Occupied(Opponent(Controller), Selected)
    BY <1>2, <1>3, <2>1, TouchKept, KeptIsNoArrival DEF DealDamage
  <2>2. CASE ~Occupied(Opponent(Controller), Selected)
    BY <1>3, <2>2, BoardUntouched DEF DealDamage
  <2> QED
    BY <2>1, <2>2
<1>4. CASE Heal
  <2>1. CASE Occupied(Controller, Aim)
    BY <1>2, <1>4, <2>1, TouchKept, KeptIsNoArrival DEF Heal
  <2>2. CASE ~Occupied(Controller, Aim)
    BY <1>4, <2>2, BoardUntouched DEF Heal
  <2> QED
    BY <2>1, <2>2
<1>5. CASE ReadySummon
  <2>1. CASE Occupied(Controller, Selected)
    BY <1>2, <1>5, <2>1, TouchKept, KeptIsNoArrival DEF ReadySummon
  <2>2. CASE ~Occupied(Controller, Selected)
    BY <1>5, <2>2, BoardUntouched DEF ReadySummon
  <2> QED
    BY <2>1, <2>2
<1>6. CASE CannotBeMovedByOpponent
  <2>1. CASE Occupied(Controller, Aim)
    BY <1>2, <1>6, <2>1, TouchKept, KeptIsNoArrival DEF CannotBeMovedByOpponent
  <2>2. CASE ~Occupied(Controller, Aim)
    BY <1>6, <2>2, BoardUntouched DEF CannotBeMovedByOpponent
  <2> QED
    BY <2>1, <2>2
<1>7. CASE MoveSummon
  <2> DEFINE p == Controller
             from == Targets[1]
             to == Targets[2]
  <2>1. CASE board' = board
    BY <2>1, BoardUntouched
  <2>2. CASE board' # board
    <3>1. /\ from \in Bench /\ to \in Bench
          /\ board' = [board EXCEPT ![p][to] = board[p][from],
                                    ![p][from] = NoSummon]
      BY <1>7, <2>2 DEF MoveSummon
    <3>2. from # Main /\ to # Main
      BY <3>1 DEF Bench, Main
    <3> DEFINE b == [board EXCEPT ![p][to] = board[p][from]]
    <3>3. /\ ShapedBoard(b)
          /\ \A r \in Player : b[r][Main] = board[r][Main]
      <4>1. to \in Position /\ from \in Position /\ Main \in Position
        BY <3>1 DEF Position, Main
      <4>2. Shaped(board[p][from])
        BY <1>2, <4>1 DEF BoardShape, ShapedBoard
      <4>3. ShapedBoard(b)
        BY <1>2, <4>1, <4>2, ShapedPut DEF BoardShape
      <4>4. \A r \in Player : board[r] = [q \in Position |-> board[r][q]]
        BY DEF BoardShape, ShapedBoard
      <4>5. \A r \in Player : b[r][Main] = board[r][Main]
        BY <1>2, <3>2, <4>1, <4>4
      <4> QED
        BY <4>3, <4>5
    <3>4. board' = [b EXCEPT ![p][from] = NoSummon]
      BY <3>1
    <3> HIDE DEF b
    <3>5. \A r \in Player : board'[r][Main] = board[r][Main]
      BY <1>2, <3>2, <3>3, <3>4 DEF ShapedBoard, Main, Position
    <3>6. MainsKept(board')
      BY <3>5 DEF MainsKept, SameSummon
    <3> QED
      BY <3>6, KeptIsNoArrival
  <2> QED
    BY <2>1, <2>2
<1>8. CASE SwapPositions \/ SwapOpposingPositions
  <2>1. \/ board' = board
        \/ \E p \in Player, slot \in Bench :
             board' = Exchanged(p, slot) /\ work' = work \o ExchangeSteps(p, slot)
    BY <1>2, <1>8 DEF SwapPositions, SwapOpposingPositions, Exchange
  <2> QED
    BY <2>1, BoardUntouched, ExchangeAnnounced
<1>9. CASE \/ ProduceManaLeaf \/ DrawCards \/ ReturnSpellFromDiscard
           \/ ReturnSpellToDeckTop \/ LeafWithoutEffect
  BY <1>9, BoardUntouched
     DEF ProduceManaLeaf, DrawCards, ReturnSpellFromDiscard,
         ReturnSpellToDeckTop, LeafWithoutEffect
<1> QED
  BY <1>3, <1>4, <1>5, <1>6, <1>7, <1>8, <1>9 DEF ApplyLeaf

\* The promotion and its consequences are queued together: when the first
\* runs, the second is at the front of what is left.
LEMMA PromotionQueued ==
  ASSUME IInv, Followed(work), PromoteBenchSummon
  PROVE  /\ Item.player \in Player /\ work' = Rest
         /\ \E i \in DOMAIN work' :
              work'[i] = For("ResolveMovementConsequences", Item.player)
<1>1. /\ ExecuteWorkItem /\ work' = Rest /\ Item.op = "PromoteBenchSummon"
  BY DEF ExecuteWorkItem, PromoteBenchSummon, Executing
<1>2. work # <<>> /\ work \in Seq(WorkItem) /\ Item \in WorkItem
      /\ Rest \in Seq(WorkItem)
  BY <1>1, ExecutingItem DEF IInv, ControlType
<1>3. Item \in [op : PlayerWork, player : Player]
  BY <1>1, <1>2 DEF WorkItem, PlayerWork
<1>4. Item.player \in Player /\ Item = For("PromoteBenchSummon", Item.player)
  BY <1>1, <1>3 DEF For
<1>5. /\ Rest # <<>>
      /\ Head(Rest) = For("ResolveMovementConsequences", Item.player)
  BY <1>2, <1>4, OwedBehind DEF Item, Rest
<1>6. /\ 1 \in DOMAIN Rest
      /\ Rest[1] = For("ResolveMovementConsequences", Item.player)
  <2>1. Len(Rest) \in Nat /\ Len(Rest) > 0 /\ Head(Rest) = Rest[1]
    BY <1>2, <1>5
  <2>2. DOMAIN Rest = 1 .. Len(Rest)
    BY <1>2, LenProperties
  <2> QED
    BY <1>5, <2>1, <2>2
<1> QED
  BY <1>1, <1>4, <1>6

LEMMA AnnouncedByWork ==
  ASSUME IInv, Followed(work), ExecuteWorkItem
  PROVE  Announced
<1> USE DEF IInv
<1>1. Item \in WorkItem
  BY ExecutingItem
<1>2. CASE ReadyAll
  <2>1. SameSummon(board[active][Main], Readied(board[active][Main]))
    BY FreshKept DEF BoardShape, ShapedBoard, ControlType, Main, Position
  <2>2. MainsKept([board EXCEPT ![active] =
                     [q \in Position |-> Readied(board[active][q])]])
    BY <2>1 DEF MainsKept, SameSummon, BoardShape, ShapedBoard, ControlType,
                Main, Position
  <2> QED
    BY <1>2, <2>2, KeptIsNoArrival DEF ReadyAll
<1>3. CASE DiscardDestroyedChain
  <2>1. \/ board' = board
        \/ \E p \in Player, q \in Position :
              board' = [board EXCEPT ![p][q] = NoSummon]
    <3>1. Item.position \in Position
      BY <1>1, <1>3 DEF DiscardDestroyedChain, Executing, WorkItem, PlayerWork
    <3>2. Victims(Item.position) \subseteq Player
      BY OpponentType DEF Victims, First, Second, ControlType
    <3> QED
      BY <1>3, <3>1, <3>2 DEF DiscardDestroyedChain, DiscardNothing, DiscardVictim
  <2>2. \A s : SameSummon(s, NoSummon)
    BY DEF SameSummon
  <2> QED
    BY <2>1, <2>2, PutKept, BoardUntouched, KeptIsNoArrival
<1>4. CASE PromoteBenchSummon
  <2>1. /\ Item.player \in Player
        /\ \E i \in DOMAIN work' :
             work'[i] = For("ResolveMovementConsequences", Item.player)
    BY <1>4, PromotionQueued
  <2>2. board' = board \/ \E slot : board' = Promoted(Item.player, slot)
    BY <1>4 DEF PromoteBenchSummon
  <2>3. \A r \in Player : r # Item.player => board'[r] = board[r]
    BY <2>2 DEF Promoted, BoardShape, ShapedBoard
  <2> QED
    BY <2>1, <2>3 DEF Announced, Arrives
<1>5. CASE RunMovementTrigger
  <2>1. Item.player \in Player
    BY <1>1, <1>5 DEF RunMovementTrigger, Executing, WorkItem, PlayerWork
  <2>2. \/ board' = board
        \/ /\ Occupied(Item.player, Main)
           /\ board' = [board EXCEPT ![Item.player][Main].enteredMain = TRUE]
    BY <1>5 DEF RunMovementTrigger, MarkedArrival
  <2>3. Occupied(Item.player, Main) =>
          MainsKept([board EXCEPT ![Item.player][Main].enteredMain = TRUE])
    BY <2>1, TouchKept
  <2>4. CASE board' = board
    BY <2>4, BoardUntouched
  <2>5. CASE board' # board
    <3>1. MainsKept(board')
      BY <2>2, <2>3, <2>5
    <3> QED
      BY <3>1, KeptIsNoArrival
  <2> QED
    BY <2>4, <2>5
<1>6. CASE \/ DrawCard \/ ProduceMana \/ BeginMainPhase \/ DestructionCheck
           \/ RecordMainLoss \/ RecoverPrize \/ ResolveMovementConsequences
           \/ LossCheck \/ FireRespondable \/ FireImmediate \/ FireVanished
  BY <1>6, BoardUntouched
     DEF DrawCard, ProduceMana, BeginMainPhase, DestructionCheck,
         RecordMainLoss, RecoverPrize, ResolveMovementConsequences,
         LossCheck, FireRespondable, FireImmediate, FireVanished
<1> QED
  BY <1>2, <1>3, <1>4, <1>5, <1>6 DEF ExecuteWorkItem

\* Only a queued promotion asks for one.
LEMMA PendingElsewhere ==
  ASSUME IInv, Next
  PROVE  \/ pending' = pending
         \/ pending'.kind # "Promotion"
         \/ PromoteBenchSummon
<1> USE DEF NoPending, ManaProduction, PrizePick
<1>1. ASSUME NEW p \in Player, PlayerAction(p)
      PROVE  pending' = pending \/ pending'.kind # "Promotion"
  <2>1. CASE \/ \E c \in CardInstance, slot \in Bench : PlaySummon(p, c, slot)
             \/ \E c \in CardInstance, q \in Position : UpgradeSummon(p, c, q)
             \/ \E c \in CardInstance, targets \in TargetChoices, hint \in Hint :
                  CastSpell(p, c, targets, hint)
             \/ \E q \in Position, targets \in TargetChoices, hint \in Hint :
                  \E i \in (IF Occupied(p, q) THEN DOMAIN FaceAt(p, q).skills ELSE {}) :
                    ActivateSkill(p, q, i, targets, hint)
    BY <2>1, ZenonT(30) DEF PlaySummon, UpgradeSummon, CastSpell, ActivateSkill
  <2>2. CASE \/ \E slot \in Bench, hint \in Hint : Retreat(p, slot, hint)
             \/ \E hint \in Hint : DeclareAttack(p, hint)
             \/ EndTurn(p) \/ PassPriority(p)
    BY <2>2 DEF Retreat, DeclareAttack, EndTurn, PassPriority, MovePriority,
                CloseWindow, Handover
  <2>3. CASE \/ \E t \in ManaType : ConvertCoin(p, t) \/ ChooseManaType(p, t)
             \/ \E slot \in Bench : ChoosePromotion(p, slot)
             \/ \E i \in DOMAIN prizes[Opponent(p)] : ChoosePrize(p, i)
             \/ Resign(p)
    BY <2>3 DEF ConvertCoin, ChooseManaType, ChoosePromotion, ChoosePrize, Resign
  <2> QED
    BY <1>1, <2>1, <2>2, <2>3 DEF PlayerAction
<1>2. CASE ResolveTopStackItem \/ FinishResolving
  BY <1>2 DEF ResolveTopStackItem, FinishResolving
<1>3. CASE ApplyLeaf
  <2>1. CASE DealDamage \/ Heal \/ ReadySummon \/ CannotBeMovedByOpponent
               \/ MoveSummon \/ SwapPositions \/ SwapOpposingPositions
    BY <2>1 DEF DealDamage, Heal, ReadySummon, CannotBeMovedByOpponent, MoveSummon,
                SwapPositions, SwapOpposingPositions, Exchange, BoardOnly
  <2>2. CASE ProduceManaLeaf \/ DrawCards \/ ReturnSpellFromDiscard
               \/ ReturnSpellToDeckTop \/ LeafWithoutEffect
    BY <2>2 DEF ProduceManaLeaf, Produce, DrawCards, ReturnSpellFromDiscard,
                ReturnSpellToDeckTop, LeafWithoutEffect
  <2> QED
    BY <1>3, <2>1, <2>2 DEF ApplyLeaf
<1>4. CASE ExecuteWorkItem
  <2>1. CASE ReadyAll \/ DrawCard \/ ProduceMana \/ BeginMainPhase
    BY <2>1 DEF ReadyAll, DrawCard, ProduceMana, Produce, BeginMainPhase
  <2>2. CASE DestructionCheck \/ DiscardDestroyedChain
    BY <2>2 DEF DestructionCheck, DiscardDestroyedChain
  <2>3. CASE \/ RecordMainLoss \/ RecoverPrize \/ ResolveMovementConsequences
             \/ LossCheck
    BY <2>3 DEF RecordMainLoss, RecoverPrize, ResolveMovementConsequences,
                LossCheck
  <2>4. CASE RunMovementTrigger \/ FireRespondable \/ FireImmediate \/ FireVanished
    BY <2>4 DEF RunMovementTrigger, FireRespondable, FireImmediate, FireVanished
  <2> QED
    BY <1>4, <2>1, <2>2, <2>3, <2>4 DEF ExecuteWorkItem
<1> QED
  BY <1>1, <1>2, <1>3, <1>4 DEF Next, DrainStep

LEMMA PromotionAwaitedStep ==
  ASSUME IInv, Followed(work), PromotionAwaited, Next
  PROVE  PromotionAwaited'
<1>1. QueueChange
  BY QueueStep
<1>2. ExecuteWorkItem => pending = NoPending
  BY ExecutingItem DEF IInv, Draining
<1>3. CASE PromoteBenchSummon
  <2>1. /\ work' = Rest
        /\ \E i \in DOMAIN work' :
             work'[i] = For("ResolveMovementConsequences", Item.player)
    BY <1>3, PromotionQueued
  <2>2. pending' = pending \/ pending' = Promotion(Item.player)
    BY <1>3 DEF PromoteBenchSummon
  <2>3. pending = NoPending
    BY <1>2, <1>3 DEF ExecuteWorkItem
  <2> QED
    BY <2>1, <2>2, <2>3 DEF PromotionAwaited, Promotion, NoPending
<1>4. CASE pending'.kind # "Promotion"
  BY <1>4 DEF PromotionAwaited
<1>5. CASE pending' = pending /\ pending'.kind = "Promotion"
  <2>1. ~ExecuteWorkItem
    BY <1>2, <1>5 DEF NoPending
  <2>2. PICK more \in Seq(WorkItem) : work' = work \o more
    BY <1>1, <2>1 DEF QueueChange, QueueGrows
  <2>3. work \in Seq(WorkItem)
    BY DEF IInv, ControlType
  <2>4. PICK i \in DOMAIN work :
          work[i] = For("ResolveMovementConsequences", pending.player)
    BY <1>5 DEF PromotionAwaited
  <2>5. i \in DOMAIN (work \o more) /\ (work \o more)[i] = work[i]
    BY <2>2, <2>3
  <2> QED
    BY <1>5, <2>2, <2>4, <2>5 DEF PromotionAwaited
<1> QED
  BY <1>3, <1>4, <1>5, PendingElsewhere

LEMMA AnnouncedStep ==
  ASSUME IInv, Followed(work), PromotionAwaited, [Next]_vars
  PROVE  Announced
<1>1. CASE Next
  <2>1. CASE ResolveTopStackItem \/ FinishResolving
    BY <2>1, BoardUntouched DEF ResolveTopStackItem, FinishResolving
  <2> QED
    BY <1>1, <2>1, AnnouncedByPlayer, AnnouncedByLeaf, AnnouncedByWork
       DEF Next, DrainStep
<1>2. CASE UNCHANGED vars
  BY <1>2, BoardUntouched DEF vars
<1> QED
  BY <1>1, <1>2

\* A scenario with an empty Main begins on a promotion nothing was destroyed
\* for: no consequences are queued behind that one.
MainsHeldAtStart == \A s \in Setups, p \in Player : s.board[p][Main] # NoSummon

(***************************************************************************)
(* Every arrival in Main is announced (the EnteringMain step that          *)
(* triggers::movement_trigger drains): a retreat, both exchanges, a        *)
(* promotion the loop makes and one a player chooses all leave the step,   *)
(* or the one that queues it, in the queue, whatever was queued before.    *)
(***************************************************************************)
THEOREM MainArrivalIsAnnouncedAlways ==
  MainsHeldAtStart => (Spec => MainArrivalIsAnnounced)
<1> SUFFICES ASSUME MainsHeldAtStart PROVE Spec => MainArrivalIsAnnounced
  OBVIOUS
<1> DEFINE ArrivalInv == Followed(work) /\ PromotionAwaited
<1>1. Init => ArrivalInv
  <2> SUFFICES ASSUME Init PROVE ArrivalInv
    OBVIOUS
  <2>1. PICK s \in Setups : FromScenario(s)
    BY DEF Init
  <2>2. Followed(work)
    BY <2>1, EmptyOwesNothing, NothingIsFollowed DEF FromScenario
  <2>3. pending = NoPending
    BY <2>1 DEF FromScenario, DerivedPending, MainsHeldAtStart, Player
  <2> QED
    BY <2>2, <2>3 DEF PromotionAwaited, NoPending
<1>2. IInv /\ ArrivalInv /\ [Next]_vars => ArrivalInv'
  <2>1. ASSUME IInv, ArrivalInv, UNCHANGED vars PROVE ArrivalInv'
    BY <2>1 DEF vars, Followed, LossesFollowed, LossesSpaced, PromotionsFollowed,
                PromotionAwaited
  <2>2. ASSUME IInv, ArrivalInv, Next PROVE ArrivalInv'
    BY <2>2, QueueStep, FollowedStep, PromotionAwaitedStep
  <2> QED
    BY <2>1, <2>2
<1>3. IInv /\ ArrivalInv /\ [Next]_vars => [Announced]_vars
  BY AnnouncedStep
<1>4. MainArrivalIsAnnounced <=> [][Announced]_vars
  BY PTL DEF MainArrivalIsAnnounced, Announced
<1> HIDE DEF ArrivalInv
<1> QED
  BY <1>1, <1>2, <1>3, <1>4, ControlInvariant, PTL DEF Spec

-----------------------------------------------------------------------------
(* Sequences.                                                              *)

\* A stretch of a list is a list of the same things.
LEMMA StretchType ==
  ASSUME NEW S, NEW s \in Seq(S), NEW m \in Nat \ {0}, NEW n \in Nat, n <= Len(s)
  PROVE  SubSeq(s, m, n) \in Seq(S)
<1>1. \A i \in m .. n : i \in 1 .. Len(s)
  OBVIOUS
<1>. QED  BY <1>1, SubSeqProperties

LEMMA ListParts ==
  ASSUME NEW S, NEW s \in Seq(S)
  PROVE  /\ \A x \in S : Append(s, x) \in Seq(S) /\ <<x>> \o s \in Seq(S)
         /\ \A t \in Seq(S) : s \o t \in Seq(S)
         /\ \A i \in 1 .. Len(s) : RemoveAt(s, i) \in Seq(S) /\ s[i] \in S
         /\ s # <<>> => Front(s) \in Seq(S) /\ Last(s) \in S
<1>1. ASSUME NEW i \in 1 .. Len(s)
      PROVE  RemoveAt(s, i) \in Seq(S)
  <2>1. /\ 1 \in Nat \ {0} /\ i - 1 \in Nat /\ i - 1 <= Len(s)
        /\ i + 1 \in Nat \ {0} /\ Len(s) \in Nat /\ Len(s) <= Len(s)
    OBVIOUS
  <2>2. SubSeq(s, 1, i - 1) \in Seq(S) /\ SubSeq(s, i + 1, Len(s)) \in Seq(S)
    BY <2>1, StretchType
  <2>. QED  BY <2>2 DEF RemoveAt
<1>2. ASSUME s # <<>>
      PROVE  Front(s) \in Seq(S) /\ Last(s) \in S
  <2>1. Len(s) \in Nat \ {0} /\ Len(s) - 1 \in Nat /\ Len(s) - 1 <= Len(s)
    BY <1>2, EmptySeq, LenProperties
  <2>2. SubSeq(s, 1, Len(s) - 1) \in Seq(S)
    BY <2>1, StretchType
  <2>. QED  BY <2>1, <2>2 DEF Front, Last
<1>3. \A x \in S : Append(s, x) \in Seq(S) /\ <<x>> \o s \in Seq(S)
  OBVIOUS
<1>4. \A t \in Seq(S) : s \o t \in Seq(S)
  OBVIOUS
<1>5. \A i \in 1 .. Len(s) : s[i] \in S
  OBVIOUS
<1>. QED  BY <1>1, <1>2, <1>3, <1>4, <1>5

\* The least of a nonempty set of places.
LEMMA LeastPlace ==
  ASSUME NEW n \in Nat, NEW I \in SUBSET (1 .. n), I # {}
  PROVE  Min(I) \in I
<1>1. I \subseteq Nat
  OBVIOUS
<1>2. \E k \in I : \A m \in I : k <= m
  BY <1>1, LeastNatural
<1>. QED  BY <1>2 DEF Min

\* A card taken out of a hand leaves a hand.
LEMMA RemovedFirstType ==
  ASSUME NEW S, NEW s \in Seq(S), NEW x
  PROVE  RemoveFirst(s, x) \in Seq(S)
<1>. DEFINE I == {i \in 1 .. Len(s) : s[i] = x}
<1>1. CASE I = {}
  BY <1>1 DEF RemoveFirst
<1>2. CASE I # {}
  <2>1. Min(I) \in I
    <3>1. Len(s) \in Nat
      OBVIOUS
    <3>. QED  BY <1>2, <3>1, LeastPlace
  <2>2. SelectInSeq(s, LAMBDA v : v = x) = Min(I)
    BY <1>2 DEF SelectInSeq
  <2>3. RemoveFirst(s, x) = RemoveAt(s, Min(I))
    BY <1>2, <2>2 DEF RemoveFirst
  <2>4. Min(I) \in 1 .. Len(s)
    BY <2>1
  <2>. HIDE DEF I
  <2>. QED  BY <2>3, <2>4, ListParts
<1>. QED  BY <1>1, <1>2

\* The first Spell of a pile is a place of it.
LEMMA FirstSpellType ==
  ASSUME NEW pile \in Seq(CardInstance)
  PROVE  FirstSpell(pile) = 0 \/ FirstSpell(pile) \in 1 .. Len(pile)
<1>. DEFINE I == {i \in 1 .. Len(pile) : IsSpell(pile[i])}
<1>1. FirstSpell(pile) = IF I # {} THEN Min(I) ELSE 0
  BY DEF FirstSpell, SelectInSeq
<1>2. Len(pile) \in Nat
  OBVIOUS
<1>3. I # {} => Min(I) \in I
  BY <1>2, LeastPlace
<1>. QED  BY <1>1, <1>3

-----------------------------------------------------------------------------
(* Payment.                                                                *)

\* The pools a payment is simulated on: no longer a Bank, as one may be
\* overdrawn.
Overdrawn == [ManaType -> Int]

LEMMA PickedPoolType ==
  ASSUME NEW pools \in Overdrawn, NEW named
  PROVE  PickLargestPool(pools, named) \in ManaType
<1>1. \A t \in ManaType : pools[t] \in Int
  BY DEF Overdrawn
<1>2. \E t \in ManaType : \A u \in ManaType \ {t} : Outranks(t, u, pools, named)
  BY <1>1 DEF ManaType, Outranks, PoolOrder
<1>. QED  BY <1>2 DEF PickLargestPool

\* However many units are taken, the pools stay numbers.
LEMMA AfterGenericType ==
  ASSUME NEW pools \in Overdrawn, NEW named, NEW n \in Nat
  PROVE  AfterGeneric(pools, named, n) \in Overdrawn
<1>. DEFINE Unit(q) == [q EXCEPT ![PickLargestPool(q, named)] = @ - 1]
            step == [i \in 1 .. n |-> [q \in Overdrawn |-> Unit(q)]]
            IsLeft(f) == f = [i \in 0 .. n |-> IF i = 0 THEN pools ELSE Unit(f[i - 1])]
            left == CHOOSE f : IsLeft(f)
            T == {i \in 0 .. n : left[i] \in Overdrawn}
<1>1. ASSUME NEW q \in Overdrawn
      PROVE  Unit(q) \in Overdrawn
  <2>1. PickLargestPool(q, named) \in ManaType
    BY PickedPoolType
  <2>. QED  BY <2>1 DEF Overdrawn
<1>2. step \in [1 .. n -> [Overdrawn -> Overdrawn]]
  BY <1>1
<1>3. PICK f : IsIteration(f, Overdrawn, pools, n, step)
  <2>. HIDE DEF step
  <2>. QED  BY <1>2, SomeIteration
<1>4. ASSUME NEW i \in 0 .. n
      PROVE  f[i] = IF i = 0 THEN pools ELSE Unit(f[i - 1])
  <2>. HIDE DEF Unit
  <2>1. CASE i = 0
    BY <1>3, <2>1 DEF IsIteration
  <2>2. CASE i # 0
    <3>1. i \in 1 .. n /\ i - 1 \in 0 .. n
      BY <2>2
    <3>2. f[i - 1] \in Overdrawn /\ f[i] = step[i][f[i - 1]]
      BY <1>3, <3>1 DEF IsIteration
    <3>. QED  BY <2>2, <3>1, <3>2
  <2>. QED  BY <2>1, <2>2
<1>5. IsLeft(f)
  <2>. HIDE DEF Unit, step
  <2>. QED  BY <1>3, <1>4 DEF IsIteration
<1>6. IsLeft(left)
  <2>. HIDE DEF IsLeft
  <2>. QED  BY <1>5
<1>7. AfterGeneric(pools, named, n) = left[n]
  BY DEF AfterGeneric
<1>8. left[0] = pools /\ \A i \in 1 .. n : left[i] = Unit(left[i - 1])
  <2>. HIDE DEF left, Unit
  <2>1. 0 \in 0 .. n /\ \A i \in 1 .. n : i \in 0 .. n /\ i # 0
    OBVIOUS
  <2>. QED  BY <1>6, <2>1
<1>9. 0 \in T
  BY <1>8
<1>10. ASSUME NEW i \in 1 .. n, i - 1 \in T
       PROVE  i \in T
  <2>. HIDE DEF left
  <2>1. left[i - 1] \in Overdrawn /\ i \in 0 .. n
    BY <1>10
  <2>. HIDE DEF Unit
  <2>. QED  BY <1>1, <1>8, <2>1
<1>11. 0 .. n \subseteq T
  <2>. HIDE DEF T
  <2>. QED  BY <1>9, <1>10, BoundedInduction
<1>12. n \in 0 .. n
  OBVIOUS
<1>. HIDE DEF left
<1>. QED  BY <1>7, <1>11, <1>12

\* An accepted payment leaves no pool overdrawn.
LEMMA PaidIsABank ==
  ASSUME NEW bank \in Bank, NEW cost \in Cost, NEW hint \in Hint, Affords(bank, cost, hint)
  PROVE  Paid(bank, cost, hint) \in Bank
<1>1. /\ cost.typed \in [ManaType -> Nat] /\ cost.generic \in Nat
      /\ bank \in [ManaType -> Nat]
  BY DEF Cost, Bank
<1>2. AfterTyped(bank, cost) \in Overdrawn
  BY <1>1 DEF AfterTyped, Overdrawn
<1>3. Simulated(bank, cost, hint) \in Overdrawn
  <2>1. CASE hint = NoHint
    BY <1>1, <1>2, <2>1, AfterGenericType DEF Simulated
  <2>2. CASE hint # NoHint
    <3>1. hint \in ManaType
      BY <2>2 DEF Hint
    <3>. QED  BY <1>1, <1>2, <2>2, <3>1 DEF Simulated, AfterHinted, Overdrawn
  <2>. QED  BY <2>1, <2>2
<1>4. ~AnyNegative(Simulated(bank, cost, hint))
  BY DEF Affords, PaymentError
<1>. QED  BY <1>3, <1>4 DEF Paid, AnyNegative, Overdrawn, Bank

-----------------------------------------------------------------------------
(* What the values of a match may be, beyond the control state of IInv.    *)

Place == SummonInstance \cup {NoSummon}
Boards == [Player -> [Position -> Place]]

PilesType ==
  /\ deck \in Piles /\ hand \in Piles /\ prizes \in Piles
  /\ discard \in Piles /\ enchantments \in Piles

PoolsType == mana \in [Player -> Bank] /\ coin \in BOOLEAN /\ losses \in [Player -> Nat]

OnceType ==
  attackUsed \in BOOLEAN /\ retreatUsed \in BOOLEAN /\ spellPlayed \in [Player -> BOOLEAN]

\* Only an ended match has an outcome.
StatusType ==
  \/ status \in {"Playing", "Broken"} /\ outcome = NoOutcome
  \/ status = "Ended" /\ outcome \in [winner : Player, reason : LossReason]

\* The three decisions a match pauses on.
PendingType ==
  \/ pending = NoPending
  \/ \E p \in Player : \/ pending = Promotion(p) \/ pending = PrizePick(p)
                       \/ \E source \in Position \cup {Natural} :
                            pending = ManaProduction(p, source)

\* An item says only what its kind has: an attack its attacker, a Spell its
\* card and targets, a trigger its source, targets and effects.
Pushable(item) ==
  \/ \E p \in Player : item = AttackItem(p)
  \/ \E p \in Player, c \in CardInstance, targets \in Seq(Position) :
       item = SpellItem(p, c, targets)
  \/ \E p \in Player, q \in Position, targets \in Seq(Position), leaves \in Seq(EffectLeaf) :
       item = StackItem("Trigger", p, q, <<>>, targets, leaves)
StackType == \A i \in DOMAIN stack : Pushable(stack[i])

DataInv ==
  /\ board \in Boards
  /\ PilesType /\ PoolsType /\ OnceType /\ StatusType /\ PendingType /\ StackType

-----------------------------------------------------------------------------
(* The board.                                                              *)

LEMMA SummonFields ==
  ASSUME NEW s \in SummonInstance
  PROVE  /\ \A x \in Nat : [s EXCEPT !.damage = x] \in SummonInstance
         /\ [s EXCEPT !.ready = TRUE] \in SummonInstance
         /\ [s EXCEPT !.ready = FALSE] \in SummonInstance
         /\ [s EXCEPT !.marked = TRUE] \in SummonInstance
         /\ [s EXCEPT !.enteredMain = TRUE] \in SummonInstance
         /\ \A c \in CardInstance : Upgraded(s, c) \in SummonInstance
<1>1. s.chain \in Seq(CardInstance)
  BY DEF SummonInstance
<1>2. ASSUME NEW c \in CardInstance
      PROVE  Upgraded(s, c) \in SummonInstance
  <2>1. Append(s.chain, c) \in Seq(CardInstance) \ {<<>>}
    BY <1>1, AppendProperties
  <2>2. \A chain \in Seq(CardInstance) \ {<<>>} :
          [s EXCEPT !.chain = chain, !.ready = FALSE, !.upgrade = "UpgradedThisTurn"]
            \in SummonInstance
    BY DEF SummonInstance, UpgradeActivity
  <2>. QED  BY <2>1, <2>2 DEF Upgraded
<1>. QED  BY <1>2 DEF SummonInstance

LEMMA FreshPlace ==
  ASSUME NEW s \in Place, NEW expires \in BOOLEAN
  PROVE  FreshTurn(s, expires) \in Place /\ Readied(s) \in Place
<1>1. CASE s = NoSummon
  BY <1>1 DEF Place, FreshTurn, Readied
<1>2. CASE s # NoSummon
  <2>1. s \in SummonInstance
    BY <1>2 DEF Place
  <2>2. \A x \in BOOLEAN :
          [s EXCEPT !.upgrade = "Available", !.enteredMain = FALSE, !.marked = x]
            \in SummonInstance
    BY <2>1 DEF SummonInstance, UpgradeActivity
  <2>3. (s.marked /\ ~expires) \in BOOLEAN
    OBVIOUS
  <2>4. FreshTurn(s, expires) \in SummonInstance
    BY <1>2, <2>2, <2>3 DEF FreshTurn
  <2>5. Readied(s) \in SummonInstance
    BY <1>2, <2>1, SummonFields DEF Readied
  <2>. QED  BY <2>4, <2>5 DEF Place
<1>. QED  BY <1>1, <1>2

LEMMA PlacePut ==
  ASSUME NEW b \in Boards, NEW p \in Player, NEW q \in Position, NEW s \in Place
  PROVE  [b EXCEPT ![p][q] = s] \in Boards
BY DEF Boards

LEMMA PlaceAt ==
  ASSUME board \in Boards, NEW p \in Player, NEW q
  PROVE  /\ q \in Position => board[p][q] \in Place
         /\ Occupied(p, q) => q \in Position /\ board[p][q] \in SummonInstance
         /\ NoSummon \in Place
BY DEF Boards, Occupied, Place

LEMMA PlaceTouched ==
  ASSUME board \in Boards, NEW p \in Player, NEW q, Occupied(p, q)
  PROVE  /\ \A x \in Nat : [board EXCEPT ![p][q].damage = x] \in Boards
         /\ [board EXCEPT ![p][q].ready = TRUE] \in Boards
         /\ [board EXCEPT ![p][q].ready = FALSE] \in Boards
         /\ [board EXCEPT ![p][q].marked = TRUE] \in Boards
         /\ [board EXCEPT ![p][q].enteredMain = TRUE] \in Boards
<1>. DEFINE s == board[p][q]
<1>1. q \in Position /\ s \in SummonInstance
  BY PlaceAt
<1>2. /\ \A x \in Nat : [board EXCEPT ![p][q].damage = x]
            = [board EXCEPT ![p][q] = [s EXCEPT !.damage = x]]
      /\ [board EXCEPT ![p][q].ready = TRUE]
            = [board EXCEPT ![p][q] = [s EXCEPT !.ready = TRUE]]
      /\ [board EXCEPT ![p][q].ready = FALSE]
            = [board EXCEPT ![p][q] = [s EXCEPT !.ready = FALSE]]
      /\ [board EXCEPT ![p][q].marked = TRUE]
            = [board EXCEPT ![p][q] = [s EXCEPT !.marked = TRUE]]
      /\ [board EXCEPT ![p][q].enteredMain = TRUE]
            = [board EXCEPT ![p][q] = [s EXCEPT !.enteredMain = TRUE]]
  BY <1>1 DEF Boards
<1>3. SummonInstance \subseteq Place
  BY DEF Place
<1>. HIDE DEF s
<1>4. ASSUME NEW r \in SummonInstance
      PROVE  [board EXCEPT ![p][q] = r] \in Boards
  BY <1>1, <1>3, PlacePut
<1>5. \A x \in Nat : [s EXCEPT !.damage = x] \in SummonInstance
  BY <1>1, SummonFields
<1>. QED  BY <1>1, <1>2, <1>4, <1>5, SummonFields

LEMMA PlaceExchanged ==
  ASSUME board \in Boards, NEW p \in Player, NEW slot \in Position
  PROVE  Exchanged(p, slot) \in Boards /\ Promoted(p, slot) \in Boards
<1>1. /\ Main \in Position /\ board[p][Main] \in Place /\ board[p][slot] \in Place
      /\ NoSummon \in Place
  BY PlaceAt DEF Main, Position
<1>2. [board EXCEPT ![p][Main] = board[p][slot]] \in Boards
  BY <1>1, PlacePut
<1>. QED  BY <1>1, <1>2, PlacePut DEF Exchanged, Promoted

-----------------------------------------------------------------------------
(* Numbers and aims.                                                       *)

LEMMA FaceFields ==
  ASSUME NEW face \in CardFace
  PROVE  /\ face.retreat \in Nat \cup {NoRetreat} /\ face.retreatDelta \in Int
         /\ face.attackReduction \in Nat /\ face.life \in Nat \cup {NoLife}
         /\ face.attackCost \in Cost /\ face.cost \in Cost
         /\ face.attackLeaves \in Seq(EffectLeaf) /\ face.leaves \in Seq(EffectLeaf)
         /\ face.skills \in Seq(Skill) /\ face.triggers \in [TriggerEvent -> Seq(Ability)]
         /\ face.produces \in SUBSET ManaType
BY DEF CardFace

LEMMA LeafType ==
  ASSUME IInv, NEW kind, Applying(kind)
  PROVE  /\ resolving \in ItemOf(OnStack \cup OffStack)
         /\ Controller \in Player /\ Opponent(Controller) \in Player
         /\ Targets \in Seq(Position) /\ Leaf \in EffectLeaf /\ Leaf.kind = kind
         /\ Selected \in Position \cup {NoPosition}
         /\ Aim \in Position \cup {NoPosition}
<1>1. resolving \in ItemOf(OnStack \cup OffStack)
  BY DEF Applying, IInv, ControlType
<1>2. /\ resolving.leaves \in Seq(EffectLeaf) /\ Controller \in Player
      /\ Targets \in Seq(Position) /\ resolving.position \in Position \cup {NoPosition}
  BY <1>1 DEF ItemOf, Controller, Targets
<1>3. Leaf \in EffectLeaf /\ Leaf.kind = kind
  BY <1>2 DEF Applying, Leaf
<1>4. Selected \in Position \cup {NoPosition}
  <2>1. Targets # <<>> => Targets[1] \in Position
    BY <1>2
  <2>. QED  BY <2>1 DEF Selected
<1>. QED  BY <1>1, <1>2, <1>3, <1>4, OpponentType DEF Aim

\* Additions, reductions and the floor leave a number.
LEMMA DamageAmountType ==
  ASSUME IInv, DataInv, Applying("DealDamage")
  PROVE  DamageAmount \in Nat
<1>. DEFINE o == Opponent(Controller)
            adds == Leaf.additions
            added == [i \in DOMAIN adds |->
                        IF ConditionHolds(adds[i].condition, Controller, <<Selected>>)
                        THEN adds[i].amount ELSE 0]
            reduced == [i \in DOMAIN enchantments[o] |->
                          Face[enchantments[o][i]].attackReduction]
<1>1. o \in Player /\ Leaf \in EffectLeaf /\ Leaf.kind = "DealDamage"
  BY LeafType
<1>2. Leaf.base \in Nat /\ adds \in Seq([condition : Condition, amount : Nat])
  BY <1>1 DEF EffectLeaf
<1>3. SumOf(added) \in Nat
  <2>1. /\ Len(adds) \in Nat /\ DOMAIN adds = 1 .. Len(adds)
        /\ \A i \in DOMAIN adds : adds[i].amount \in Nat
    <3>. HIDE DEF adds
    <3>1. /\ Len(adds) \in Nat /\ DOMAIN adds = 1 .. Len(adds)
          /\ \A i \in DOMAIN adds : adds[i] \in [condition : Condition, amount : Nat]
      <4>. DEFINE Addition == [condition : Condition, amount : Nat]
      <4>1. adds \in Seq(Addition)
        BY <1>2
      <4>. HIDE DEF Addition
      <4>2. /\ Len(adds) \in Nat /\ DOMAIN adds = 1 .. Len(adds)
            /\ \A i \in DOMAIN adds : adds[i] \in Addition
        BY <4>1
      <4>. QED  BY <4>2 DEF Addition
    <3>. QED  BY <3>1
  <2>. HIDE DEF adds
  <2>2. added \in Seq(Nat)
    BY <2>1
  <2>. HIDE DEF added
  <2>. QED  BY <2>2, SumIsANumber
<1>4. SumOf(reduced) \in Nat
  <2>. DEFINE pile == enchantments[o]
  <2>1. pile \in Seq(CardInstance)
    BY <1>1 DEF DataInv, PilesType, Piles
  <2>2. /\ Len(pile) \in Nat /\ DOMAIN pile = 1 .. Len(pile)
        /\ \A i \in DOMAIN pile : pile[i] \in CardInstance
    BY <2>1
  <2>3. \A c \in CardInstance : Face[c].attackReduction \in Nat
    BY FaceAssumption, FaceFields
  <2>. HIDE DEF pile
  <2>4. [i \in DOMAIN pile |-> Face[pile[i]].attackReduction] \in Seq(Nat)
    BY <2>2, <2>3
  <2>5. SumOf([i \in DOMAIN pile |-> Face[pile[i]].attackReduction]) \in Nat
    BY <2>4, SumIsANumber
  <2>. QED  BY <2>5 DEF pile
<1>. DEFINE sum == SumOf(added)
            cut == SumOf(reduced)
            net == (Leaf.base + IF Leaf.unincreasable THEN 0 ELSE sum)
                     - IF resolving.kind = "Attack" /\ ~Leaf.unpreventable THEN cut ELSE 0
<1>5. DamageAmount = IF net > 0 THEN net ELSE 0
  BY DEF DamageAmount
<1>6. sum \in Nat /\ cut \in Nat
  BY <1>3, <1>4
<1>. HIDE DEF sum, cut
<1>7. net \in Int
  BY <1>2, <1>6
<1>. HIDE DEF net
<1>. QED  BY <1>5, <1>7

\* The passives of the four opposing positions may lower a cost, never below
\* zero.
LEMMA RetreatCostType ==
  ASSUME IInv, DataInv, NEW p \in Player, Occupied(p, Main)
  PROVE  RetreatCost(p) \in Cost
<1>. DEFINE o == Opponent(p)
            passives == [i \in 1 .. 4 |->
                           IF Occupied(o, i - 1) THEN FaceAt(o, i - 1).retreatDelta ELSE 0]
            printed == FaceAt(p, Main).retreat + SumOf(passives)
<1>1. o \in Player
  BY OpponentType
<1>2. \A q : Occupied(o, q) => FaceAt(o, q).retreatDelta \in Int
  BY <1>1, CardAtType, FaceFields DEF IInv
<1>3. passives \in Seq(Int)
  <2>1. \A i \in 1 .. 4 : passives[i] \in Int
    BY <1>2
  <2>2. DOMAIN passives = 1 .. 4 /\ passives = [i \in 1 .. 4 |-> passives[i]]
    OBVIOUS
  <2>. HIDE DEF passives
  <2>3. passives \in [1 .. 4 -> Int]
    BY <2>1, <2>2
  <2>4. 4 \in Nat
    OBVIOUS
  <2>. QED  BY <2>3, <2>4, SeqDef
<1>4. SumOf(passives) \in Int
  <2>. HIDE DEF passives
  <2>. QED  BY <1>3, SumIsAnInteger
<1>5. FaceAt(p, Main).retreat \in Int
  BY CardAtType, FaceFields DEF IInv, NoRetreat
<1>6. printed \in Int
  BY <1>4, <1>5
<1>7. RetreatCost(p) = [Free EXCEPT !.generic = IF printed > 0 THEN printed ELSE 0]
  BY DEF RetreatCost
<1>8. Free \in Cost
  BY DEF Free, Cost, Bank, EmptyBank
<1>. HIDE DEF printed
<1>9. \A n \in Nat : [Free EXCEPT !.generic = n] \in Cost
  BY <1>8 DEF Cost
<1>10. (IF printed > 0 THEN printed ELSE 0) \in Nat
  BY <1>6
<1>. QED  BY <1>7, <1>9, <1>10

-----------------------------------------------------------------------------
(* Every step keeps the board a board.                                     *)

LEMMA BoardsAfterPlayer ==
  ASSUME IInv, DataInv, NEW p \in Player, PlayerAction(p)
  PROVE  board' \in Boards
<1>1. board \in Boards
  BY DEF DataInv
<1>2. ASSUME NEW c \in CardInstance, NEW slot \in Bench, PlaySummon(p, c, slot)
      PROVE  board' \in Boards
  <2>1. NewSummon(p, <<c>>, 0, FALSE, "PlayedThisTurn") \in Place
    BY DEF Place, SummonInstance, NewSummon, UpgradeActivity
  <2>2. slot \in Position
    BY DEF Position
  <2>. QED  BY <1>1, <1>2, <2>1, <2>2, PlacePut DEF PlaySummon
<1>3. ASSUME NEW c \in CardInstance, NEW q \in Position, UpgradeSummon(p, c, q)
      PROVE  board' \in Boards
  <2>1. Upgraded(board[p][q], c) \in SummonInstance
    BY <1>1, <1>3, PlaceAt, SummonFields DEF UpgradeSummon
  <2>2. Upgraded(board[p][q], c) \in Place
    BY <2>1 DEF Place
  <2>. QED  BY <1>1, <1>3, <2>2, PlacePut DEF UpgradeSummon
<1>4. ASSUME NEW slot \in Bench, NEW hint \in Hint, Retreat(p, slot, hint)
      PROVE  board' \in Boards
  BY <1>1, <1>4, PlaceExchanged DEF Retreat, Position
<1>5. ASSUME NEW q \in Position, NEW i, NEW targets, NEW hint \in Hint,
             ActivateSkill(p, q, i, targets, hint)
      PROVE  board' \in Boards
  BY <1>1, <1>5, PlaceTouched DEF ActivateSkill
<1>6. ASSUME PassPriority(p) PROVE board' \in Boards
  <2>1. CASE Handover
    <3>1. \A r \in Player, q \in Position, expires \in BOOLEAN :
            FreshTurn(board[r][q], expires) \in Place
      BY <1>1, PlaceAt, FreshPlace
    <3>2. BoardAtHandover(Opponent(active)) \in Boards
      BY <3>1 DEF Boards, BoardAtHandover
    <3>. QED  BY <2>1, <3>2 DEF Handover, NextPlayer
  <2>2. CASE MovePriority(p) \/ CloseWindow
    BY <1>1, <2>2 DEF MovePriority, CloseWindow
  <2>. QED  BY <1>6, <2>1, <2>2 DEF PassPriority
<1>7. ASSUME NEW slot \in Bench, ChoosePromotion(p, slot) PROVE board' \in Boards
  BY <1>1, <1>7, PlaceExchanged DEF ChoosePromotion, Position
<1>8. ASSUME \/ \E c \in CardInstance, targets \in TargetChoices, hint \in Hint :
                  CastSpell(p, c, targets, hint)
             \/ \E hint \in Hint : DeclareAttack(p, hint)
             \/ EndTurn(p)
             \/ \E t \in ManaType : ConvertCoin(p, t) \/ ChooseManaType(p, t)
             \/ \E i \in DOMAIN prizes[Opponent(p)] : ChoosePrize(p, i)
             \/ Resign(p)
      PROVE  board' \in Boards
  BY <1>1, <1>8 DEF CastSpell, DeclareAttack, EndTurn, ConvertCoin, ChooseManaType,
                    ChoosePrize, Resign
<1>. QED  BY <1>2, <1>3, <1>4, <1>5, <1>6, <1>7, <1>8 DEF PlayerAction

LEMMA BoardsAfterLeaf ==
  ASSUME IInv, DataInv, ApplyLeaf
  PROVE  board' \in Boards
<1>1. board \in Boards
  BY DEF DataInv
<1>2. CASE DealDamage
  <2>. DEFINE o == Opponent(Controller)
  <2>1. Applying("DealDamage") /\ o \in Player /\ DamageAmount \in Nat
    BY <1>2, LeafType, DamageAmountType DEF DealDamage
  <2>2. CASE Occupied(o, Selected)
    <3>1. Selected \in Position /\ board[o][Selected] \in SummonInstance
      BY <1>1, <2>1, <2>2, PlaceAt
    <3>2. board[o][Selected].damage \in Nat
      BY <3>1 DEF SummonInstance
    <3>. DEFINE x == board[o][Selected].damage + DamageAmount
    <3>3. x \in Nat
      BY <2>1, <3>2
    <3>4. board' = [board EXCEPT ![o][Selected].damage = x]
      BY <1>1, <1>2, <2>1, <2>2, <3>1 DEF DealDamage, Boards
    <3>. HIDE DEF x
    <3>. QED  BY <1>1, <2>1, <2>2, <3>3, <3>4, PlaceTouched
  <2>3. CASE ~Occupied(o, Selected)
    BY <1>1, <1>2, <2>3 DEF DealDamage
  <2>. QED  BY <2>2, <2>3
<1>3. CASE Heal
  <2>1. Applying("Heal") /\ Controller \in Player /\ Leaf.amount \in Nat
    <3>1. Applying("Heal")
      BY <1>3 DEF Heal
    <3>2. Controller \in Player /\ Leaf \in EffectLeaf /\ Leaf.kind = "Heal"
      BY <3>1, LeafType
    <3>. QED  BY <3>1, <3>2 DEF EffectLeaf
  <2>2. CASE Occupied(Controller, Aim)
    <3>1. Aim \in Position /\ board[Controller][Aim] \in SummonInstance
      BY <1>1, <2>1, <2>2, PlaceAt
    <3>2. board[Controller][Aim].damage \in Nat
      BY <3>1 DEF SummonInstance
    <3>. DEFINE x == Healed(board[Controller][Aim].damage, Leaf.amount)
    <3>3. x \in Nat
      BY <2>1, <3>2 DEF Healed
    <3>4. board' = [board EXCEPT ![Controller][Aim].damage = x]
      BY <1>1, <1>3, <2>1, <2>2, <3>1 DEF Heal, Boards
    <3>. HIDE DEF x
    <3>. QED  BY <1>1, <2>1, <2>2, <3>3, <3>4, PlaceTouched
  <2>3. CASE ~Occupied(Controller, Aim)
    BY <1>1, <1>3, <2>3 DEF Heal
  <2>. QED  BY <2>2, <2>3
<1>4. CASE ReadySummon
  <2>1. Controller \in Player
    BY <1>4, LeafType DEF ReadySummon
  <2>. QED  BY <1>1, <1>4, <2>1, PlaceTouched DEF ReadySummon
<1>5. CASE CannotBeMovedByOpponent
  <2>1. Controller \in Player
    BY <1>5, LeafType DEF CannotBeMovedByOpponent
  <2>. QED  BY <1>1, <1>5, <2>1, PlaceTouched DEF CannotBeMovedByOpponent
<1>6. CASE MoveSummon
  <2>. DEFINE p == Controller
              from == Targets[1]
              to == Targets[2]
  <2>1. p \in Player
    BY <1>6, LeafType DEF MoveSummon
  <2>2. CASE board' = board
    BY <1>1, <2>2
  <2>3. CASE board' # board
    <3>1. /\ from \in Position /\ to \in Position
          /\ board' = [board EXCEPT ![p][to] = board[p][from], ![p][from] = NoSummon]
      BY <1>6, <2>3 DEF MoveSummon, Position
    <3>2. board[p][from] \in Place /\ NoSummon \in Place
      BY <1>1, <2>1, <3>1, PlaceAt
    <3>3. [board EXCEPT ![p][to] = board[p][from]] \in Boards
      BY <1>1, <2>1, <3>1, <3>2, PlacePut
    <3>. QED  BY <2>1, <3>1, <3>2, <3>3, PlacePut
  <2>. QED  BY <2>2, <2>3
<1>7. CASE SwapPositions \/ SwapOpposingPositions
  <2>1. Controller \in Player /\ Opponent(Controller) \in Player
    BY <1>7, LeafType DEF SwapPositions, SwapOpposingPositions
  <2>2. \/ board' = board
        \/ \E p \in Player, slot \in Bench : board' = Exchanged(p, slot)
    BY <1>7, <2>1 DEF SwapPositions, SwapOpposingPositions, Exchange
  <2>. QED  BY <1>1, <2>2, PlaceExchanged DEF Position
<1>8. CASE \/ ProduceManaLeaf \/ DrawCards \/ ReturnSpellFromDiscard
           \/ ReturnSpellToDeckTop \/ LeafWithoutEffect
  BY <1>1, <1>8 DEF ProduceManaLeaf, DrawCards, ReturnSpellFromDiscard,
                    ReturnSpellToDeckTop, LeafWithoutEffect
<1>. QED  BY <1>2, <1>3, <1>4, <1>5, <1>6, <1>7, <1>8 DEF ApplyLeaf

LEMMA BoardsAfterWork ==
  ASSUME IInv, DataInv, ExecuteWorkItem
  PROVE  board' \in Boards
<1>1. board \in Boards /\ Item \in WorkItem /\ active \in Player
  BY ExecutingItem DEF DataInv, IInv, ControlType
<1>2. CASE ReadyAll
  <2>1. \A q \in Position : Readied(board[active][q]) \in Place
    BY <1>1, PlaceAt, FreshPlace
  <2>2. [board EXCEPT ![active] = [q \in Position |-> Readied(board[active][q])]] \in Boards
    BY <1>1, <2>1 DEF Boards
  <2>. QED  BY <1>2, <2>2 DEF ReadyAll
<1>3. CASE DiscardDestroyedChain
  <2>1. Item.position \in Position
    BY <1>1, <1>3 DEF DiscardDestroyedChain, Executing, WorkItem, PlayerWork
  <2>2. Victims(Item.position) \subseteq Player
    BY <1>1, OpponentType DEF Victims, First, Second
  <2>3. \/ board' = board
        \/ \E p \in Player, q \in Position : board' = [board EXCEPT ![p][q] = NoSummon]
    BY <1>3, <2>1, <2>2 DEF DiscardDestroyedChain, DiscardNothing, DiscardVictim
  <2>4. NoSummon \in Place
    BY DEF Place
  <2>. QED  BY <1>1, <2>3, <2>4, PlacePut
<1>4. CASE PromoteBenchSummon
  <2>1. Item.player \in Player
    BY <1>1, <1>4 DEF PromoteBenchSummon, Executing, WorkItem, PlayerWork
  <2>2. CASE Cardinality(OccupiedBench(Item.player)) = 1
    <3>1. PICK slot : board' = Promoted(Item.player, slot)
                      /\ slot = CHOOSE q \in OccupiedBench(Item.player) : TRUE
      BY <1>4, <2>2 DEF PromoteBenchSummon
    <3>2. OccupiedBench(Item.player) # {}
      BY <2>2, FS_EmptySet
    <3>3. slot \in Position
      BY <3>1, <3>2 DEF OccupiedBench, OccupiedPositions
    <3>. QED  BY <1>1, <2>1, <3>1, <3>3, PlaceExchanged
  <2>3. CASE Cardinality(OccupiedBench(Item.player)) # 1
    BY <1>1, <1>4, <2>3 DEF PromoteBenchSummon
  <2>. QED  BY <2>2, <2>3
<1>5. CASE RunMovementTrigger
  <2>1. Item.player \in Player
    BY <1>1, <1>5 DEF RunMovementTrigger, Executing, WorkItem, PlayerWork
  <2>2. \/ board' = board
        \/ /\ Occupied(Item.player, Main)
           /\ board' = [board EXCEPT ![Item.player][Main].enteredMain = TRUE]
    BY <1>5 DEF RunMovementTrigger, MarkedArrival
  <2>3. Occupied(Item.player, Main) =>
          [board EXCEPT ![Item.player][Main].enteredMain = TRUE] \in Boards
    BY <1>1, <2>1, PlaceTouched
  <2>. QED  BY <1>1, <2>2, <2>3
<1>6. CASE \/ DrawCard \/ ProduceMana \/ BeginMainPhase \/ DestructionCheck
           \/ RecordMainLoss \/ RecoverPrize \/ ResolveMovementConsequences
           \/ LossCheck \/ FireRespondable \/ FireImmediate \/ FireVanished
  BY <1>1, <1>6 DEF DrawCard, ProduceMana, BeginMainPhase, DestructionCheck,
                    RecordMainLoss, RecoverPrize, ResolveMovementConsequences,
                    LossCheck, FireRespondable, FireImmediate, FireVanished
<1>. QED  BY <1>2, <1>3, <1>4, <1>5, <1>6 DEF ExecuteWorkItem

LEMMA BoardsStep ==
  ASSUME IInv, DataInv, Next
  PROVE  board' \in Boards
<1>1. CASE ResolveTopStackItem \/ FinishResolving
  BY <1>1 DEF ResolveTopStackItem, FinishResolving, DataInv
<1>. QED  BY <1>1, BoardsAfterLeaf, BoardsAfterWork, BoardsAfterPlayer DEF Next, DrainStep

-----------------------------------------------------------------------------
(* The other values: piles, pools, per-turn facts, status, decision and    *)
(* Stack.                                                                  *)

ValuesInv ==
  PilesType /\ PoolsType /\ OnceType /\ StatusType /\ PendingType /\ StackType

LEMMA ValuesKept ==
  ASSUME DataInv
  PROVE  /\ UNCHANGED pileVars => PilesType'
         /\ UNCHANGED <<mana, coin, losses>> => PoolsType'
         /\ UNCHANGED <<attackUsed, retreatUsed, spellPlayed>> => OnceType'
         /\ UNCHANGED <<status, outcome>> => StatusType'
         /\ pending' = pending => PendingType'
         /\ stack' = stack => StackType'
<1>1. UNCHANGED pileVars => PilesType'
  BY DEF DataInv, PilesType, pileVars
<1>2. UNCHANGED <<mana, coin, losses>> => PoolsType'
  BY DEF DataInv, PoolsType
<1>3. UNCHANGED <<attackUsed, retreatUsed, spellPlayed>> => OnceType'
  BY DEF DataInv, OnceType
<1>4. UNCHANGED <<status, outcome>> => StatusType'
  BY DEF DataInv, StatusType
<1>5. pending' = pending => PendingType'
  BY DEF DataInv, PendingType
<1>6. stack' = stack => StackType'
  BY DEF DataInv, StackType
<1>. QED  BY <1>1, <1>2, <1>3, <1>4, <1>5, <1>6

LEMMA PilePut ==
  ASSUME NEW piles \in Piles, NEW p \in Player
  PROVE  /\ piles[p] \in Seq(CardInstance)
         /\ \A s \in Seq(CardInstance) : [piles EXCEPT ![p] = s] \in Piles
BY DEF Piles

LEMMA WithoutCardType ==
  ASSUME DataInv, NEW p \in Player, NEW c
  PROVE  WithoutCard(p, c) \in Piles
<1>1. hand \in Piles /\ hand[p] \in Seq(CardInstance)
  BY PilePut DEF DataInv, PilesType
<1>2. RemoveFirst(hand[p], c) \in Seq(CardInstance)
  BY <1>1, RemovedFirstType
<1>. QED  BY <1>1, <1>2, PilePut DEF WithoutCard

LEMMA PaidType ==
  ASSUME DataInv, NEW p \in Player, NEW cost \in Cost, NEW hint \in Hint,
         Affords(mana[p], cost, hint)
  PROVE  [mana EXCEPT ![p] = Paid(@, cost, hint)] \in [Player -> Bank]
<1>1. mana \in [Player -> Bank] /\ mana[p] \in Bank
  BY DEF DataInv, PoolsType
<1>2. Paid(mana[p], cost, hint) \in Bank
  BY <1>1, PaidIsABank
<1>. QED  BY <1>1, <1>2

LEMMA BankedType ==
  ASSUME DataInv, NEW p \in Player, NEW t \in ManaType
  PROVE  Banked(p, t) \in [Player -> Bank]
<1>1. mana \in [Player -> Bank] /\ mana[p] \in [ManaType -> Nat]
  BY DEF DataInv, PoolsType, Bank
<1>2. [mana[p] EXCEPT ![t] = mana[p][t] + 1] \in Bank
  BY <1>1 DEF Bank
<1>3. Banked(p, t) = [mana EXCEPT ![p] = [mana[p] EXCEPT ![t] = mana[p][t] + 1]]
  BY <1>1 DEF Banked
<1>. QED  BY <1>1, <1>2, <1>3

LEMMA AvailableAreTypes ==
  ASSUME IInv, NEW p \in Player, NEW source
  PROVE  AvailableTypes(p, source) \subseteq ManaType
<1>1. \A q : Occupied(p, q) => FaceAt(p, q).produces \subseteq ManaType
  BY CardAtType, FaceFields DEF IInv
<1>2. \A q \in OccupiedPositions(p) : Occupied(p, q)
  BY DEF OccupiedPositions, Occupied
<1>. QED  BY <1>1, <1>2 DEF AvailableTypes

\* Producing banks a Type or asks the player for one.
LEMMA ProduceType ==
  ASSUME IInv, DataInv, NEW p \in Player, NEW source \in Position \cup {Natural},
         Produce(p, source), UNCHANGED <<coin, losses>>
  PROVE  PoolsType' /\ PendingType'
<1>. DEFINE types == AvailableTypes(p, source)
<1>1. PoolsType'
  <2>1. CASE Cardinality(types) = 1
    <3>1. types # {}
      BY <2>1, FS_EmptySet
    <3>2. PICK t \in ManaType : mana' = Banked(p, t)
      BY <2>1, <3>1, AvailableAreTypes DEF Produce
    <3>3. mana' \in [Player -> Bank]
      BY <3>2, BankedType
    <3>. QED  BY <3>3 DEF PoolsType, DataInv
  <2>2. CASE Cardinality(types) # 1
    BY <2>2 DEF Produce, PoolsType, DataInv
  <2>. QED  BY <2>1, <2>2
<1>2. PendingType'
  BY DEF Produce, PendingType, DataInv
<1>. QED  BY <1>1, <1>2

LEMMA StackPushed ==
  ASSUME IInv, DataInv, NEW item, Pushable(item), stack' = Append(stack, item)
  PROVE  StackType'
<1>1. stack \in Seq(ItemOf(OnStack))
  BY DEF IInv, ControlType
<1>2. /\ Len(stack) \in Nat /\ DOMAIN stack = 1 .. Len(stack)
      /\ DOMAIN stack' = 1 .. Len(stack) + 1
      /\ \A i \in 1 .. Len(stack) : stack'[i] = stack[i]
      /\ stack'[Len(stack) + 1] = item
  <2>1. Len(stack) \in Nat /\ DOMAIN stack = 1 .. Len(stack)
    BY <1>1
  <2>2. stack' \in Seq(Range(stack) \cup {item})
    <3>1. stack \in Seq(Range(stack) \cup {item})
      BY <1>1 DEF Range
    <3>. QED  BY <3>1
  <2>. QED  BY <2>1, <1>1, AppendProperties
<1>. QED  BY <1>2 DEF StackType, DataInv

LEMMA EndingType ==
  ASSUME NEW p \in Player, NEW reason \in LossReason, Ending(p, reason)
  PROVE  StatusType'
BY OpponentType DEF Ending, StatusType

\* A draw moves cards from one pile to another; a short Deck ends the match.
LEMMA DrawType ==
  ASSUME DataInv, NEW p \in Player, NEW n \in Nat, Draw(p, n)
  PROVE  hand' \in Piles /\ deck' \in Piles /\ StatusType'
<1>. DEFINE cards == deck[p]
            taken == IF n < Len(cards) THEN n ELSE Len(cards)
<1>1. /\ hand \in Piles /\ hand[p] \in Seq(CardInstance)
      /\ deck \in Piles /\ cards \in Seq(CardInstance)
  BY PilePut DEF DataInv, PilesType
<1>2. /\ Len(cards) \in Nat /\ taken \in Nat /\ taken <= Len(cards)
      /\ taken + 1 \in Nat \ {0} /\ 1 \in Nat \ {0} /\ Len(cards) <= Len(cards)
  BY <1>1
<1>3. SubSeq(cards, 1, taken) \in Seq(CardInstance)
      /\ SubSeq(cards, taken + 1, Len(cards)) \in Seq(CardInstance)
  <2>. HIDE DEF taken
  <2>. QED  BY <1>1, <1>2, StretchType
<1>4. /\ hand' = [hand EXCEPT ![p] = hand[p] \o SubSeq(cards, 1, taken)]
      /\ deck' = [deck EXCEPT ![p] = SubSeq(cards, taken + 1, Len(cards))]
  BY <1>1 DEF Draw, Piles
<1>5. hand[p] \o SubSeq(cards, 1, taken) \in Seq(CardInstance)
  <2>. HIDE DEF taken
  <2>. QED  BY <1>1, <1>3, ListParts
<1>6. StatusType'
  <2>1. "EmptyDeckDraw" \in LossReason
    BY DEF LossReason
  <2>. QED  BY <2>1, EndingType DEF Draw, statusVars, StatusType, DataInv
<1>. HIDE DEF taken, cards
<1>. QED  BY <1>1, <1>3, <1>4, <1>5, <1>6, PilePut

LEMMA ValuesAfterPlayer ==
  ASSUME IInv, DataInv, NEW p \in Player, PlayerAction(p)
  PROVE  ValuesInv'
<1>. USE DEF ValuesInv, pileVars, poolVars, onceVars, turnVars, statusVars, stackVars
<1>1. ASSUME NEW c \in CardInstance,
             \/ \E slot \in Bench : PlaySummon(p, c, slot)
             \/ \E q \in Position : UpgradeSummon(p, c, q)
      PROVE  ValuesInv'
  <2>1. hand' = WithoutCard(p, c) /\ UNCHANGED <<deck, prizes, discard, enchantments>>
    BY <1>1 DEF PlaySummon, UpgradeSummon
  <2>2. PilesType'
    BY <2>1, WithoutCardType DEF PilesType, DataInv
  <2>. QED  BY <1>1, <2>2, ValuesKept DEF PlaySummon, UpgradeSummon
<1>2. ASSUME NEW c \in CardInstance, NEW targets \in TargetChoices, NEW hint \in Hint,
             CastSpell(p, c, targets, hint)
      PROVE  ValuesInv'
  <2>1. PilesType'
    BY <1>2, WithoutCardType DEF CastSpell, PilesType, DataInv
  <2>2. PoolsType'
    <3>1. Face[c].cost \in Cost
      BY FaceAssumption, FaceFields
    <3>. QED  BY <1>2, <3>1, PaidType DEF CastSpell, PoolsType, DataInv
  <2>3. OnceType'
    BY <1>2 DEF CastSpell, OnceType, DataInv
  <2>4. StackType'
    <3>1. Pushable(SpellItem(p, c, targets))
      BY TargetAssumption DEF Pushable
    <3>. QED  BY <1>2, <3>1, StackPushed DEF CastSpell
  <2>. QED  BY <1>2, <2>1, <2>2, <2>3, <2>4, ValuesKept DEF CastSpell
<1>3. ASSUME NEW q \in Position, NEW targets \in TargetChoices, NEW hint \in Hint,
             NEW i, ActivateSkill(p, q, i, targets, hint)
      PROVE  ValuesInv'
  <2>. DEFINE skill == FaceAt(p, q).skills[i]
  <2>1. skill.cost \in Cost
    <3>1. FaceAt(p, q).skills \in Seq(Skill) /\ i \in DOMAIN FaceAt(p, q).skills
      BY <1>3, CardAtType, FaceFields DEF ActivateSkill, IInv
    <3>2. skill \in Skill
      BY <3>1, ElementOfSeq, LenProperties
    <3>. QED  BY <3>2 DEF Skill
  <2>2. PoolsType'
    BY <1>3, <2>1, PaidType DEF ActivateSkill, PoolsType, DataInv
  <2>. QED  BY <1>3, <2>2, ValuesKept DEF ActivateSkill
<1>4. ASSUME NEW slot \in Bench, NEW hint \in Hint, Retreat(p, slot, hint)
      PROVE  ValuesInv'
  <2>1. RetreatCost(p) \in Cost
    BY <1>4, RetreatCostType DEF Retreat
  <2>2. PoolsType'
    BY <1>4, <2>1, PaidType DEF Retreat, PoolsType, DataInv
  <2>3. OnceType'
    BY <1>4 DEF Retreat, OnceType, DataInv
  <2>. QED  BY <1>4, <2>2, <2>3, ValuesKept DEF Retreat
<1>5. ASSUME NEW hint \in Hint, DeclareAttack(p, hint)
      PROVE  ValuesInv'
  <2>1. FaceAt(p, Main).attackCost \in Cost
    BY <1>5, CardAtType, FaceFields DEF DeclareAttack, IInv
  <2>2. PoolsType'
    BY <1>5, <2>1, PaidType DEF DeclareAttack, PoolsType, DataInv
  <2>3. OnceType'
    BY <1>5 DEF DeclareAttack, OnceType, DataInv
  <2>4. StackType'
    <3>1. Pushable(AttackItem(p))
      BY DEF Pushable
    <3>. QED  BY <1>5, <3>1, StackPushed DEF DeclareAttack
  <2>. QED  BY <1>5, <2>2, <2>3, <2>4, ValuesKept DEF DeclareAttack
<1>6. ASSUME EndTurn(p) \/ PassPriority(p)
      PROVE  ValuesInv'
  <2>1. CASE Handover
    <3>1. OnceType'
      BY <2>1 DEF Handover, OnceType
    <3>. QED  BY <2>1, <3>1, ValuesKept DEF Handover
  <2>2. CASE EndTurn(p) \/ MovePriority(p) \/ CloseWindow
    BY <2>2, ValuesKept DEF EndTurn, MovePriority, CloseWindow
  <2>. QED  BY <1>6, <2>1, <2>2 DEF PassPriority
<1>7. ASSUME NEW t \in ManaType, ConvertCoin(p, t) \/ ChooseManaType(p, t)
      PROVE  ValuesInv'
  <2>1. PoolsType'
    BY <1>7, BankedType DEF ConvertCoin, ChooseManaType, PoolsType, DataInv
  <2>2. PendingType'
    BY <1>7, ValuesKept DEF ConvertCoin, ChooseManaType, PendingType
  <2>. QED  BY <1>7, <2>1, <2>2, ValuesKept DEF ConvertCoin, ChooseManaType
<1>8. ASSUME NEW slot \in Bench, ChoosePromotion(p, slot)
      PROVE  ValuesInv'
  <2>1. PendingType'
    BY <1>8 DEF ChoosePromotion, PendingType
  <2>. QED  BY <1>8, <2>1, ValuesKept DEF ChoosePromotion
<1>9. ASSUME NEW i, ChoosePrize(p, i)
      PROVE  ValuesInv'
  <2>. DEFINE o == Opponent(p)
  <2>1. /\ o \in Player /\ prizes \in Piles /\ prizes[o] \in Seq(CardInstance)
        /\ hand \in Piles /\ hand[o] \in Seq(CardInstance)
    BY OpponentType, PilePut DEF DataInv, PilesType
  <2>2. i \in 1 .. Len(prizes[o])
    BY <1>9, <2>1, LenProperties DEF ChoosePrize
  <2>3. RemoveAt(prizes[o], i) \in Seq(CardInstance) /\ prizes[o][i] \in CardInstance
    BY <2>1, <2>2, ListParts
  <2>4. Append(hand[o], prizes[o][i]) \in Seq(CardInstance)
    BY <2>1, <2>3, ListParts
  <2>5. /\ [prizes EXCEPT ![o] = RemoveAt(prizes[o], i)] \in Piles
        /\ [hand EXCEPT ![o] = Append(hand[o], prizes[o][i])] \in Piles
    BY <2>1, <2>3, <2>4, PilePut
  <2>6. PilesType'
    BY <1>9, <2>5 DEF ChoosePrize, PilesType, DataInv
  <2>7. PendingType'
    BY <1>9 DEF ChoosePrize, PendingType
  <2>. QED  BY <1>9, <2>6, <2>7, ValuesKept DEF ChoosePrize
<1>10. ASSUME Resign(p)
       PROVE  ValuesInv'
  <2>1. StatusType'
    <3>1. "Resignation" \in LossReason
      BY DEF LossReason
    <3>. QED  BY <1>10, <3>1, EndingType DEF Resign
  <2>. QED  BY <1>10, <2>1, ValuesKept DEF Resign
<1>. QED  BY <1>1, <1>2, <1>3, <1>4, <1>5, <1>6, <1>7, <1>8, <1>9, <1>10 DEF PlayerAction

LEMMA ValuesAfterLeaf ==
  ASSUME IInv, DataInv, ApplyLeaf
  PROVE  ValuesInv'
<1>. USE DEF ValuesInv, pileVars, poolVars, onceVars, turnVars, statusVars, stackVars
<1>1. CASE DealDamage \/ Heal \/ ReadySummon \/ CannotBeMovedByOpponent \/ LeafWithoutEffect
  BY <1>1, ValuesKept DEF DealDamage, Heal, ReadySummon, CannotBeMovedByOpponent,
                          LeafWithoutEffect, BoardOnly
<1>2. CASE MoveSummon \/ SwapPositions \/ SwapOpposingPositions
  BY <1>2, ValuesKept DEF MoveSummon, SwapPositions, SwapOpposingPositions, Exchange
<1>3. CASE ProduceManaLeaf
  <2>1. Controller \in Player /\ Aim \in Position \cup {NoPosition}
    BY <1>3, LeafType DEF ProduceManaLeaf
  <2>2. CASE Aim = NoPosition
    BY <1>3, <2>2, ValuesKept DEF ProduceManaLeaf
  <2>3. CASE Aim # NoPosition
    <3>1. PoolsType' /\ PendingType'
      BY <1>3, <2>1, <2>3, ProduceType DEF ProduceManaLeaf
    <3>. QED  BY <1>3, <3>1, ValuesKept DEF ProduceManaLeaf
  <2>. QED  BY <2>2, <2>3
<1>4. CASE DrawCards
  <2>1. Controller \in Player /\ Leaf \in EffectLeaf /\ Leaf.kind = "DrawCards"
    BY <1>4, LeafType DEF DrawCards
  <2>2. Leaf.amount \in Nat
    BY <2>1 DEF EffectLeaf
  <2>3. hand' \in Piles /\ deck' \in Piles /\ StatusType'
    BY <1>4, <2>1, <2>2, DrawType DEF DrawCards
  <2>4. PilesType'
    BY <1>4, <2>3 DEF DrawCards, PilesType, DataInv
  <2>. QED  BY <1>4, <2>3, <2>4, ValuesKept DEF DrawCards
<1>5. CASE ReturnSpellFromDiscard
  <2>. DEFINE p == Controller
              i == FirstSpell(discard[p])
  <2>1. /\ p \in Player /\ discard \in Piles /\ discard[p] \in Seq(CardInstance)
        /\ hand \in Piles /\ hand[p] \in Seq(CardInstance)
    BY <1>5, LeafType, PilePut DEF ReturnSpellFromDiscard, DataInv, PilesType
  <2>2. i = 0 \/ i \in 1 .. Len(discard[p])
    BY <2>1, FirstSpellType
  <2>3. ASSUME i # 0
        PROVE  discard' \in Piles /\ hand' \in Piles
    <3>. HIDE DEF p, i
    <3>1. RemoveAt(discard[p], i) \in Seq(CardInstance) /\ discard[p][i] \in CardInstance
      BY <2>1, <2>2, <2>3, ListParts
    <3>2. Append(hand[p], discard[p][i]) \in Seq(CardInstance)
      BY <2>1, <3>1, ListParts
    <3>3. /\ [discard EXCEPT ![p] = RemoveAt(discard[p], i)] \in Piles
          /\ [hand EXCEPT ![p] = Append(hand[p], discard[p][i])] \in Piles
      BY <2>1, <3>1, <3>2, PilePut
    <3>. QED  BY <1>5, <2>3, <3>3 DEF ReturnSpellFromDiscard, p, i
  <2>4. PilesType'
    BY <1>5, <2>3 DEF ReturnSpellFromDiscard, PilesType, DataInv
  <2>. QED  BY <1>5, <2>4, ValuesKept DEF ReturnSpellFromDiscard
<1>6. CASE ReturnSpellToDeckTop
  <2>. DEFINE p == Controller
              i == FirstSpell(hand[p])
  <2>1. /\ p \in Player /\ deck \in Piles /\ deck[p] \in Seq(CardInstance)
        /\ hand \in Piles /\ hand[p] \in Seq(CardInstance)
    BY <1>6, LeafType, PilePut DEF ReturnSpellToDeckTop, DataInv, PilesType
  <2>2. i = 0 \/ i \in 1 .. Len(hand[p])
    BY <2>1, FirstSpellType
  <2>3. ASSUME i # 0
        PROVE  deck' \in Piles /\ hand' \in Piles
    <3>. HIDE DEF p, i
    <3>1. RemoveAt(hand[p], i) \in Seq(CardInstance) /\ hand[p][i] \in CardInstance
      BY <2>1, <2>2, <2>3, ListParts
    <3>2. <<hand[p][i]>> \o deck[p] \in Seq(CardInstance)
      BY <2>1, <3>1, ListParts
    <3>3. /\ [deck EXCEPT ![p] = <<hand[p][i]>> \o deck[p]] \in Piles
          /\ [hand EXCEPT ![p] = RemoveAt(hand[p], i)] \in Piles
      BY <2>1, <3>1, <3>2, PilePut
    <3>. QED  BY <1>6, <2>3, <3>3 DEF ReturnSpellToDeckTop, p, i
  <2>4. PilesType'
    BY <1>6, <2>3 DEF ReturnSpellToDeckTop, PilesType, DataInv
  <2>. QED  BY <1>6, <2>4, ValuesKept DEF ReturnSpellToDeckTop
<1>. QED  BY <1>1, <1>2, <1>3, <1>4, <1>5, <1>6 DEF ApplyLeaf

LEMMA ValuesAfterWork ==
  ASSUME IInv, DataInv, ExecuteWorkItem
  PROVE  ValuesInv'
<1>. USE DEF ValuesInv, pileVars, poolVars, onceVars, turnVars, statusVars, stackVars
<1>1. Item \in WorkItem /\ active \in Player /\ Draining
  BY ExecutingItem DEF IInv, ControlType
<1>2. First \in Player /\ Second \in Player
  BY <1>1, OpponentType DEF First, Second
<1>3. Break => StatusType'
  BY <1>1 DEF Break, Draining, MatchOver, DataInv, StatusType
<1>4. CASE ReadyAll \/ BeginMainPhase \/ ResolveMovementConsequences \/ RunMovementTrigger
           \/ FireImmediate \/ FireVanished
  BY <1>4, ValuesKept DEF ReadyAll, BeginMainPhase, ResolveMovementConsequences,
                          RunMovementTrigger, FireImmediate, FireVanished
<1>5. CASE DrawCard
  <2>1. hand' \in Piles /\ deck' \in Piles /\ StatusType'
    BY <1>1, <1>5, DrawType DEF DrawCard
  <2>2. PilesType'
    BY <1>5, <2>1 DEF DrawCard, PilesType, DataInv
  <2>. QED  BY <1>5, <2>1, <2>2, ValuesKept DEF DrawCard
<1>6. CASE ProduceMana
  <2>1. Item.player \in Player
    BY <1>1, <1>6 DEF ProduceMana, Executing, WorkItem
  <2>2. PoolsType' /\ PendingType'
    BY <1>6, <2>1, ProduceType DEF ProduceMana
  <2>. QED  BY <1>6, <2>2, ValuesKept DEF ProduceMana
<1>7. CASE DestructionCheck
  <2>1. StatusType'
    BY <1>3, <1>7, ValuesKept DEF DestructionCheck
  <2>. QED  BY <1>7, <2>1, ValuesKept DEF DestructionCheck
<1>8. CASE DiscardDestroyedChain
  <2>. DEFINE q == Item.position
  <2>1. q \in Position
    BY <1>1, <1>8 DEF DiscardDestroyedChain, Executing, WorkItem, PlayerWork
  <2>2. UNCHANGED <<deck, hand, prizes, enchantments, mana, coin, losses, attackUsed,
                    retreatUsed, spellPlayed, pending, stack>>
    BY <1>8 DEF DiscardDestroyedChain
  <2>3. CASE DiscardNothing(q)
    <3>1. StatusType'
      BY <1>3, <2>3, ValuesKept DEF DiscardNothing
    <3>2. PilesType'
      BY <2>2, <2>3 DEF DiscardNothing, PilesType, DataInv
    <3>. QED  BY <2>2, <3>1, <3>2, ValuesKept
  <2>4. ASSUME NEW p \in Victims(q), DiscardVictim(p, q)
        PROVE  ValuesInv'
    <3>1. p \in Player /\ Occupied(p, q)
      BY <1>2 DEF Victims, IsDestroyed
    <3>2. board[p][q] \in SummonInstance
      BY <3>1, PlaceAt DEF DataInv
    <3>. DEFINE owner == board[p][q].owner
                chain == board[p][q].chain
    <3>3. owner \in Player /\ chain \in Seq(CardInstance)
      BY <3>2 DEF SummonInstance
    <3>4. discard \in Piles /\ discard[owner] \in Seq(CardInstance)
      BY <3>3, PilePut DEF DataInv, PilesType
    <3>5. discard[owner] \o chain \in Seq(CardInstance)
      BY <3>3, <3>4, ListParts
    <3>6. [discard EXCEPT ![owner] = discard[owner] \o chain] \in Piles
      BY <3>3, <3>4, <3>5, PilePut
    <3>7. discard' \in Piles
      BY <2>4, <3>6 DEF DiscardVictim
    <3>8. PilesType'
      BY <2>2, <3>7 DEF PilesType, DataInv
    <3>9. StatusType'
      BY <2>4, ValuesKept DEF DiscardVictim
    <3>. QED  BY <2>2, <3>8, <3>9, ValuesKept
  <2>5. DiscardNothing(q) \/ \E p \in Victims(q) : DiscardVictim(p, q)
    BY <1>8 DEF DiscardDestroyedChain
  <2>. QED  BY <2>3, <2>4, <2>5
<1>9. CASE RecordMainLoss
  <2>1. Item.player \in Player
    BY <1>1, <1>9 DEF RecordMainLoss, Executing, WorkItem, PlayerWork
  <2>2. losses' \in [Player -> Nat]
    <3>1. losses \in [Player -> Nat] /\ losses[Item.player] \in Nat
      BY <2>1 DEF DataInv, PoolsType
    <3>2. losses' = [losses EXCEPT ![Item.player] = losses[Item.player] + 1]
      BY <1>9 DEF RecordMainLoss
    <3>3. losses[Item.player] + 1 \in Nat
      BY <3>1
    <3>. QED  BY <3>1, <3>2, <3>3
  <2>3. PoolsType'
    BY <1>9, <2>2 DEF RecordMainLoss, PoolsType, DataInv
  <2>. QED  BY <1>9, <2>3, ValuesKept DEF RecordMainLoss
<1>10. CASE RecoverPrize \/ PromoteBenchSummon
  <2>1. Item.player \in Player /\ Opponent(Item.player) \in Player
    BY <1>1, <1>10, OpponentType
       DEF RecoverPrize, PromoteBenchSummon, Executing, WorkItem, PlayerWork
  <2>2. PendingType'
    BY <1>10, <2>1 DEF RecoverPrize, PromoteBenchSummon, PendingType, DataInv
  <2>. QED  BY <1>10, <2>2, ValuesKept DEF RecoverPrize, PromoteBenchSummon
<1>11. CASE LossCheck
  <2>1. Item.player \in Player
    BY <1>1, <1>11 DEF LossCheck, Executing, WorkItem, PlayerWork
  <2>2. "ThirdMainLoss" \in LossReason /\ "NoPromotionAvailable" \in LossReason
    BY DEF LossReason
  <2>3. StatusType'
    BY <1>11, <2>1, <2>2, EndingType, ValuesKept DEF LossCheck
  <2>. QED  BY <1>11, <2>3, ValuesKept DEF LossCheck
<1>12. CASE FireRespondable
  <2>1. /\ Item.player \in Player /\ Item.position \in Position
        /\ FiringAbility \subseteq Ability
    BY <1>12, FiringAbilityType DEF FireRespondable, Executing
  <2>2. PICK ability \in FiringAbility :
          stack' = Append(stack, TriggerItem("Trigger", ability))
    BY <1>12 DEF FireRespondable
  <2>3. TriggerItem("Trigger", ability) \in ItemOf({"Trigger"})
    BY <2>1, TriggerItemType
  <2>4. /\ ability.leaves \in Seq(EffectLeaf)
        /\ ImplicitTargets(Item.position, ability.leaves) \in Seq(Position)
    BY <2>3 DEF TriggerItem, StackItem, ItemOf
  <2>5. Pushable(TriggerItem("Trigger", ability))
    BY <2>1, <2>4 DEF Pushable, TriggerItem
  <2>6. StackType'
    BY <2>2, <2>5, StackPushed
  <2>. QED  BY <1>12, <2>6, ValuesKept DEF FireRespondable
<1>. QED  BY <1>4, <1>5, <1>6, <1>7, <1>8, <1>9, <1>10, <1>11, <1>12 DEF ExecuteWorkItem

LEMMA ValuesStep ==
  ASSUME IInv, DataInv, Next
  PROVE  ValuesInv'
<1>. USE DEF ValuesInv, pileVars, poolVars, onceVars, turnVars, statusVars
<1>1. CASE ResolveTopStackItem
  <2>1. stack \in Seq(ItemOf(OnStack)) /\ stack' = Front(stack) /\ stack # <<>>
    <3>1. Len(stack) > CurrentBase /\ CurrentBase \in Nat
      BY <1>1 DEF ResolveTopStackItem, StackHasUnresolvedItems, CurrentBase, Last, IInv,
                  ControlInv, SegmentsNeverNest
    <3>. QED  BY <1>1, <3>1 DEF ResolveTopStackItem, IInv, ControlType
  <2>2. \A i \in DOMAIN stack' : i \in DOMAIN stack /\ stack'[i] = stack[i]
    <3>1. /\ Len(stack) \in Nat /\ Len(stack) > 0 /\ DOMAIN stack = 1 .. Len(stack)
          /\ stack' = SubSeq(stack, 1, Len(stack) - 1)
      BY <2>1 DEF Front
    <3>2. /\ DOMAIN stack' = 1 .. Len(stack) - 1
          /\ \A i \in 1 .. Len(stack) - 1 : stack'[i] = stack[i]
      BY <2>1, <3>1
    <3>. QED  BY <3>1, <3>2
  <2>3. StackType'
    BY <2>2 DEF StackType, DataInv
  <2>. QED  BY <1>1, <2>3, ValuesKept DEF ResolveTopStackItem
<1>2. CASE FinishResolving
  <2>. DEFINE p == resolving.controller
  <2>1. p \in Player /\ resolving.cards \in Seq(CardInstance)
    BY <1>2 DEF FinishResolving, IInv, ControlType, ItemOf
  <2>2. PICK spent \in {<<>>, resolving.cards}, kept \in {<<>>, resolving.cards} :
          /\ discard' = [discard EXCEPT ![p] = @ \o spent]
          /\ enchantments' = [enchantments EXCEPT ![p] = @ \o kept]
    BY <1>2 DEF FinishResolving
  <2>3. spent \in Seq(CardInstance) /\ kept \in Seq(CardInstance)
    <3>1. <<>> \in Seq(CardInstance)
      OBVIOUS
    <3>. QED  BY <2>1, <3>1, Zenon
  <2>4. /\ discard \in Piles /\ discard[p] \in Seq(CardInstance)
        /\ enchantments \in Piles /\ enchantments[p] \in Seq(CardInstance)
    BY <2>1, PilePut DEF DataInv, PilesType
  <2>5. /\ discard[p] \o spent \in Seq(CardInstance)
        /\ enchantments[p] \o kept \in Seq(CardInstance)
    BY <2>3, <2>4, ListParts
  <2>6. /\ [discard EXCEPT ![p] = discard[p] \o spent] \in Piles
        /\ [enchantments EXCEPT ![p] = enchantments[p] \o kept] \in Piles
    BY <2>1, <2>4, <2>5, PilePut
  <2>7. PilesType'
    BY <1>2, <2>2, <2>6 DEF FinishResolving, PilesType, DataInv
  <2>. QED  BY <1>2, <2>7, ValuesKept DEF FinishResolving
<1>. QED  BY <1>1, <1>2, ValuesAfterLeaf, ValuesAfterWork, ValuesAfterPlayer
          DEF Next, DrainStep

-----------------------------------------------------------------------------
(* Types.                                                                  *)

LEMMA InitDataInv == Init => DataInv
<1>. SUFFICES ASSUME NEW s \in Setups, FromScenario(s)
              PROVE  DataInv
  BY DEF Init
<1>1. ValidSetup(s)
  BY SetupAssumption
<1>2. board \in Boards
  BY <1>1 DEF FromScenario, ValidSetup, Boards, Place
<1>3. PilesType /\ PoolsType /\ OnceType
  <2>1. enchantments \in Piles
    BY DEF FromScenario, Piles
  <2>. QED  BY <1>1, <2>1 DEF FromScenario, ValidSetup, PilesType, PoolsType, OnceType, Piles
<1>4. StatusType /\ StackType
  BY DEF FromScenario, StatusType, StackType
<1>5. PendingType
  BY DEF FromScenario, DerivedPending, PendingType, Player
<1>. QED  BY <1>2, <1>3, <1>4, <1>5 DEF DataInv

LEMMA NextDataInv == IInv /\ DataInv /\ [Next]_vars => DataInv'
<1>. SUFFICES ASSUME IInv, DataInv, [Next]_vars
              PROVE  DataInv'
  OBVIOUS
<1>1. CASE Next
  BY <1>1, BoardsStep, ValuesStep DEF DataInv, ValuesInv
<1>2. CASE UNCHANGED vars
  BY <1>2, ValuesKept
     DEF vars, statusVars, turnVars, onceVars, stackVars, pileVars, poolVars, DataInv
<1>. QED  BY <1>1, <1>2

LEMMA DataInvariant == Spec => [](IInv /\ DataInv)
<1>1. Init => IInv /\ DataInv
  BY InitIInv, InitDataInv
<1>2. IInv /\ DataInv /\ [Next]_vars => (IInv /\ DataInv)'
  BY NextIInv, NextDataInv
<1>. QED  BY <1>1, <1>2, PTL DEF Spec

(***************************************************************************)
(* Every value of a match keeps its type, whatever the cards print and     *)
(* whatever is played: no payment overdraws a pool (payment::deduct), no   *)
(* reduction makes Damage or a cost negative, no card leaves the piles for *)
(* something that is not a card, and every paused decision names a player. *)
(***************************************************************************)
THEOREM TypeOKAlways == Spec => []TypeOK
<1>1. IInv /\ DataInv => TypeOK
  <2>. SUFFICES ASSUME IInv, DataInv
                PROVE  TypeOK
    OBVIOUS
  <2>1. bases \in Seq(Nat)
    <3>1. bases \in {<<>>, <<0>>}
      BY DEF IInv, ControlInv, SegmentsNeverNest
    <3>2. <<>> \in Seq(Nat) /\ <<0>> \in Seq(Nat)
      OBVIOUS
    <3>. QED  BY <3>1, <3>2, Zenon
  <2>2. pending = NoPending \/ pending.player \in Player
    BY DEF DataInv, PendingType, Promotion, PrizePick, ManaProduction
  <2>3. status \in {"Playing", "Ended", "Broken"}
    BY DEF DataInv, StatusType
  <2>4. board \in [Player -> [Position -> SummonInstance \cup {NoSummon}]]
    BY DEF DataInv, Boards, Place
  <2>. QED  BY <2>1, <2>2, <2>3, <2>4
            DEF TypeOK, IInv, ControlType, DataInv, PilesType, PoolsType, OnceType
<1>. QED  BY <1>1, DataInvariant, PTL

-----------------------------------------------------------------------------
(* Names survive being written and read.                                   *)

LEMMA PlayerName ==
  \A p \in Player : /\ PlayerToWire[p] \in Wire!PlayerIdV1
                    /\ PlayerFromWire[PlayerToWire[p]] = p
BY DEF Player, PlayerToWire, PlayerFromWire, Wire!PlayerIdV1

LEMMA SlotName ==
  \A q \in Bench : /\ BenchSlotToWire[q] \in Wire!BenchSlotV1
                   /\ BenchSlotFromWire[BenchSlotToWire[q]] = q
BY DEF Bench, BenchSlotToWire, BenchSlotFromWire, Wire!BenchSlotV1

LEMMA UpgradeName ==
  \A u \in UpgradeActivity : /\ UpgradeToWire[u] \in Wire!UpgradeActivityV1
                             /\ UpgradeFromWire[UpgradeToWire[u]] = u
BY DEF UpgradeActivity, UpgradeToWire, UpgradeFromWire, Wire!UpgradeActivityV1

LEMMA PhaseName ==
  \A x \in Phase : /\ PhaseToWire[x] \in {"upkeep", "main", "combat"}
                   /\ PhaseFromWire[PhaseToWire[x]] = x
BY DEF Phase, PhaseToWire, PhaseFromWire

LEMMA LossReasonName ==
  \A r \in LossReason : /\ LossReasonToWire[r] \in Wire!LossReasonV1
                        /\ LossReasonFromWire[LossReasonToWire[r]] = r
BY DEF LossReason, LossReasonToWire, LossReasonFromWire, Wire!LossReasonV1

LEMMA TriggerEventName ==
  \A e \in TriggerEvent : /\ TriggerEventToWire[e] \in Wire!TriggerEventV1
                          /\ TriggerEventFromWire[TriggerEventToWire[e]] = e
BY DEF TriggerEvent, TriggerEventToWire, TriggerEventFromWire, Wire!TriggerEventV1

LEMMA ConditionName ==
  \A c \in Condition : /\ ConditionToWire[c] \in Wire!EffectConditionV1
                       /\ ConditionFromWire[ConditionToWire[c]] = c
BY DEF Condition, ConditionToWire, ConditionFromWire, Wire!EffectConditionV1

LEMMA TargetName ==
  \A t \in AimedAt : /\ TargetToWire[t] \in Wire!EffectTargetV1
                     /\ TargetFromWire[TargetToWire[t]] = t
BY DEF AimedAt, TargetToWire, TargetFromWire, Wire!EffectTargetV1

LEMMA StepName ==
  \A s \in MovementSteps : /\ StepToWire[s] \in Wire!MovementStepV1
                           /\ StepFromWire[StepToWire[s]] = s
BY DEF MovementSteps, StepToWire, StepFromWire, Wire!MovementStepV1

-----------------------------------------------------------------------------
(* Lists, one member at a time.                                            *)

LEMMA WrittenList ==
  ASSUME NEW S, NEW T, NEW s \in Seq(S), NEW w, w = [i \in DOMAIN s |-> w[i]],
         \A i \in DOMAIN s : w[i] \in T
  PROVE  w \in Seq(T) /\ DOMAIN w = DOMAIN s
<1>1. Len(s) \in Nat /\ DOMAIN s = 1 .. Len(s)
  OBVIOUS
<1>2. w \in [1 .. Len(s) -> T]
  BY <1>1
<1>. QED  BY <1>1, <1>2, SeqDef

LEMMA ReadList ==
  ASSUME NEW S, NEW s \in Seq(S), NEW r, r = [i \in DOMAIN s |-> r[i]],
         \A i \in DOMAIN s : r[i] = s[i]
  PROVE  s = r
<1>1. Len(s) \in Nat /\ DOMAIN s = 1 .. Len(s) /\ s \in [1 .. Len(s) -> S]
  OBVIOUS
<1>2. s = [i \in DOMAIN s |-> s[i]]
  BY <1>1
<1>. QED  BY <1>2

-----------------------------------------------------------------------------
(* Positions and Summons.                                                  *)

LEMMA PositionSurvives ==
  ASSUME NEW q \in Position
  PROVE  PositionToWire(q) \in Wire!PositionV1 /\ PositionFromWire(PositionToWire(q)) = q
<1>1. CASE q = Main
  BY <1>1 DEF PositionToWire, PositionFromWire, Wire!PositionV1
<1>2. CASE q # Main
  <2>1. q \in Bench
    BY <1>2 DEF Position
  <2>2. PositionToWire(q) = [kind |-> "bench", slot |-> BenchSlotToWire[q]]
    BY <1>2 DEF PositionToWire
  <2>. QED  BY <2>1, <2>2, SlotName DEF PositionFromWire, Wire!PositionV1
<1>. QED  BY <1>1, <1>2

LEMMA PositionsSurvive ==
  ASSUME NEW qs \in Seq(Position)
  PROVE  /\ PositionsToWire(qs) \in Seq(Wire!PositionV1)
         /\ PositionsFromWire(PositionsToWire(qs)) = qs
<1>. DEFINE w == PositionsToWire(qs)
            r == PositionsFromWire(w)
<1>1. \A i \in DOMAIN qs : qs[i] \in Position
  BY ElementOfSeq, LenProperties
<1>2. w = [i \in DOMAIN qs |-> w[i]] /\ \A i \in DOMAIN qs : w[i] = PositionToWire(qs[i])
  BY DEF PositionsToWire
<1>3. DOMAIN w = DOMAIN qs
  BY DEF PositionsToWire
<1>. HIDE DEF w
<1>4. w \in Seq(Wire!PositionV1)
  BY <1>1, <1>2, PositionSurvives, WrittenList
<1>5. r = [i \in DOMAIN qs |-> r[i]] /\ \A i \in DOMAIN qs : r[i] = PositionFromWire(w[i])
  BY <1>3 DEF PositionsFromWire
<1>. HIDE DEF r
<1>6. \A i \in DOMAIN qs : r[i] = qs[i]
  BY <1>1, <1>2, <1>5, PositionSurvives
<1>7. qs = r
  BY <1>5, <1>6, ReadList
<1>. QED  BY <1>4, <1>7 DEF w, r

\* The turn record, the marker and the readiness are read back with the rest.
LEMMA SummonSurvives ==
  ASSUME NEW s \in SummonInstance
  PROVE  /\ SummonToWire(s) \in Wire!SummonInstanceV1
         /\ SummonToWire(s).chain.layers # <<>>
         /\ SummonFromWire(SummonToWire(s)) = s
<1>. DEFINE v == SummonToWire(s)
<1>1. /\ s.chain \in Seq(CardInstance) /\ s.chain # <<>> /\ s.damage \in Nat
      /\ s.ready \in BOOLEAN /\ s.owner \in Player /\ s.marked \in BOOLEAN
      /\ s.upgrade \in UpgradeActivity /\ s.enteredMain \in BOOLEAN
  BY DEF SummonInstance
<1>2. v.chain.layers = s.chain
  BY DEF SummonToWire
<1>3. v.damage = s.damage /\ PlayerFromWire[v.owner] = s.owner
  BY <1>1, PlayerName DEF SummonToWire
<1>4. (v.readiness = "ready") = s.ready
  BY <1>1 DEF SummonToWire
<1>5. (v.duration_markers # <<>>) = s.marked
  BY <1>1 DEF SummonToWire
<1>6. UpgradeFromWire[v.turn.upgrade] = s.upgrade /\ v.turn.entered_main = s.enteredMain
  BY <1>1, UpgradeName DEF SummonToWire
<1>7. v \in Wire!SummonInstanceV1
  <2>1. <<"cannot_be_moved_by_opponent">> \in Seq({"cannot_be_moved_by_opponent"})
        /\ <<>> \in Seq({"cannot_be_moved_by_opponent"})
    OBVIOUS
  <2>2. v.duration_markers \in Seq({"cannot_be_moved_by_opponent"})
    BY <2>1, Zenon DEF SummonToWire
  <2>3. [layers |-> s.chain] \in Wire!UpgradeChainV1
    BY <1>1 DEF Wire!UpgradeChainV1
  <2>4. [upgrade |-> UpgradeToWire[s.upgrade], entered_main |-> s.enteredMain]
          \in Wire!SummonTurnRecordV1
    BY <1>1, UpgradeName DEF Wire!SummonTurnRecordV1
  <2>. QED  BY <1>1, <2>2, <2>3, <2>4, PlayerName DEF SummonToWire, Wire!SummonInstanceV1
<1>8. SummonFromWire(v) =
        [chain |-> s.chain, damage |-> s.damage, ready |-> s.ready, owner |-> s.owner,
         marked |-> s.marked, upgrade |-> s.upgrade, enteredMain |-> s.enteredMain]
  <2>. HIDE DEF v
  <2>. QED  BY <1>2, <1>3, <1>4, <1>5, <1>6 DEF SummonFromWire
<1>9. s = [chain |-> s.chain, damage |-> s.damage, ready |-> s.ready, owner |-> s.owner,
           marked |-> s.marked, upgrade |-> s.upgrade, enteredMain |-> s.enteredMain]
  BY DEF SummonInstance
<1>. QED  BY <1>1, <1>2, <1>7, <1>8, <1>9

LEMMA PlaceSurvives ==
  ASSUME NEW s \in Place
  PROVE  /\ PlaceToWire(s) \in Wire!Optional(Wire!SummonInstanceV1)
         /\ PlaceToWire(s) # Null => PlaceToWire(s).chain.layers # <<>>
         /\ PlaceFromWire(PlaceToWire(s)) = s
<1>1. CASE s = NoSummon
  BY <1>1 DEF PlaceToWire, PlaceFromWire, Null, Wire!Optional
<1>2. CASE s # NoSummon
  <2>1. s \in SummonInstance
    BY <1>2 DEF Place
  <2>2. SummonToWire(s) # Null
    BY DEF SummonToWire, Null, Wire!Null
  <2>. QED  BY <1>2, <2>1, <2>2, SummonSurvives DEF PlaceToWire, PlaceFromWire, Wire!Optional
<1>. QED  BY <1>1, <1>2

LEMMA ManaSurvives ==
  ASSUME NEW bank \in Bank
  PROVE  ManaToWire(bank) \in Wire!ManaBankV1 /\ ManaFromWire(ManaToWire(bank)) = bank
<1>1. /\ bank["Matter"] \in Nat /\ bank["Mind"] \in Nat /\ bank["Spirit"] \in Nat
      /\ bank = [t \in ManaType |-> bank[t]]
  BY DEF Bank, ManaType
<1>2. ManaToWire(bank) \in Wire!ManaBankV1
  BY <1>1 DEF ManaToWire, Wire!ManaBankV1
<1>3. ManaFromWire(ManaToWire(bank)) = [t \in ManaType |-> bank[t]]
  BY DEF ManaFromWire, ManaToWire, ManaType
<1>. QED  BY <1>1, <1>2, <1>3

\* A player's board, piles, pool and losses: three losses fit in the byte.
LEMMA SeatSurvives ==
  ASSUME DataInv, LossInv, NEW p \in Player
  PROVE  /\ SeatToWire(p) \in Wire!PlayerStateV1
         /\ \A v \in Places(SeatToWire(p)) : v.chain.layers # <<>>
         /\ SeatFromWire(p, SeatToWire(p))
<1>. DEFINE seat == SeatToWire(p)
            wire == Wire!Optional(Wire!SummonInstanceV1)
<1>1. /\ board[p] = [q \in Position |-> board[p][q]]
      /\ \A q \in Position : board[p][q] \in Place
  BY DEF DataInv, Boards
<1>2. \A q \in Position : /\ PlaceToWire(board[p][q]) \in wire
                          /\ PlaceToWire(board[p][q]) # Null
                               => PlaceToWire(board[p][q]).chain.layers # <<>>
                          /\ PlaceFromWire(PlaceToWire(board[p][q])) = board[p][q]
  BY <1>1, PlaceSurvives
<1>3. Main \in Position /\ \A q \in Bench : q \in Position /\ q # Main
  BY DEF Position, Main, Bench
<1>4. /\ deck[p] \in Seq(CardInstance) /\ hand[p] \in Seq(CardInstance)
      /\ prizes[p] \in Seq(CardInstance) /\ discard[p] \in Seq(CardInstance)
      /\ enchantments[p] \in Seq(CardInstance)
  BY DEF DataInv, PilesType, Piles
<1>5. mana[p] \in Bank /\ losses[p] \in 0 .. 255
  BY DEF DataInv, PoolsType, LossInv
<1>6. ManaToWire(mana[p]) \in Wire!ManaBankV1 /\ ManaFromWire(ManaToWire(mana[p])) = mana[p]
  BY <1>5, ManaSurvives
<1>7. /\ seat.main = PlaceToWire(board[p][Main])
      /\ seat.bench = [i \in Bench |-> PlaceToWire(board[p][i])]
      /\ seat.deck = deck[p] /\ seat.hand = hand[p] /\ seat.prizes = prizes[p]
      /\ seat.discard = discard[p] /\ seat.mana = ManaToWire(mana[p])
      /\ seat.main_losses = losses[p] /\ seat.enchantments = enchantments[p]
  BY DEF SeatToWire
<1>8. seat \in Wire!PlayerStateV1
  <2>1. PlaceToWire(board[p][Main]) \in wire
    BY <1>2, <1>3
  <2>2. [i \in Bench |-> PlaceToWire(board[p][i])] \in [1 .. 3 -> wire]
    BY <1>2, <1>3 DEF Bench
  <2>. HIDE DEF wire
  <2>3. [main : wire, bench : [1 .. 3 -> wire], deck : Seq(CardInstance),
         hand : Seq(CardInstance), prizes : Seq(CardInstance), discard : Seq(CardInstance),
         mana : Wire!ManaBankV1, main_losses : 0 .. 255, enchantments : Seq(CardInstance)]
          = Wire!PlayerStateV1
    BY DEF wire, Wire!PlayerStateV1
  <2>. QED  BY <2>1, <2>2, <2>3, <1>4, <1>5, <1>6 DEF SeatToWire
<1>. HIDE DEF seat
<1>9. \A v \in Places(seat) : v.chain.layers # <<>>
  <2>1. \A i \in 1 .. 3 : seat.bench[i] = PlaceToWire(board[p][i])
    BY <1>7 DEF Bench
  <2>. QED  BY <1>2, <1>3, <1>7, <2>1 DEF Places, Bench
<1>10. board[p] = [q \in Position |-> PlaceFromWire(IF q = Main THEN seat.main
                                                     ELSE seat.bench[q])]
  <2>1. ASSUME NEW q \in Position
        PROVE  PlaceFromWire(IF q = Main THEN seat.main ELSE seat.bench[q]) = board[p][q]
    <3>1. CASE q = Main
      BY <1>2, <1>7, <3>1
    <3>2. CASE q # Main
      <4>1. q \in Bench /\ seat.bench[q] = PlaceToWire(board[p][q])
        BY <1>7, <3>2 DEF Position
      <4>. QED  BY <1>2, <3>2, <4>1
    <3>. QED  BY <3>1, <3>2
  <2>. QED  BY <1>1, <2>1
<1>11. SeatFromWire(p, seat)
  BY <1>6, <1>7, <1>10 DEF SeatFromWire
<1>. QED  BY <1>8, <1>9, <1>11 DEF seat

-----------------------------------------------------------------------------
(* The turn, the decision asked and the status.                            *)

LEMMA WindowSurvives ==
  ASSUME NEW w \in [holder : Player, priorPass : BOOLEAN] \cup {NoWindow}
  PROVE  WindowToWire(w) \in Wire!Optional(Wire!StackWindowV1) /\ WindowFromWire(WindowToWire(w)) = w
<1>1. CASE w = NoWindow
  BY <1>1 DEF WindowToWire, WindowFromWire, Null, Wire!Optional
<1>2. CASE w # NoWindow
  <2>1. /\ w.holder \in Player /\ w.priorPass \in BOOLEAN
        /\ w = [holder |-> w.holder, priorPass |-> w.priorPass]
    BY <1>2
  <2>2. WindowToWire(w) = [holder |-> PlayerToWire[w.holder], prior_pass |-> w.priorPass]
    BY <1>2 DEF WindowToWire
  <2>3. WindowToWire(w) # Null
    BY <2>2 DEF Null, Wire!Null
  <2>4. WindowFromWire(WindowToWire(w)) = [holder |-> w.holder, priorPass |-> w.priorPass]
    BY <2>1, <2>2, <2>3, PlayerName DEF WindowFromWire
  <2>5. WindowToWire(w) \in Wire!StackWindowV1
    BY <2>1, <2>2, PlayerName DEF Wire!StackWindowV1
  <2>. QED  BY <2>1, <2>4, <2>5 DEF Wire!Optional
<1>. QED  BY <1>1, <1>2

LEMMA TurnSurvives ==
  ASSUME IInv, DataInv
  PROVE  TurnToWire \in Wire!TurnStateV1 /\ TurnFromWire(TurnToWire)
<1>. DEFINE turn == TurnToWire
            both == [one |-> spellPlayed["One"], two |-> spellPlayed["Two"]]
<1>1. /\ active \in Player /\ phase \in Phase /\ attackUsed \in BOOLEAN
      /\ retreatUsed \in BOOLEAN /\ spellPlayed \in [Player -> BOOLEAN]
      /\ window \in [holder : Player, priorPass : BOOLEAN] \cup {NoWindow}
  BY DEF IInv, ControlType, DataInv, OnceType
<1>2. /\ WindowToWire(window) \in Wire!Optional(Wire!StackWindowV1)
      /\ WindowFromWire(WindowToWire(window)) = window
  BY <1>1, WindowSurvives
<1>3. both \in Wire!PerPlayerBoolV1
  BY <1>1 DEF Wire!PerPlayerBoolV1, Player
<1>4. spellPlayed = [One |-> both.one, Two |-> both.two]
  BY <1>1 DEF Player
<1>. HIDE DEF both
<1>5. turn = [active_player |-> PlayerToWire[active], phase |-> PhaseToWire[phase],
              window |-> WindowToWire(window), normal_attack_used |-> attackUsed,
              normal_retreat_used |-> retreatUsed, spell_played_this_turn |-> both]
  BY DEF TurnToWire, both
<1>6. turn \in Wire!TurnStateV1
  <2>. HIDE DEF turn
  <2>. QED  BY <1>1, <1>2, <1>3, <1>5, PlayerName, PhaseName DEF Wire!TurnStateV1
<1>. HIDE DEF turn
<1>7. TurnFromWire(turn)
  BY <1>1, <1>2, <1>4, <1>5, PlayerName, PhaseName DEF TurnFromWire
<1>. QED  BY <1>6, <1>7 DEF turn

LEMMA ManaSourceSurvives ==
  ASSUME NEW source \in Position \cup {Natural}
  PROVE  /\ ManaSourceToWire(source) \in Wire!ManaSourceV1
         /\ ManaSourceFromWire(ManaSourceToWire(source)) = source
<1>1. CASE source = Natural
  BY <1>1 DEF ManaSourceToWire, ManaSourceFromWire, Wire!ManaSourceV1
<1>2. CASE source # Natural
  <2>1. source \in Position
    BY <1>2
  <2>2. ManaSourceToWire(source) = [kind |-> "summon", position |-> PositionToWire(source)]
    BY <1>2 DEF ManaSourceToWire
  <2>. QED  BY <2>1, <2>2, PositionSurvives DEF ManaSourceFromWire, Wire!ManaSourceV1
<1>. QED  BY <1>1, <1>2

LEMMA PendingSurvives ==
  ASSUME PendingType
  PROVE  /\ PendingToWire(pending) \in Wire!Optional(Wire!PendingInputV1)
         /\ pending = PendingFromWire(PendingToWire(pending))
<1>1. CASE pending = NoPending
  <2>1. PendingToWire(pending) = Null
    BY <1>1 DEF PendingToWire, NoPending
  <2>. QED  BY <1>1, <2>1 DEF PendingFromWire, Null, Wire!Optional
<1>2. CASE \E p \in Player : pending = Promotion(p)
  <2>1. PICK p \in Player : pending = Promotion(p)
    BY <1>2
  <2>2. PendingToWire(pending) = [kind |-> "promotion", player |-> PlayerToWire[p]]
    BY <2>1 DEF PendingToWire, Promotion
  <2>3. PendingToWire(pending) # Null
    BY <2>2 DEF Null, Wire!Null
  <2>4. PendingFromWire(PendingToWire(pending)) = Promotion(p)
    BY <2>2, <2>3, PlayerName DEF PendingFromWire
  <2>5. PendingToWire(pending) \in Wire!PendingInputV1
    BY <2>2, PlayerName DEF Wire!PendingInputV1
  <2>. QED  BY <2>1, <2>4, <2>5 DEF Wire!Optional
<1>3. CASE \E p \in Player : pending = PrizePick(p)
  <2>1. PICK p \in Player : pending = PrizePick(p)
    BY <1>3
  <2>2. PendingToWire(pending) = [kind |-> "prize_pick", chooser |-> PlayerToWire[p]]
    BY <2>1 DEF PendingToWire, PrizePick
  <2>3. PendingToWire(pending) # Null
    BY <2>2 DEF Null, Wire!Null
  <2>4. PendingFromWire(PendingToWire(pending)) = PrizePick(p)
    BY <2>2, <2>3, PlayerName DEF PendingFromWire
  <2>5. PendingToWire(pending) \in Wire!PendingInputV1
    BY <2>2, PlayerName DEF Wire!PendingInputV1
  <2>. QED  BY <2>1, <2>4, <2>5 DEF Wire!Optional
<1>4. CASE \E p \in Player : \E source \in Position \cup {Natural} :
             pending = ManaProduction(p, source)
  <2>1. PICK p \in Player, source \in Position \cup {Natural} :
          pending = ManaProduction(p, source)
    BY <1>4
  <2>2. PendingToWire(pending) = [kind |-> "mana_production", player |-> PlayerToWire[p],
                                  source |-> ManaSourceToWire(source)]
    BY <2>1 DEF PendingToWire, ManaProduction
  <2>3. PendingToWire(pending) # Null
    BY <2>2 DEF Null, Wire!Null
  <2>4. PendingFromWire(PendingToWire(pending)) = ManaProduction(p, source)
    BY <2>2, <2>3, PlayerName, ManaSourceSurvives DEF PendingFromWire
  <2>5. PendingToWire(pending) \in Wire!PendingInputV1
    BY <2>2, PlayerName, ManaSourceSurvives DEF Wire!PendingInputV1
  <2>. QED  BY <2>1, <2>4, <2>5 DEF Wire!Optional
<1>. QED  BY <1>1, <1>2, <1>3, <1>4 DEF PendingType

\* A breakage names a rule the reader knows.
LEMMA StatusSurvives ==
  ASSUME StatusType
  PROVE  /\ StatusToWire \in Wire!GameStatusV1
         /\ StatusIsSupported(StatusToWire)
         /\ StatusFromWire(StatusToWire)
<1>1. CASE status = "Playing" /\ outcome = NoOutcome
  <2>1. StatusToWire = [kind |-> "playing"]
    BY <1>1 DEF StatusToWire
  <2>. QED  BY <1>1, <2>1 DEF StatusIsSupported, StatusFromWire, Wire!GameStatusV1
<1>2. CASE status = "Broken" /\ outcome = NoOutcome
  <2>1. StatusToWire = [kind |-> "broken", breakage |-> [rule |-> "destruction"]]
    BY <1>2 DEF StatusToWire
  <2>. QED  BY <1>2, <2>1
            DEF StatusIsSupported, KnownRules, StatusFromWire, Wire!GameStatusV1, Wire!BreakageV1
<1>3. CASE status = "Ended" /\ outcome \in [winner : Player, reason : LossReason]
  <2>. DEFINE out == [winner |-> PlayerToWire[outcome.winner],
                      reason |-> LossReasonToWire[outcome.reason]]
  <2>1. /\ outcome.winner \in Player /\ outcome.reason \in LossReason
        /\ outcome = [winner |-> outcome.winner, reason |-> outcome.reason]
    BY <1>3
  <2>2. out \in Wire!GameOutcomeV1
    BY <2>1, PlayerName, LossReasonName DEF Wire!GameOutcomeV1
  <2>3. /\ PlayerFromWire[out.winner] = outcome.winner
        /\ LossReasonFromWire[out.reason] = outcome.reason
    BY <2>1, PlayerName, LossReasonName
  <2>4. StatusToWire = [kind |-> "ended", outcome |-> out]
    BY <1>3 DEF StatusToWire
  <2>. HIDE DEF out
  <2>5. StatusToWire \in Wire!GameStatusV1 /\ StatusIsSupported(StatusToWire)
    BY <2>2, <2>4 DEF Wire!GameStatusV1, StatusIsSupported
  <2>6. StatusFromWire(StatusToWire)
    BY <1>3, <2>1, <2>3, <2>4 DEF StatusFromWire
  <2>. QED  BY <2>5, <2>6
<1>. QED  BY <1>1, <1>2, <1>3 DEF StatusType

-----------------------------------------------------------------------------
(* Effects.                                                                *)

DamageLeaf ==
  [kind : {"DealDamage"}, base : Nat,
   additions : Seq([condition : Condition, amount : Nat]),
   unincreasable : BOOLEAN, unpreventable : BOOLEAN]

LEMMA DamageSurvives ==
  ASSUME NEW l \in DamageLeaf
  PROVE  /\ DamageToWire(l) \in Wire!DamageEffectV1
         /\ DamageFromWire(DamageToWire(l)) = l
<1>. DEFINE from == l.additions
            w == DamageToWire(l).additions
            added == [condition : Condition, amount : Nat]
            sent == [amount : Nat, condition : Wire!EffectConditionV1]
            r == DamageFromWire(DamageToWire(l)).additions
<1>1. /\ from \in Seq(added) /\ l.base \in Nat /\ l.unincreasable \in BOOLEAN
      /\ l.unpreventable \in BOOLEAN
      /\ l = [kind |-> "DealDamage", base |-> l.base, additions |-> from,
              unincreasable |-> l.unincreasable, unpreventable |-> l.unpreventable]
  BY DEF DamageLeaf
<1>2. \A i \in DOMAIN from :
        /\ from[i].condition \in Condition /\ from[i].amount \in Nat
        /\ from[i] = [condition |-> from[i].condition, amount |-> from[i].amount]
  <2>1. \A i \in DOMAIN from : from[i] \in added
    BY <1>1, ElementOfSeq, LenProperties
  <2>. QED  BY <2>1
<1>3. /\ w = [i \in DOMAIN from |-> w[i]]
      /\ \A i \in DOMAIN from :
           w[i] = [amount |-> from[i].amount, condition |-> ConditionToWire[from[i].condition]]
  BY DEF DamageToWire
<1>4. DamageToWire(l) = [base |-> l.base,
                         constraints |-> [unincreasable |-> l.unincreasable,
                                          unpreventable |-> l.unpreventable],
                         additions |-> w]
  BY DEF DamageToWire
<1>5. DOMAIN w = DOMAIN from
  BY DEF DamageToWire
<1>6. /\ r = [i \in DOMAIN w |-> r[i]]
      /\ \A i \in DOMAIN w : r[i] = [condition |-> ConditionFromWire[w[i].condition],
                                     amount |-> w[i].amount]
      /\ DamageFromWire(DamageToWire(l)) =
           [kind |-> "DealDamage", base |-> l.base, additions |-> r,
            unincreasable |-> l.unincreasable, unpreventable |-> l.unpreventable]
  BY <1>4 DEF DamageFromWire
<1>. HIDE DEF w, r
<1>7. \A i \in DOMAIN from : w[i] \in sent
  <2>. SUFFICES ASSUME NEW i \in DOMAIN from
                PROVE  w[i] \in sent
    OBVIOUS
  <2>. DEFINE name == ConditionToWire[from[i].condition]
  <2>1. /\ w[i] = [amount |-> from[i].amount, condition |-> name]
        /\ from[i].amount \in Nat /\ name \in Wire!EffectConditionV1
    BY <1>2, <1>3, ConditionName
  <2>. HIDE DEF name, from
  <2>. QED  BY <2>1
<1>. HIDE DEF added, sent, from
<1>8. w \in Seq(sent)
  BY <1>1, <1>3, <1>7, WrittenList
<1>9. \A i \in DOMAIN from : r[i] = from[i]
  BY <1>2, <1>3, <1>5, <1>6, ConditionName
<1>10. from = r
  BY <1>1, <1>5, <1>6, <1>9, ReadList
<1>11. DamageToWire(l) \in Wire!DamageEffectV1
  BY <1>1, <1>4, <1>8 DEF sent, Wire!DamageEffectV1
<1>. QED  BY <1>1, <1>6, <1>10, <1>11

LEMMA LeafSurvives ==
  ASSUME NEW l \in EffectLeaf
  PROVE  LeafToWire(l) \in Wire!EffectLeafV1 /\ LeafFromWire(LeafToWire(l)) = l
<1>1. CASE l \in DamageLeaf
  <2>1. l.kind = "DealDamage"
    BY <1>1 DEF DamageLeaf
  <2>2. LeafToWire(l) = [kind |-> "deal_damage", damage |-> DamageToWire(l)]
    BY <2>1 DEF LeafToWire
  <2>3. LeafToWire(l) \in Wire!EffectLeafV1
    BY <1>1, <2>2, DamageSurvives DEF Wire!EffectLeafV1
  <2>4. LeafFromWire(LeafToWire(l)) = DamageFromWire(DamageToWire(l))
    BY <2>2 DEF LeafFromWire
  <2>. QED  BY <1>1, <2>3, <2>4, DamageSurvives
<1>2. CASE l \in [kind : {"Heal"}, amount : Nat, at : AimedAt]
  <2>1. /\ l.kind = "Heal" /\ l.amount \in Nat /\ l.at \in AimedAt
        /\ l = [kind |-> "Heal", amount |-> l.amount, at |-> l.at]
    BY <1>2
  <2>2. LeafToWire(l) = [kind |-> "heal", amount |-> l.amount, target |-> TargetToWire[l.at]]
    BY <2>1 DEF LeafToWire
  <2>. QED  BY <2>1, <2>2, TargetName DEF LeafFromWire, Wire!EffectLeafV1
<1>3. CASE l \in [kind : {"DrawCards"}, amount : Nat]
  <2>1. /\ l.kind = "DrawCards" /\ l.amount \in Nat
        /\ l = [kind |-> "DrawCards", amount |-> l.amount]
    BY <1>3
  <2>2. LeafToWire(l) = [kind |-> "draw_cards", amount |-> l.amount]
    BY <2>1 DEF LeafToWire
  <2>. QED  BY <2>1, <2>2 DEF LeafFromWire, Wire!EffectLeafV1
<1>4. CASE l \in [kind : {"ProduceMana", "CannotBeMovedByOpponent"}, at : AimedAt]
  <2>1. /\ l.kind \in {"ProduceMana", "CannotBeMovedByOpponent"} /\ l.at \in AimedAt
        /\ l = [kind |-> l.kind, at |-> l.at]
    BY <1>4
  <2>2. /\ TargetToWire[l.at] \in Wire!EffectTargetV1
        /\ TargetFromWire[TargetToWire[l.at]] = l.at
    BY <2>1, TargetName
  <2>3. CASE l.kind = "ProduceMana"
    <3>1. LeafToWire(l) = [kind |-> "produce_mana", target |-> TargetToWire[l.at]]
      BY <2>3 DEF LeafToWire
    <3>. QED  BY <2>1, <2>2, <2>3, <3>1 DEF LeafFromWire, Wire!EffectLeafV1
  <2>4. CASE l.kind = "CannotBeMovedByOpponent"
    <3>1. LeafToWire(l) = [kind |-> "cannot_be_moved_by_opponent",
                           target |-> TargetToWire[l.at]]
      BY <2>4 DEF LeafToWire
    <3>. QED  BY <2>1, <2>2, <2>4, <3>1 DEF LeafFromWire, Wire!EffectLeafV1
  <2>. QED  BY <2>1, <2>3, <2>4
<1>5. CASE l \in [kind : {"BlockResponses"}, condition : Condition]
  <2>1. /\ l.kind = "BlockResponses" /\ l.condition \in Condition
        /\ l = [kind |-> "BlockResponses", condition |-> l.condition]
    BY <1>5
  <2>2. LeafToWire(l) = [kind |-> "block_responses", condition |-> ConditionToWire[l.condition],
                         block |-> "attack_spells"]
    BY <2>1 DEF LeafToWire
  <2>. QED  BY <2>1, <2>2, ConditionName DEF LeafFromWire, Wire!EffectLeafV1
<1>6. CASE l \in [kind : {"MoveSummon", "SwapPositions", "SwapOpposingPositions",
                          "ReadySummon", "ReturnSpellFromDiscard",
                          "ReturnSpellToDeckTop", "LookAtPrizes"}]
  <2>. DEFINE names == {"MoveSummon", "SwapPositions", "SwapOpposingPositions",
                        "ReadySummon", "ReturnSpellFromDiscard",
                        "ReturnSpellToDeckTop", "LookAtPrizes"}
  <2>1. l.kind \in names /\ l = [kind |-> l.kind]
    BY <1>6
  <2>2. LeafToWire(l) = [kind |-> PlainLeaves[l.kind]]
    BY <2>1 DEF LeafToWire
  <2>3. /\ DOMAIN PlainLeaves = names
        /\ \A j, k \in names : PlainLeaves[j] = PlainLeaves[k] => j = k
        /\ \A k \in names :
             PlainLeaves[k] \in {"move_summon", "swap_positions", "swap_opposing_positions",
                                 "ready_summon", "return_spell_from_discard",
                                 "return_spell_to_deck_top", "look_at_prizes"}
    BY DEF PlainLeaves
  <2>4. LeafToWire(l) \in Wire!EffectLeafV1
    BY <2>1, <2>2, <2>3 DEF Wire!EffectLeafV1
  <2>. DEFINE named(x) == CHOOSE k \in DOMAIN PlainLeaves : PlainLeaves[k] = x
  <2>5. LeafFromWire(LeafToWire(l)) = [kind |-> named(PlainLeaves[l.kind])]
    <3>1. PlainLeaves[l.kind] \notin {"deal_damage", "heal", "block_responses", "draw_cards",
                                      "produce_mana", "cannot_be_moved_by_opponent"}
      BY <2>1, <2>3
    <3>2. ASSUME NEW v, v.kind \notin {"deal_damage", "heal", "block_responses", "draw_cards",
                                       "produce_mana", "cannot_be_moved_by_opponent"}
          PROVE  LeafFromWire(v) = [kind |-> named(v.kind)]
      BY <3>2 DEF LeafFromWire
    <3>3. LeafToWire(l).kind = PlainLeaves[l.kind]
      BY <2>2
    <3>. HIDE DEF named
    <3>. QED  BY <3>1, <3>2, <3>3
  <2>6. named(PlainLeaves[l.kind]) = l.kind
    <3>. HIDE DEF names
    <3>. QED  BY <2>1, <2>3
  <2>. QED  BY <2>1, <2>4, <2>5, <2>6
<1>. QED  BY <1>1, <1>2, <1>3, <1>4, <1>5, <1>6 DEF EffectLeaf, DamageLeaf

LEMMA LeavesSurvive ==
  ASSUME NEW leaves \in Seq(EffectLeaf)
  PROVE  /\ LeavesToWire(leaves) \in Seq(Wire!EffectLeafV1)
         /\ LeavesFromWire(LeavesToWire(leaves)) = leaves
<1>. DEFINE w == LeavesToWire(leaves)
            r == LeavesFromWire(w)
<1>1. \A i \in DOMAIN leaves : leaves[i] \in EffectLeaf
  BY ElementOfSeq, LenProperties
<1>2. /\ w = [i \in DOMAIN leaves |-> w[i]] /\ DOMAIN w = DOMAIN leaves
      /\ \A i \in DOMAIN leaves : w[i] = LeafToWire(leaves[i])
  BY DEF LeavesToWire
<1>. HIDE DEF w
<1>3. w \in Seq(Wire!EffectLeafV1)
  BY <1>1, <1>2, LeafSurvives, WrittenList
<1>4. r = [i \in DOMAIN leaves |-> r[i]] /\ \A i \in DOMAIN leaves : r[i] = LeafFromWire(w[i])
  BY <1>2 DEF LeavesFromWire
<1>. HIDE DEF r
<1>5. \A i \in DOMAIN leaves : r[i] = leaves[i]
  BY <1>1, <1>2, <1>4, LeafSurvives
<1>6. leaves = r
  BY <1>4, <1>5, ReadList
<1>. QED  BY <1>3, <1>6 DEF w, r

-----------------------------------------------------------------------------
(* The Stack and the work queue.                                           *)

LEMMA ItemSurvives ==
  ASSUME NEW item, Pushable(item)
  PROVE  ItemToWire(item) \in Wire!StackItemV1 /\ ItemFromWire(ItemToWire(item)) = item
<1>. DEFINE w == ItemToWire(item)
<1>1. CASE \E p \in Player : item = AttackItem(p)
  <2>1. PICK p \in Player : item = AttackItem(p)
    BY <1>1
  <2>2. item.kind = "Attack" /\ item.controller = p /\ item.targets = <<Main>>
    BY <2>1 DEF AttackItem, StackItem
  <2>3. w = [kind |-> "attack", attacker |-> PlayerToWire[p], target |-> PositionToWire(Main)]
    BY <2>2 DEF ItemToWire
  <2>. HIDE DEF w
  <2>4. Main \in Position
    BY DEF Position
  <2>5. w \in Wire!StackItemV1
    BY <2>3, <2>4, PlayerName, PositionSurvives DEF Wire!StackItemV1
  <2>6. ItemFromWire(w) = AttackItem(p)
    BY <2>3, <2>4, PlayerName, PositionSurvives DEF ItemFromWire, AttackItem
  <2>. QED  BY <2>1, <2>5, <2>6 DEF w
<1>2. CASE \E p \in Player, c \in CardInstance, targets \in Seq(Position) :
             item = SpellItem(p, c, targets)
  <2>1. PICK p \in Player, c \in CardInstance, targets \in Seq(Position) :
          item = SpellItem(p, c, targets)
    BY <1>2
  <2>2. /\ item.kind = "Spell" /\ item.controller = p /\ item.targets = targets
        /\ item.cards[1] = c
    BY <2>1 DEF SpellItem, StackItem
  <2>3. w = [kind |-> "spell", caster |-> PlayerToWire[p], card |-> c,
             targets |-> PositionsToWire(targets)]
    BY <2>2 DEF ItemToWire
  <2>. HIDE DEF w
  <2>4. w \in Wire!StackItemV1
    BY <2>3, PlayerName, PositionsSurvive DEF Wire!StackItemV1
  <2>5. ItemFromWire(w) = SpellItem(p, c, targets)
    BY <2>3, PlayerName, PositionsSurvive DEF ItemFromWire
  <2>. QED  BY <2>1, <2>4, <2>5 DEF w
<1>3. CASE \E p \in Player, q \in Position, targets \in Seq(Position),
              leaves \in Seq(EffectLeaf) :
             item = StackItem("Trigger", p, q, <<>>, targets, leaves)
  <2>1. PICK p \in Player, q \in Position, targets \in Seq(Position),
             leaves \in Seq(EffectLeaf) :
          item = StackItem("Trigger", p, q, <<>>, targets, leaves)
    BY <1>3
  <2>2. /\ item.kind = "Trigger" /\ item.controller = p /\ item.position = q
        /\ item.targets = targets /\ item.leaves = leaves
    BY <2>1 DEF StackItem
  <2>3. w = [kind |-> "trigger", controller |-> PlayerToWire[p], source |-> PositionToWire(q),
             targets |-> PositionsToWire(targets), effects |-> LeavesToWire(leaves)]
    BY <2>2 DEF ItemToWire
  <2>. HIDE DEF w
  <2>4. w \in Wire!StackItemV1
    BY <2>3, PlayerName, PositionSurvives, PositionsSurvive, LeavesSurvive DEF Wire!StackItemV1
  <2>5. ItemFromWire(w) = StackItem("Trigger", p, q, <<>>, targets, leaves)
    BY <2>3, PlayerName, PositionSurvives, PositionsSurvive, LeavesSurvive DEF ItemFromWire
  <2>. QED  BY <2>1, <2>4, <2>5 DEF w
<1>. QED  BY <1>1, <1>2, <1>3 DEF Pushable

LEMMA StackSurvives ==
  ASSUME IInv, StackType
  PROVE  /\ [i \in DOMAIN stack |-> ItemToWire(stack[i])] \in Seq(Wire!StackItemV1)
         /\ stack = [i \in DOMAIN [j \in DOMAIN stack |-> ItemToWire(stack[j])] |->
                       ItemFromWire([j \in DOMAIN stack |-> ItemToWire(stack[j])][i])]
<1>. DEFINE w == [i \in DOMAIN stack |-> ItemToWire(stack[i])]
            r == [i \in DOMAIN w |-> ItemFromWire(w[i])]
<1>1. stack \in Seq(ItemOf(OnStack)) /\ \A i \in DOMAIN stack : Pushable(stack[i])
  BY DEF IInv, ControlType, StackType
<1>2. /\ w = [i \in DOMAIN stack |-> w[i]] /\ DOMAIN w = DOMAIN stack
      /\ \A i \in DOMAIN stack : w[i] = ItemToWire(stack[i])
  OBVIOUS
<1>. HIDE DEF w
<1>3. w \in Seq(Wire!StackItemV1)
  BY <1>1, <1>2, ItemSurvives, WrittenList
<1>4. r = [i \in DOMAIN stack |-> r[i]] /\ \A i \in DOMAIN stack : r[i] = ItemFromWire(w[i])
  BY <1>2
<1>. HIDE DEF r
<1>5. \A i \in DOMAIN stack : r[i] = stack[i]
  BY <1>1, <1>2, <1>4, ItemSurvives
<1>6. stack = r
  BY <1>1, <1>4, <1>5, ReadList
<1>. QED  BY <1>3, <1>6 DEF w, r

LEMMA WorkSurvives ==
  ASSUME NEW item \in WorkItem
  PROVE  WorkToWire(item) \in Wire!WorkItemV1 /\ WorkFromWire(WorkToWire(item)) = item
<1>. DEFINE w == WorkToWire(item)
<1>1. CASE item \in [op : {"ReadyAll", "DrawCard", "BeginMainPhase"}]
  <2>1. item.op \in {"ReadyAll", "DrawCard", "BeginMainPhase"} /\ item = Step(item.op)
    BY <1>1 DEF Step
  <2>2. w = [kind |-> WorkToWireNames[item.op]]
    BY <2>1 DEF WorkToWire
  <2>3. /\ WorkToWireNames[item.op] \in {"ready_all", "draw_card", "begin_main_phase"}
        /\ WorkFromWireNames[WorkToWireNames[item.op]] = item.op
    BY <2>1 DEF WorkToWireNames, WorkFromWireNames
  <2>. HIDE DEF w
  <2>4. w \in Wire!WorkItemV1
    BY <2>2, <2>3 DEF Wire!WorkItemV1
  <2>5. WorkFromWire(w) = Step(item.op)
    <3>1. w.kind = WorkToWireNames[item.op]
      BY <2>2
    <3>. QED  BY <2>3, <3>1 DEF WorkFromWire
  <2>. QED  BY <2>1, <2>4, <2>5 DEF w
<1>2. CASE item \in [op : {"DestructionCheck", "DiscardDestroyedChain"}, position : Position]
  <2>1. /\ item.op \in {"DestructionCheck", "DiscardDestroyedChain"}
        /\ item.position \in Position /\ item = At(item.op, item.position)
    BY <1>2 DEF At
  <2>2. w = [kind |-> WorkToWireNames[item.op], position |-> PositionToWire(item.position)]
    BY <2>1 DEF WorkToWire
  <2>3. /\ WorkToWireNames[item.op] \in {"destruction_check", "discard_destroyed_chain"}
        /\ WorkFromWireNames[WorkToWireNames[item.op]] = item.op
    BY <2>1 DEF WorkToWireNames, WorkFromWireNames
  <2>. HIDE DEF w
  <2>4. w \in Wire!WorkItemV1
    BY <2>1, <2>2, <2>3, PositionSurvives DEF Wire!WorkItemV1
  <2>5. WorkFromWire(w) = At(item.op, item.position)
    <3>1. w.kind = WorkToWireNames[item.op] /\ w.position = PositionToWire(item.position)
      BY <2>2
    <3>. QED  BY <2>1, <2>3, <3>1, PositionSurvives DEF WorkFromWire
  <2>. QED  BY <2>1, <2>4, <2>5 DEF w
<1>3. CASE item \in [op : PlayerWork, player : Player]
  <2>1. /\ item.op \in PlayerWork /\ item.player \in Player
        /\ item = For(item.op, item.player)
    BY <1>3 DEF For
  <2>2. CASE item.op = "ProduceMana"
    <3>1. w = [kind |-> "produce_mana", player |-> PlayerToWire[item.player],
               source |-> ManaSourceToWire(Natural)]
      BY <2>2 DEF WorkToWire
    <3>. HIDE DEF w
    <3>2. ManaSourceToWire(Natural) \in Wire!ManaSourceV1
      BY ManaSourceSurvives
    <3>3. w \in Wire!WorkItemV1
      BY <2>1, <3>1, <3>2, PlayerName DEF Wire!WorkItemV1
    <3>4. WorkFromWire(w) = For("ProduceMana", item.player)
      BY <2>1, <3>1, PlayerName DEF WorkFromWire
    <3>. QED  BY <2>1, <2>2, <3>3, <3>4 DEF w
  <2>3. CASE item.op # "ProduceMana"
    <3>1. w = [kind |-> WorkToWireNames[item.op], player |-> PlayerToWire[item.player]]
      BY <2>1, <2>3 DEF WorkToWire, PlayerWork
    <3>2. /\ WorkToWireNames[item.op] \in {"record_main_loss", "recover_prize",
               "promote_bench_summon", "resolve_movement_consequences", "loss_check"}
          /\ WorkFromWireNames[WorkToWireNames[item.op]] = item.op
      BY <2>1, <2>3 DEF WorkToWireNames, WorkFromWireNames, PlayerWork
    <3>. HIDE DEF w
    <3>3. w \in Wire!WorkItemV1
      BY <2>1, <3>1, <3>2, PlayerName DEF Wire!WorkItemV1
    <3>4. WorkFromWire(w) = For(item.op, item.player)
      <4>1. w.kind = WorkToWireNames[item.op] /\ w.player = PlayerToWire[item.player]
        BY <3>1
      <4>. QED  BY <2>1, <3>2, <4>1, PlayerName DEF WorkFromWire
    <3>. QED  BY <2>1, <3>3, <3>4 DEF w
  <2>. QED  BY <2>2, <2>3
<1>4. CASE item \in [op : {"MovementTrigger"}, step : MovementSteps, player : Player,
                     position : Position]
  <2>1. /\ item.op = "MovementTrigger" /\ item.step \in MovementSteps
        /\ item.player \in Player /\ item.position \in Position
        /\ item = MovementTrigger(item.step, item.player, item.position)
    BY <1>4 DEF MovementTrigger
  <2>2. w = [kind |-> "movement_trigger", step |-> StepToWire[item.step],
             player |-> PlayerToWire[item.player], position |-> PositionToWire(item.position)]
    BY <2>1 DEF WorkToWire
  <2>. HIDE DEF w
  <2>3. w \in Wire!WorkItemV1
    BY <2>1, <2>2, StepName, PlayerName, PositionSurvives DEF Wire!WorkItemV1
  <2>4. WorkFromWire(w) = MovementTrigger(item.step, item.player, item.position)
    BY <2>1, <2>2, StepName, PlayerName, PositionSurvives DEF WorkFromWire
  <2>. QED  BY <2>1, <2>3, <2>4 DEF w
<1>5. CASE item \in [op : {"FireTrigger"}, player : Player, position : Position,
                     event : TriggerEvent, ability : STRING]
  <2>1. /\ item.op = "FireTrigger" /\ item.player \in Player /\ item.position \in Position
        /\ item.event \in TriggerEvent /\ item.ability \in STRING
        /\ item = FireTrigger(item.player, item.position, item.event, item.ability)
    BY <1>5 DEF FireTrigger
  <2>2. w = [kind |-> "fire_trigger", player |-> PlayerToWire[item.player],
             position |-> PositionToWire(item.position),
             event |-> TriggerEventToWire[item.event], ability |-> item.ability]
    BY <2>1 DEF WorkToWire
  <2>. HIDE DEF w
  <2>3. w \in Wire!WorkItemV1
    BY <2>1, <2>2, TriggerEventName, PlayerName, PositionSurvives DEF Wire!WorkItemV1
  <2>4. WorkFromWire(w) = FireTrigger(item.player, item.position, item.event, item.ability)
    BY <2>1, <2>2, TriggerEventName, PlayerName, PositionSurvives DEF WorkFromWire
  <2>. QED  BY <2>1, <2>3, <2>4 DEF w
<1>. QED  BY <1>1, <1>2, <1>3, <1>4, <1>5 DEF WorkItem

LEMMA QueueSurvives ==
  ASSUME IInv
  PROVE  /\ [i \in DOMAIN work |-> WorkToWire(work[i])] \in Seq(Wire!WorkItemV1)
         /\ work = [i \in DOMAIN [j \in DOMAIN work |-> WorkToWire(work[j])] |->
                      WorkFromWire([j \in DOMAIN work |-> WorkToWire(work[j])][i])]
<1>. DEFINE w == [i \in DOMAIN work |-> WorkToWire(work[i])]
            r == [i \in DOMAIN w |-> WorkFromWire(w[i])]
<1>1. work \in Seq(WorkItem) /\ \A i \in DOMAIN work : work[i] \in WorkItem
  BY ElementOfSeq, LenProperties DEF IInv, ControlType
<1>2. /\ w = [i \in DOMAIN work |-> w[i]] /\ DOMAIN w = DOMAIN work
      /\ \A i \in DOMAIN work : w[i] = WorkToWire(work[i])
  OBVIOUS
<1>. HIDE DEF w
<1>3. w \in Seq(Wire!WorkItemV1)
  BY <1>1, <1>2, WorkSurvives, WrittenList
<1>4. r = [i \in DOMAIN work |-> r[i]] /\ \A i \in DOMAIN work : r[i] = WorkFromWire(w[i])
  BY <1>2
<1>. HIDE DEF r
<1>5. \A i \in DOMAIN work : r[i] = work[i]
  BY <1>1, <1>2, <1>4, WorkSurvives
<1>6. work = r
  BY <1>1, <1>4, <1>5, ReadList
<1>. QED  BY <1>3, <1>6 DEF w, r

-----------------------------------------------------------------------------
(* The transcript.                                                         *)

\* Whatever the catalog prints, every printed leaf can be written and read.
LEMMA PrintedLeavesSurvive == LeavesSurviveTheLog
<1>1. ASSUME NEW leaves \in Seq(EffectLeaf), NEW l \in Range(leaves)
      PROVE  l \in EffectLeaf
  <2>1. PICK i \in DOMAIN leaves : l = leaves[i]
    BY DEF Range
  <2>. QED  BY <2>1, ElementOfSeq, LenProperties
<1>2. ASSUME NEW c \in CardInstance, NEW l \in LeavesOf(c)
      PROVE  l \in EffectLeaf
  <2>. DEFINE face == Face[c]
  <2>1. face \in CardFace
    BY FaceAssumption
  <2>2. PICK leaves \in {face.leaves, face.attackLeaves} \cup {s.leaves : s \in Range(face.skills)}
                          \cup {t.leaves : t \in PrintedTriggers(c)} :
          l \in Range(leaves)
    BY DEF LeavesOf
  <2>. HIDE DEF face
  <2>3. CASE leaves \in {face.leaves, face.attackLeaves}
    BY <1>1, <2>1, <2>2, <2>3, FaceFields
  <2>4. CASE \E s \in Range(face.skills) : leaves = s.leaves
    <3>1. PICK s \in Range(face.skills) : leaves = s.leaves
      BY <2>4
    <3>2. PICK i \in DOMAIN face.skills : s = face.skills[i]
      BY <3>1 DEF Range
    <3>3. face.skills[i] \in Skill
      BY <2>1, <3>2, FaceFields, ElementOfSeq, LenProperties
    <3>. QED  BY <1>1, <2>2, <3>1, <3>2, <3>3 DEF Skill
  <2>5. CASE \E t \in PrintedTriggers(c) : leaves = t.leaves
    <3>1. PICK e \in TriggerEvent :
            \E t \in Range(face.triggers[e]) : leaves = t.leaves
      BY <2>5 DEF PrintedTriggers, face
    <3>2. face.triggers[e] \in Seq(Ability)
      BY <2>1, <3>1, FaceFields
    <3>3. PICK i \in DOMAIN face.triggers[e] : leaves = face.triggers[e][i].leaves
      BY <3>1 DEF Range
    <3>4. face.triggers[e][i] \in Ability
      BY <3>2, <3>3, ElementOfSeq, LenProperties
    <3>. QED  BY <1>1, <2>2, <3>3, <3>4 DEF Ability
  <2>. QED  BY <2>2, <2>3, <2>4, <2>5
<1>. QED  BY <1>2, LeafSurvives DEF LeavesSurviveTheLog

LEMMA ProjectionSurvives ==
  ASSUME IInv, DataInv, LossInv, AtRest
  PROVE  /\ Projection \in Wire!StateProjectionV1
         /\ RebuildError(Projection) = "None"
         /\ IntoGameState(Projection)
<1>. DEFINE w == Projection
            items == [i \in DOMAIN stack |-> ItemToWire(stack[i])]
            queue == [i \in DOMAIN work |-> WorkToWire(work[i])]
<1>1. /\ w.players.one = SeatToWire("One") /\ w.players.two = SeatToWire("Two")
      /\ w.coin = coin /\ w.turn = TurnToWire /\ w.stack = items
      /\ w.stack_segment_bases = bases /\ w.work = queue
      /\ w.pending = PendingToWire(pending) /\ w.status = StatusToWire
  BY DEF Projection
<1>2. w = [players |-> [one |-> SeatToWire("One"), two |-> SeatToWire("Two")],
           coin |-> coin, turn |-> TurnToWire, stack |-> items,
           stack_segment_bases |-> bases, work |-> queue,
           pending |-> PendingToWire(pending), status |-> StatusToWire]
  BY DEF Projection
<1>3. \A p \in Player : /\ SeatToWire(p) \in Wire!PlayerStateV1
                        /\ \A v \in Places(SeatToWire(p)) : v.chain.layers # <<>>
                        /\ SeatFromWire(p, SeatToWire(p))
  BY SeatSurvives
<1>4. "One" \in Player /\ "Two" \in Player
  BY DEF Player
<1>5. TurnToWire \in Wire!TurnStateV1 /\ TurnFromWire(TurnToWire)
  BY TurnSurvives
<1>6. /\ items \in Seq(Wire!StackItemV1)
      /\ stack = [i \in DOMAIN items |-> ItemFromWire(items[i])]
  BY StackSurvives DEF DataInv
<1>7. /\ queue \in Seq(Wire!WorkItemV1)
      /\ work = [i \in DOMAIN queue |-> WorkFromWire(queue[i])]
  BY QueueSurvives
<1>8. /\ PendingToWire(pending) \in Wire!Optional(Wire!PendingInputV1)
      /\ pending = PendingFromWire(PendingToWire(pending))
  BY PendingSurvives DEF DataInv
<1>9. StatusToWire \in Wire!GameStatusV1 /\ StatusIsSupported(StatusToWire)
      /\ StatusFromWire(StatusToWire)
  BY StatusSurvives DEF DataInv
<1>10. bases \in Seq(Nat)
  <2>1. bases \in {<<>>, <<0>>}
    BY DEF IInv, ControlInv, SegmentsNeverNest
  <2>2. <<>> \in Seq(Nat) /\ <<0>> \in Seq(Nat)
    OBVIOUS
  <2>. QED  BY <2>1, <2>2, Zenon
<1>. HIDE DEF w, items, queue
<1>11. w \in Wire!StateProjectionV1
  <2>1. [one |-> SeatToWire("One"), two |-> SeatToWire("Two")] \in Wire!PlayersV1
    BY <1>3, <1>4 DEF Wire!PlayersV1
  <2>2. coin \in BOOLEAN
    BY DEF DataInv, PoolsType
  <2>. QED  BY <1>2, <1>5, <1>6, <1>7, <1>8, <1>9, <1>10, <2>1, <2>2 DEF Wire!StateProjectionV1
<1>12. RebuildError(w) = "None"
  BY <1>1, <1>3, <1>4, <1>9 DEF RebuildError, ChainsHaveBases
<1>13. IntoGameState(w)
  <2>1. resolving = Idle
    BY DEF AtRest
  <2>. QED  BY <1>1, <1>3, <1>4, <1>5, <1>6, <1>7, <1>8, <1>9, <2>1 DEF IntoGameState
<1>. QED  BY <1>11, <1>12, <1>13 DEF w

(***************************************************************************)
(* What a transcript records of a match, once it rests, rebuilds to that   *)
(* match: every recorded value is one the wire can carry (three losses fit *)
(* the byte of main_losses, no pool is below zero), into_game_state never  *)
(* refuses it, and nothing is lost, for every catalog whose cards print    *)
(* well-formed values (match-log: from_state and into_game_state of        *)
(* state.rs, state/work.rs).                                               *)
(***************************************************************************)
THEOREM StateSurvivesTheLogAlways ==
  NobodyHasLostYet => (Spec => []StateSurvivesTheLog)
<1>1. IInv /\ DataInv /\ LossInv => StateSurvivesTheLog
  BY PrintedLeavesSurvive, ProjectionSurvives DEF StateSurvivesTheLog
<1>. QED  BY <1>1, DataInvariant, LossesAlways, PTL
=============================================================================
