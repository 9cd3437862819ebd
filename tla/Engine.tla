------------------------------- MODULE Engine -------------------------------
(***************************************************************************)
(* The deterministic rules engine (crates/core): one match, two players    *)
(* who submit actions, and the resolution loop that carries out their      *)
(* consequences.                                                           *)
(***************************************************************************)
EXTENDS Resolution

PlayerAction(p) ==
  \/ \E c \in CardInstance, slot \in Bench : PlaySummon(p, c, slot)
  \/ \E c \in CardInstance, q \in Position : UpgradeSummon(p, c, q)
  \/ \E c \in CardInstance, targets \in TargetChoices, hint \in Hint :
       CastSpell(p, c, targets, hint)
  \/ \E q \in Position, targets \in TargetChoices, hint \in Hint :
       \E i \in (IF Occupied(p, q) THEN DOMAIN FaceAt(p, q).skills ELSE {}) :
         ActivateSkill(p, q, i, targets, hint)
  \/ \E slot \in Bench, hint \in Hint : Retreat(p, slot, hint)
  \/ \E hint \in Hint : DeclareAttack(p, hint)
  \/ EndTurn(p)
  \/ PassPriority(p)
  \/ \E t \in ManaType : ConvertCoin(p, t) \/ ChooseManaType(p, t)
  \/ \E slot \in Bench : ChoosePromotion(p, slot)
  \/ \E i \in DOMAIN prizes[Opponent(p)] : ChoosePrize(p, i)
  \/ Resign(p)

Next == DrainStep \/ \E p \in Player : PlayerAction(p)

(***************************************************************************)
(* The resolution loop runs inside apply, so it never stops half way; no   *)
(* player is obliged to act.                                               *)
(***************************************************************************)
Spec == Init /\ [][Next]_vars /\ WF_vars(DrainStep)

-----------------------------------------------------------------------------
(* Types.                                                                  *)

PlayerWork == {"RecordMainLoss", "RecoverPrize", "PromoteBenchSummon",
               "ResolveMovementConsequences", "LossCheck", "ProduceMana"}
MovementSteps == {"LeavingMain", "EnteringBench", "LeavingBench", "EnteringMain"}

WorkItem ==
  [op : {"ReadyAll", "DrawCard", "BeginMainPhase"}]
  \cup [op : {"DestructionCheck", "DiscardDestroyedChain"}, position : Position]
  \cup [op : PlayerWork, player : Player]
  \cup [op : {"MovementTrigger"}, step : MovementSteps, player : Player,
        position : Position]
  \cup [op : {"FireTrigger"}, player : Player, position : Position,
        event : TriggerEvent, ability : STRING]

Piles == [Player -> Seq(CardInstance)]

TypeOK ==
  /\ status \in {"Playing", "Ended", "Broken"}
  /\ active \in Player /\ phase \in Phase
  /\ window \in [holder : Player, priorPass : BOOLEAN] \cup {NoWindow}
  /\ attackUsed \in BOOLEAN /\ retreatUsed \in BOOLEAN
  /\ spellPlayed \in [Player -> BOOLEAN]
  /\ stack \in Seq(ItemOf(OnStack))
  /\ resolving \in ItemOf(OnStack \cup OffStack) \cup {Idle}
  /\ bases \in Seq(Nat)
  /\ work \in Seq(WorkItem)
  /\ pending = NoPending \/ pending.player \in Player
  /\ board \in [Player -> [Position -> SummonInstance \cup {NoSummon}]]
  /\ deck \in Piles /\ hand \in Piles /\ prizes \in Piles
  /\ discard \in Piles /\ enchantments \in Piles
  /\ mana \in [Player -> Bank] /\ coin \in BOOLEAN /\ losses \in [Player -> Nat]

-----------------------------------------------------------------------------
(* Control: the Stack, its segments, the window, the work queue.           *)

Quiet == AtRest /\ ~MatchOver /\ pending = NoPending /\ window = NoWindow

(***************************************************************************)
(* Stack segments never nest: a respondable trigger can only fire from the *)
(* work queue, which the loop reaches over an empty Stack, so there is at  *)
(* most one base and it is 0; and it is dropped with the item that settles *)
(* the segment.  GameState.stack_segment_bases is a Vec for a nesting that *)
(* does not happen; stack::pass relies on the second half.                 *)
(***************************************************************************)
SegmentsNeverNest ==
  /\ bases \in {<<>>, <<0>>}
  /\ bases # <<>> => stack # <<>> \/ (resolving # Idle /\ FromStack)

(***************************************************************************)
(* A paused decision and an open window exclude each other, and neither    *)
(* exists while effects are being applied except a decision one of those   *)
(* effects just asked for: required_actor never has to rank the two.       *)
(***************************************************************************)
OneActorAtATime ==
  /\ pending = NoPending \/ window = NoWindow
  /\ resolving # Idle => window = NoWindow

(***************************************************************************)
(* A window over an empty Stack is the end-of-turn window and nothing      *)
(* else: no work is left over and no segment is open, so the handover that *)
(* closing it triggers starts the next Upkeep from a clean queue.          *)
(***************************************************************************)
HandoverIsClean ==
  window # NoWindow /\ stack = <<>> =>
    work = <<>> /\ bases = <<>> /\ phase # "Upkeep" /\ resolving = Idle

(***************************************************************************)
(* A match resting on nobody's decision and no window is in a free Main or *)
(* Combat Phase with no segment open: the active player can always end the *)
(* turn (turn::end_turn) and is never stuck in an Upkeep.                  *)
(***************************************************************************)
QuietIsPlayable ==
  Quiet => phase # "Upkeep" /\ stack = <<>> /\ bases = <<>>

(***************************************************************************)
(* The advance into Main is queued exactly while the turn is in Upkeep,    *)
(* and once: whatever an Upkeep trigger, a Mana choice or a response       *)
(* window puts in between, the phase moves on neither early nor twice.     *)
(***************************************************************************)
MainPhaseIsQueuedOnce ==
  LET advances == {i \in DOMAIN work : work[i].op = "BeginMainPhase"} IN
  IF phase = "Upkeep" THEN Cardinality(advances) = 1 ELSE advances = {}

(***************************************************************************)
(* The step that enters the Main Phase finds the rest of Upkeep done:      *)
(* "the Main Phase is reached only once every other Upkeep step above has  *)
(* drained" (turn::handover).                                              *)
(***************************************************************************)
UpkeepWork == {"ReadyAll", "DrawCard", "ProduceMana"}
MainPhaseFollowsUpkeep ==
  [][phase = "Upkeep" /\ phase' = "Main" =>
       \A i \in DOMAIN work' : work'[i].op \notin UpkeepWork]_vars

(***************************************************************************)
(* Together: a turn enters its Main Phase once, when its Upkeep is done.   *)
(***************************************************************************)
UpkeepIsFinished == []MainPhaseIsQueuedOnce /\ MainPhaseFollowsUpkeep

-----------------------------------------------------------------------------
(* Data: destruction, Prizes, cards.                                       *)

(***************************************************************************)
(* Every paused decision has an answer: a Type to choose, a Benched Summon *)
(* to promote, a Prize to pick.  Nothing else could be accepted, so a      *)
(* decision without an answer would leave only resigning.                  *)
(***************************************************************************)
PendingIsAnswerable ==
  /\ pending.kind = "ManaProduction" =>
       AvailableTypes(pending.player, pending.source) # {}
  /\ pending.kind = "Promotion" => OccupiedBench(pending.player) # {}
  /\ pending.kind = "PrizePick" => prizes[Opponent(pending.player)] # <<>>

(***************************************************************************)
(* A third Main loss is never survived: while the match goes on, the check *)
(* that ends it is queued, whatever windows and decisions come first.      *)
(***************************************************************************)
ThirdLossIsDecided ==
  \A p \in Player :
    losses[p] >= 3 /\ ~MatchOver =>
      \E i \in DOMAIN work : work[i] = For("LossCheck", p)

(***************************************************************************)
(* "The Main position can never voluntarily remain empty" (rules section   *)
(* 27): nobody gets a free Main or Combat Phase while a Main is empty.     *)
(***************************************************************************)
MainHeldWhenQuiet ==
  Quiet => \A p \in Player : Occupied(p, Main)

(***************************************************************************)
(* Rules section 23: a Summon whose Damage reached its Life is destroyed;  *)
(* it is never left in play once the loop has settled.                     *)
(***************************************************************************)
NoneOverDamagedWhenQuiet ==
  Quiet => \A p \in Player, q \in Position : ~IsDestroyed(p, q)

(***************************************************************************)
(* Together: the board is whole whenever the players are back in charge,   *)
(* whatever chains of destruction the last action set off.                 *)
(***************************************************************************)
BoardIsWholeWhenQuiet == MainHeldWhenQuiet /\ NoneOverDamagedWhenQuiet

(***************************************************************************)
(* Cards are moved, never lost or copied: every card of the match is in    *)
(* exactly one place (a zone, a chain in play, the Stack, or the Spell     *)
(* being resolved).                                                        *)
(***************************************************************************)
BoardCards(p) ==
  board[p][Main].chain \o board[p][1].chain \o board[p][2].chain
    \o board[p][3].chain
ZoneCards(p) ==
  BoardCards(p) \o deck[p] \o hand[p] \o prizes[p] \o discard[p]
    \o enchantments[p]
StackCards ==
  FlattenSeq([i \in DOMAIN stack |-> stack[i].cards])
    \o (IF resolving = Idle THEN <<>> ELSE resolving.cards)
AllCards == ZoneCards("One") \o ZoneCards("Two") \o StackCards

CardsAreConserved ==
  Range(AllCards) = CardInstance /\ Len(AllCards) = Cardinality(CardInstance)

(***************************************************************************)
(* Every path onto Main announces the arrival: the same EnteringMain step, *)
(* or the consequences step of a destruction that will queue it.  It is    *)
(* the only place the arrival of the turn is recorded.                     *)
(***************************************************************************)
Arrives(p) ==
  /\ board[p][Main]' # NoSummon
  /\ board[p][Main] = NoSummon
       \/ board[p][Main].chain[1] # (board[p][Main].chain[1])'

MainArrivalIsAnnounced ==
  [][\A p \in Player : Arrives(p) =>
       \E i \in DOMAIN work' :
         work'[i] \in { MovementTrigger("EnteringMain", p, Main),
                        For("ResolveMovementConsequences", p) }]_vars

(***************************************************************************)
(* A marked Main is not moved by the opponent (rules section 44): during   *)
(* the opponent's turn it leaves Main only by being destroyed.             *)
(***************************************************************************)
MarkedMainHolds ==
  [][\A p \in Player :
       p # active /\ Occupied(p, Main) /\ board[p][Main].marked =>
         (board[p][Main].chain)' \in {board[p][Main].chain, <<>>}]_vars

(***************************************************************************)
(* The marker survives the opposing turn and no longer: it is gone when    *)
(* its holder's next turn begins.                                          *)
(***************************************************************************)
MarkerExpires ==
  phase = "Upkeep" =>
    \A q \in Position : Occupied(active, q) => ~board[active][q].marked

(***************************************************************************)
(* Together: the marker protects its Summon through one opposing turn, the *)
(* whole of it and no other.                                               *)
(***************************************************************************)
MarkerHoldsOneTurn == []MarkerExpires /\ MarkedMainHolds

-----------------------------------------------------------------------------
(* What a comment or a rule says of the same machinery.                    *)

\* promote_from_slot: "Move the Bench Summon at `slot` to the empty Main".
\* No promotion replaces a Summon that is still in Main.
PromotesIntoEmptyMain ==
  [][\A p \in Player :
       /\ work # <<>> /\ Item = For("PromoteBenchSummon", p)
       /\ work' = Rest /\ board' # board
       => ~Occupied(p, Main)]_vars

-----------------------------------------------------------------------------
(* Progress and refinement.                                                *)

(***************************************************************************)
(* The resolution loop always settles: every accepted action reaches a     *)
(* state some player can act in, or the end of the match.                  *)
(***************************************************************************)
LoopSettles == ~AtRest ~> AtRest

(***************************************************************************)
(* The engine implements the turn protocol.                                *)
(***************************************************************************)
Turns == INSTANCE TurnProtocol
           WITH player <- active, stage <- phase, over <- MatchOver
FollowsTurnProtocol == Turns!Spec
=============================================================================
