------------------------------ MODULE Actions ------------------------------
(***************************************************************************)
(* The player's side of the transition: engine::apply and the handlers it  *)
(* dispatches to (engine/apply, stack, turn, skills, board and the two     *)
(* answers of engine/destruction).  Each action is one accepted            *)
(* GameAction up to the point where the resolution loop takes over; a      *)
(* rejected action leaves the match untouched and is not a step.           *)
(***************************************************************************)
EXTENDS GameState

(***************************************************************************)
(* The actor gate: a pending decision names the only legal actor, then an  *)
(* open window its holder, then the active player.                         *)
(***************************************************************************)
RequiredActor ==
  IF pending # NoPending THEN pending.player
  ELSE IF window # NoWindow THEN window.holder
  ELSE active

MayAct(p) == AtRest /\ ~MatchOver /\ p = RequiredActor

FreeMainPhase == pending = NoPending /\ phase = "Main" /\ window = NoWindow

RestingInOwnMain(p) == window = NoWindow /\ phase = "Main" /\ p = active
HoldsPriority(p) == window # NoWindow /\ window.holder = p

InHand(p, c) == Contains(hand[p], c)
\* Faulty variant: the played card stays in hand.
HandKept(p, c) == hand
WithoutCard(p, c) == [hand EXCEPT ![p] = RemoveFirst(@, c)]

-----------------------------------------------------------------------------
(* engine/board: play, upgrade, retreat.                                   *)

PlaySummon(p, c, slot) ==
  /\ MayAct(p) /\ FreeMainPhase
  /\ ~Occupied(p, slot)
  /\ InHand(p, c) /\ IsSummon(c) /\ Face[c].form = 1
  /\ hand' = WithoutCard(p, c)
  /\ board' = [board EXCEPT ![p][slot] =
                 NewSummon(p, <<c>>, 0, FALSE, "PlayedThisTurn")]
  /\ UNCHANGED <<statusVars, turnVars, stackVars, work, pending, resolving,
                 deck, prizes, discard, enchantments, poolVars>>

\* The Form strictly climbs and every Type of the current top carries over.
UpgradeAllowed(p, c, q) ==
  /\ board[p][q].upgrade = "Available"
  /\ IsSummon(c)
  /\ Face[c].form > FaceAt(p, q).form
  /\ FaceAt(p, q).produces \subseteq Face[c].produces

\* The new top joins the chain; Damage, marker and arrival are kept.
Upgraded(summon, c) ==
  [summon EXCEPT !.chain = Append(summon.chain, c), !.ready = FALSE,
                 !.upgrade = "UpgradedThisTurn"]

UpgradeSummon(p, c, q) ==
  /\ MayAct(p) /\ FreeMainPhase
  /\ Occupied(p, q) /\ InHand(p, c)
  /\ UpgradeAllowed(p, c, q)
  /\ hand' = WithoutCard(p, c)
  /\ board' = [board EXCEPT ![p][q] = Upgraded(board[p][q], c)]
  /\ UNCHANGED <<statusVars, turnVars, stackVars, work, pending, resolving,
                 deck, prizes, discard, enchantments, poolVars>>

\* The printed Retreat Cost raised by the passives of every opposing Summon,
\* never below zero.
RetreatCost(p) ==
  LET o == Opponent(p)
      passives == [i \in 1 .. 4 |->
                     IF Occupied(o, i - 1) THEN FaceAt(o, i - 1).retreatDelta ELSE 0]
      delta == SumOf(passives)
      printed == FaceAt(p, Main).retreat + delta
  IN [Free EXCEPT !.generic = IF printed > 0 THEN printed ELSE 0]

\* The board after p's Main and the Bench slot exchange their Summons.
Exchanged(p, slot) ==
  [board EXCEPT ![p][Main] = board[p][slot], ![p][slot] = board[p][Main]]

Retreat(p, slot, hint) ==
  /\ MayAct(p) /\ FreeMainPhase
  /\ ~retreatUsed
  /\ Occupied(p, Main) /\ Occupied(p, slot)
  /\ FaceAt(p, Main).retreat # NoRetreat
  /\ Affords(mana[p], RetreatCost(p), hint)
  /\ retreatUsed' = TRUE
  /\ mana' = [mana EXCEPT ![p] = Paid(@, RetreatCost(p), hint)]
  /\ board' = Exchanged(p, slot)
  /\ work' = work \o ExchangeSteps(p, slot)
  /\ UNCHANGED <<statusVars, active, phase, window, attackUsed, spellPlayed,
                 stackVars, pending, resolving, pileVars, coin, losses>>

-----------------------------------------------------------------------------
(* engine/skills: activation, with its eager target validation.            *)

\* MoveSummon needs an occupied Bench source and an empty Bench destination;
\* the two exchanges need a Main and the named Bench slot, and the opposing
\* one a Main that is not marked.
LegalLeafTarget(p, leaf, targets) ==
  CASE leaf.kind = "MoveSummon" ->
         /\ Len(targets) >= 2
         /\ targets[1] \in Bench /\ targets[2] \in Bench
         /\ Occupied(p, targets[1]) /\ ~Occupied(p, targets[2])
    [] leaf.kind = "SwapPositions" ->
         /\ targets # <<>> /\ targets[1] \in Bench
         /\ Occupied(p, targets[1]) /\ Occupied(p, Main)
    [] leaf.kind = "SwapOpposingPositions" ->
         /\ targets # <<>> /\ targets[1] \in Bench
         /\ Occupied(Opponent(p), targets[1])
         /\ Occupied(Opponent(p), Main)
         /\ ~board[Opponent(p)][Main].marked
    [] OTHER -> TRUE

\* The Summon is Exhausted and the cost paid before the Skill resolves; its
\* effects are then applied at once, without the Stack.
ActivateSkill(p, q, i, targets, hint) ==
  /\ MayAct(p) /\ FreeMainPhase
  /\ Occupied(p, q) /\ board[p][q].ready
  /\ i \in DOMAIN FaceAt(p, q).skills
  /\ LET skill == FaceAt(p, q).skills[i] IN
       /\ \A n \in DOMAIN skill.leaves :
            LegalLeafTarget(p, skill.leaves[n], targets)
       /\ Affords(mana[p], skill.cost, hint)
       /\ mana' = [mana EXCEPT ![p] = Paid(@, skill.cost, hint)]
       /\ board' = [board EXCEPT ![p][q].ready = FALSE]
       /\ resolving' = StackItem("Skill", p, q, <<>>, targets, skill.leaves)
  /\ UNCHANGED <<statusVars, turnVars, stackVars, work, pending, pileVars,
                 coin, losses>>

-----------------------------------------------------------------------------
(* engine/stack: the attack, Spells and Priority.                          *)

\* A normal attack targets the opposing Main only, needs no Ready Summon,
\* begins Combat and hands Priority to the defender.
DeclareAttack(p, hint) ==
  /\ MayAct(p)
  /\ pending = NoPending /\ ~attackUsed
  /\ phase = "Main" /\ window = NoWindow
  /\ Occupied(p, Main) /\ FaceAt(p, Main).attacks
  /\ Affords(mana[p], FaceAt(p, Main).attackCost, hint)
  /\ attackUsed' = TRUE
  /\ phase' = "Combat"
  /\ window' = WindowAfterPlay(p)
  /\ stack' = Append(stack, AttackItem(p))
  /\ mana' = [mana EXCEPT ![p] = Paid(@, FaceAt(p, Main).attackCost, hint)]
  /\ UNCHANGED <<statusVars, active, retreatUsed, spellPlayed, bases, work,
                 pending, resolving, board, pileVars, coin, losses>>

(***************************************************************************)
(* The nearest Attack of the current segment blocks Attack Spells while    *)
(* one of its BlockResponses conditions holds.  The attacker's effects are *)
(* read now; an attacker that left Main blocks nothing.                    *)
(***************************************************************************)
AttackResponsesBlocked ==
  LET attacks == {i \in DOMAIN stack :
                    i > CurrentBase /\ stack[i].kind = "Attack"}
      item == stack[Max(attacks)]
      p == item.controller
  IN /\ attacks # {}
     /\ Occupied(p, Main) /\ FaceAt(p, Main).attacks
     /\ \E leaf \in Range(FaceAt(p, Main).attackLeaves) :
          /\ leaf.kind = "BlockResponses"
          /\ ConditionHolds(leaf.condition, p, item.targets)

LegalTiming(p, c) ==
  IF Timing(c) = "Attack"
  THEN HoldsPriority(p) /\ ~AttackResponsesBlocked
  ELSE RestingInOwnMain(p) \/ HoldsPriority(p)

\* The targets a Spell is cast with are not inspected.
CastSpell(p, c, targets, hint) ==
  /\ MayAct(p)
  /\ pending = NoPending
  /\ InHand(p, c) /\ IsCastable(c)
  /\ LegalTiming(p, c)
  /\ Affords(mana[p], Face[c].cost, hint)
  /\ window' = WindowAfterPlay(p)
  /\ spellPlayed' = [spellPlayed EXCEPT ![p] = TRUE]
  /\ stack' = Append(stack, SpellItem(p, c, targets))
  /\ mana' = [mana EXCEPT ![p] = Paid(@, Face[c].cost, hint)]
  /\ hand' = WithoutCard(p, c)
  /\ UNCHANGED <<statusVars, active, phase, attackUsed, retreatUsed, bases,
                 work, pending, resolving, board, deck, prizes, discard,
                 enchantments, coin, losses>>

-----------------------------------------------------------------------------
(* engine/turn: ending the turn, the handover, the Coin, Mana choices.     *)

\* Faulty variant: a paused decision does not stop the turn from ending.
NoWindowOpen == window = NoWindow
NothingOpen == pending = NoPending /\ window = NoWindow

EndTurn(p) ==
  /\ MayAct(p)
  /\ NothingOpen
  /\ phase \in {"Main", "Combat"} /\ p = active
  /\ window' = WindowAfterPlay(p)
  /\ UNCHANGED <<statusVars, active, phase, onceVars, stackVars, work,
                 pending, resolving, board, pileVars, poolVars>>

\* The new turn's per-turn facts: every Summon's record is fresh, and the
\* marker expires on the board of the player becoming active.
FreshTurn(summon, expires) ==
  IF summon = NoSummon THEN NoSummon
  ELSE [summon EXCEPT !.upgrade = "Available", !.enteredMain = FALSE,
                      !.marked = summon.marked /\ ~expires]

BoardAtHandover(next) ==
  [p \in Player |-> [q \in Position |-> FreshTurn(board[p][q], p = next)]]

\* Faulty variants: Main begins before the draw, or never.
UpkeepStepsMainFirst(next) ==
  << Step("ReadyAll") >> \o Candidates(next, "YourUpkeep")
    \o << Step("BeginMainPhase"), Step("DrawCard"), For("ProduceMana", next) >>
UpkeepStepsWithoutMain(next) ==
  << Step("ReadyAll") >> \o Candidates(next, "YourUpkeep")
    \o << Step("DrawCard"), For("ProduceMana", next) >>

UpkeepSteps(next) ==
  << Step("ReadyAll") >> \o Candidates(next, "YourUpkeep")
    \o << Step("DrawCard"), For("ProduceMana", next), Step("BeginMainPhase") >>

\* Faulty variant: the turn does not pass.
SamePlayer == active
NextPlayer == Opponent(active)

Handover ==
  LET next == NextPlayer IN
  /\ active' = next
  /\ phase' = "Upkeep"
  /\ window' = NoWindow
  /\ attackUsed' = FALSE /\ retreatUsed' = FALSE
  /\ spellPlayed' = [p \in Player |-> FALSE]
  /\ board' = BoardAtHandover(next)
  /\ work' = work \o UpkeepSteps(next)
  /\ UNCHANGED <<statusVars, stackVars, pending, resolving, pileVars, poolVars>>

MovePriority(p) ==
  /\ ~window.priorPass
  /\ window' = [holder |-> Opponent(p), priorPass |-> TRUE]
  /\ UNCHANGED <<statusVars, active, phase, onceVars, stackVars, work,
                 pending, resolving, board, pileVars, poolVars>>

CloseWindow ==
  /\ window.priorPass /\ stack # <<>>
  /\ window' = NoWindow
  /\ UNCHANGED <<statusVars, active, phase, onceVars, stackVars, work,
                 pending, resolving, board, pileVars, poolVars>>

\* The second pass in a row closes the window; over an empty Stack it is
\* the end of the turn.
PassPriority(p) ==
  /\ MayAct(p)
  /\ pending = NoPending /\ HoldsPriority(p)
  /\ \/ MovePriority(p)
     \/ CloseWindow
     \/ window.priorPass /\ stack = <<>> /\ Handover

ConvertCoin(p, t) ==
  /\ MayAct(p)
  /\ pending = NoPending
  /\ RestingInOwnMain(p) \/ HoldsPriority(p)
  /\ p = "Two" /\ coin
  /\ t \in AvailableTypes(p, Natural)
  /\ coin' = FALSE
  /\ mana' = Banked(p, t)
  /\ UNCHANGED <<statusVars, turnVars, stackVars, work, pending, resolving,
                 board, pileVars, losses>>

ChooseManaType(p, t) ==
  /\ MayAct(p)
  /\ pending.kind = "ManaProduction" /\ pending.player = p
  /\ t \in AvailableTypes(p, pending.source)
  /\ pending' = NoPending
  /\ mana' = Banked(p, t)
  /\ UNCHANGED <<statusVars, turnVars, stackVars, work, resolving, board,
                 pileVars, coin, losses>>

-----------------------------------------------------------------------------
(* engine/destruction: the two answers; engine/apply: resigning.           *)

\* promote_from_slot: whatever Main holds is replaced.
Promoted(p, slot) ==
  [board EXCEPT ![p][Main] = board[p][slot], ![p][slot] = NoSummon]

ChoosePromotion(p, slot) ==
  /\ MayAct(p)
  /\ pending = Promotion(p)
  /\ Occupied(p, slot)
  /\ board' = Promoted(p, slot)
  /\ pending' = NoPending
  /\ UNCHANGED <<statusVars, turnVars, stackVars, work, resolving, pileVars,
                 poolVars>>

\* The chooser picks for the opponent, who recovers the Prize.
ChoosePrize(p, i) ==
  LET recovering == Opponent(p) IN
  /\ MayAct(p)
  /\ pending = PrizePick(p)
  /\ i \in DOMAIN prizes[recovering]
  /\ prizes' = [prizes EXCEPT ![recovering] = RemoveAt(@, i)]
  /\ hand' = [hand EXCEPT ![recovering] = Append(@, prizes[recovering][i])]
  /\ pending' = NoPending
  /\ UNCHANGED <<statusVars, turnVars, stackVars, work, resolving, board,
                 deck, discard, enchantments, poolVars>>

Ending(loser, reason) ==
  /\ status' = "Ended"
  /\ outcome' = [winner |-> Opponent(loser), reason |-> reason]

\* Either player may resign whenever an action could be accepted; neither
\* the actor gate nor the resolution loop is involved.
Resign(p) ==
  /\ AtRest /\ ~MatchOver
  /\ Ending(p, "Resignation")
  /\ UNCHANGED <<turnVars, stackVars, work, pending, resolving, board,
                 pileVars, poolVars>>
=============================================================================
