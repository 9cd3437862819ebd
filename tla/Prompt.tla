------------------------------- MODULE Prompt -------------------------------
(***************************************************************************)
(* What the host shows each player (crates/cli/src/protocol.rs), and the   *)
(* guided prompt of the terminal client (crates/cli/src/prompt.rs): a      *)
(* numbered menu and the forms behind it, which turn a player's lines into *)
(* one action, from nothing but the view that player was sent.  A line is  *)
(* its number; cancelling, revisions and giving up are in Client.          *)
(*                                                                         *)
(* A view is the match value reduced to one seat's; a description is what  *)
(* a card prints, its wording is left out.  The zones that hold cards a    *)
(* player may not know are an argument, z, so that a view can be compared  *)
(* with the view of other hidden cards.                                    *)
(***************************************************************************)
EXTENDS Engine

-----------------------------------------------------------------------------
(* The view.                                                               *)

Zones == [hand |-> hand, deck |-> deck, prizes |-> prizes]

CardDescription(c) == Face[c]
CardDescriptions(cards) == [i \in DOMAIN cards |-> CardDescription(cards[i])]

\* The viewer's own hand, with the instances an action names.
HandView(p, z) ==
  [i \in DOMAIN z.hand[p] |->
     [instance |-> z.hand[p][i], card |-> CardDescription(z.hand[p][i])]]

SummonView(p, summon) ==
  IF summon = NoSummon THEN NoSummon
  ELSE [chain |-> CardDescriptions(summon.chain), damage |-> summon.damage,
        readiness |-> IF summon.ready THEN "ready" ELSE "exhausted",
        owner |-> summon.owner, controller |-> p]

PublicPlayer(p, z) ==
  [board |-> [q \in Position |-> SummonView(p, board[p][q])],
   mana |-> mana[p], main_losses |-> losses[p],
   discard |-> CardDescriptions(discard[p]),
   persistent |-> CardDescriptions(enchantments[p]),
   deck_count |-> Len(z.deck[p]), prize_count |-> Len(z.prizes[p]),
   hand_count |-> Len(z.hand[p])]

\* A Spell shows its card, an ability its effects; targets are positions.
StackView(item) ==
  [kind |-> item.kind, player |-> item.controller,
   cards |-> CardDescriptions(item.cards), targets |-> item.targets,
   source |-> item.position, effects |-> item.leaves]

\* Whose decision it is, and of which kind; a production's source is not told.
PendingView ==
  IF pending = NoPending THEN [kind |-> "None", owner |-> "Nobody"]
  ELSE [kind |-> pending.kind, owner |-> pending.player]

\* A Broken match has no outcome to show.
OutcomeView == IF status = "Ended" THEN outcome ELSE NoOutcome

PlayerViewOf(p, z) ==
  [you |-> p, hand |-> HandView(p, z),
   players |-> [o \in Player |-> PublicPlayer(o, z)],
   coin |-> coin, stack |-> [i \in DOMAIN stack |-> StackView(stack[i])],
   phase |-> phase, active_player |-> active, priority_holder |-> window.holder,
   pending |-> PendingView, outcome |-> OutcomeView]

-----------------------------------------------------------------------------
\* The same zones with other cards wherever p may not look.
Disguised(p) ==
  LET other == CHOOSE c \in CardInstance : TRUE
      Covered(piles) == [o \in Player |-> [i \in DOMAIN piles[o] |-> other]]
  IN [hand |-> [Covered(hand) EXCEPT ![p] = hand[p]],
      deck |-> Covered(deck), prizes |-> Covered(prizes)]

(***************************************************************************)
(* A view tells a player nothing of the opponent's hand, of either Deck or *)
(* of the Prizes but how many cards they hold: with other cards there it   *)
(* is the same view (protocol::player_view, sent to every seat after every *)
(* accepted action).                                                       *)
(***************************************************************************)
HiddenCardsStayHidden ==
  \A p \in Player : PlayerViewOf(p, Zones) = PlayerViewOf(p, Disguised(p))

-----------------------------------------------------------------------------
(* The prompt.                                                             *)

\* Where a prompt is, and what the last line sent to the host.
Menu == [kind |-> "Menu"]
FormOf(kind) == [kind |-> kind]
Asks(form) == [form |-> form, sent |-> <<>>]
Submit(action) == [form |-> Menu, sent |-> <<action>>]
Invalid == Asks(Menu)

-----------------------------------------------------------------------------
(* What a number stands for in a list of slots, positions or Types.        *)

SlotAt(n) == n
PositionAt(n) == n - 1
ManaAt(n) == <<"Matter", "Mind", "Spirit">>[n]
HintAt(n) == <<"Matter", "Mind", "Spirit", NoHint>>[n]

IsSlot(n) == n \in 1..3
IsPosition(n) == n \in 1..4
IsMana(n) == n \in 1..3
IsHint(n) == n \in 1..4

-----------------------------------------------------------------------------
(* The forms.                                                              *)

\* Entry 6 passes Priority without a form.
MenuForm ==
  (1 :> "PlayCard") @@ (2 :> "UpgradeCard") @@ (3 :> "RetreatSlot")
    @@ (4 :> "AttackTarget") @@ (5 :> "EndTurn") @@ (7 :> "Convert")
    @@ (8 :> "Resign") @@ (9 :> "CastCard") @@ (10 :> "SkillPosition")

MenuStep(n) ==
  IF n = 6 THEN Submit([type |-> "PassPriority"])
  ELSE IF n \in DOMAIN MenuForm THEN Asks(FormOf(MenuForm[n])) ELSE Invalid

\* A decision the viewer owns opens its form without the menu.
ForcedForm == [ManaProduction |-> "Choose", Promotion |-> "Promotion", PrizePick |-> "Prize"]
Opened(view) ==
  IF view.pending.owner = view.you THEN FormOf(ForcedForm[view.pending.kind]) ELSE Menu

\* The form a chosen card of the hand leads to.
TargetsOf(action, targets) == [kind |-> "Targets", action |-> action, targets |-> targets]
CastOf(c) == [type |-> "CastSpell", card |-> c]
SkillOf(q, i) == [type |-> "ActivateSkill", position |-> q, ability |-> i]
AfterCard(kind, c) ==
  CASE kind = "PlayCard"    -> [kind |-> "PlaySlot", card |-> c]
    [] kind = "UpgradeCard" -> [kind |-> "UpgradePosition", card |-> c]
    [] kind = "CastCard"    -> TargetsOf(CastOf(c), <<>>)

\* The Skills the top card of the viewer's own Summon prints, by their place.
SkillsAt(view, q) ==
  LET summon == view.players[view.you].board[q] IN
  IF summon = NoSummon THEN <<>> ELSE Last(summon.chain).skills

\* Four targets at most; 5 is done, 6 takes back the last, 7 all of them.
TargetListSize == 4
TargetStep(f, n) ==
  CASE n = 5 -> Asks([f EXCEPT !.kind = "ManaHint"])
    [] n = 6 -> Asks([f EXCEPT !.targets = IF @ = <<>> THEN @ ELSE Front(@)])
    [] n = 7 -> Asks([f EXCEPT !.targets = <<>>])
    [] IsPosition(n) /\ Len(f.targets) < TargetListSize ->
         Asks([f EXCEPT !.targets = Append(@, PositionAt(n))])
    [] OTHER -> Invalid

\* A Skill is looked up again in the view the action is sent from.
TargetSubmit(view, f, hint) ==
  IF f.action.type = "ActivateSkill"
       /\ f.action.ability \notin DOMAIN SkillsAt(view, f.action.position)
  THEN Invalid
  ELSE Submit(f.action @@ [targets |-> f.targets, mana_hint |-> hint])

ManaSubmit(f, n) ==
  CASE f.kind = "Convert" /\ IsMana(n) ->
         Submit([type |-> "ConvertCoin", mana_type |-> ManaAt(n)])
    [] f.kind = "Choose" /\ IsMana(n) ->
         Submit([type |-> "ChooseManaType", mana_type |-> ManaAt(n)])
    [] f.kind = "RetreatHint" /\ IsHint(n) ->
         Submit([type |-> "Retreat", slot |-> f.slot, mana_hint |-> HintAt(n)])
    [] f.kind = "AttackHint" /\ IsHint(n) ->
         Submit([type |-> "DeclareAttack", target |-> f.target, mana_hint |-> HintAt(n)])
    [] OTHER -> Invalid

\* Faulty variant: a Prize is counted from zero.
PrizeFromZero(n) == n + 1
PrizeAt(n) == n

FormStep(view, f, n) ==
  CASE f.kind \in {"PlayCard", "UpgradeCard", "CastCard"} /\ n \in DOMAIN view.hand ->
         Asks(AfterCard(f.kind, view.hand[n].instance))
    [] f.kind = "PlaySlot" /\ IsSlot(n) ->
         Submit([type |-> "PlaySummon", card |-> f.card, slot |-> SlotAt(n)])
    [] f.kind = "UpgradePosition" /\ IsPosition(n) ->
         Submit([type |-> "UpgradeSummon", card |-> f.card, position |-> PositionAt(n)])
    [] f.kind = "RetreatSlot" /\ IsSlot(n) ->
         Asks([kind |-> "RetreatHint", slot |-> SlotAt(n)])
    [] f.kind = "AttackTarget" /\ IsPosition(n) ->
         Asks([kind |-> "AttackHint", target |-> PositionAt(n)])
    [] f.kind \in {"Convert", "Choose", "RetreatHint", "AttackHint"} -> ManaSubmit(f, n)
    [] f.kind \in {"EndTurn", "Resign"} /\ n = 1 -> Submit([type |-> f.kind])
    [] f.kind = "Promotion" /\ IsSlot(n) ->
         Submit([type |-> "ChoosePromotion", slot |-> SlotAt(n)])
    [] f.kind = "Prize" /\ n > 0 ->
         Submit([type |-> "ChoosePrize", prize |-> PrizeAt(n)])
    [] f.kind = "Targets" -> TargetStep(f, n)
    [] f.kind = "ManaHint" /\ IsHint(n) -> TargetSubmit(view, f, HintAt(n))
    [] f.kind = "SkillPosition" /\ IsPosition(n) ->
         Asks([kind |-> "SkillAbility", position |-> PositionAt(n)])
    [] f.kind = "SkillAbility" /\ n \in DOMAIN SkillsAt(view, f.position) ->
         Asks(TargetsOf(SkillOf(f.position, n), <<>>))
    [] OTHER -> Invalid

-----------------------------------------------------------------------------
(* One line, and a whole sequence of them.                                 *)

Reduce(view, form, n) ==
  IF form = Menu THEN MenuStep(n) ELSE FormStep(view, form, n)

\* The client opens a forced form before it reads a line at the menu.
ReadLine(view, at, n) ==
  LET form == IF at.form = Menu THEN Opened(view) ELSE at.form
      next == Reduce(view, form, n)
  IN [next EXCEPT !.sent = at.sent \o @]

\* The lines send this action and nothing else, and end at the menu.
Sends(view, lines, action) ==
  FoldLeft(LAMBDA at, n : ReadLine(view, at, n), Invalid, lines) = Submit(action)

-----------------------------------------------------------------------------
\* The line that gives a hint, and the lines that name targets.
LineOfHint(hint) == CHOOSE n \in 1..4 : HintAt(n) = hint
LineOfMana(t) == CHOOSE n \in 1..3 : ManaAt(n) = t
LinesOfTargets(targets) == [i \in DOMAIN targets |-> targets[i] + 1]
Finished(targets, hint) == LinesOfTargets(targets) \o <<5, LineOfHint(hint)>>

PlaysTyped(p, v) ==
  \A i \in DOMAIN hand[p] :
    /\ \A slot \in Bench : PlaySummon(p, hand[p][i], slot) =>
         Sends(v, <<1, i, slot>>,
               [type |-> "PlaySummon", card |-> hand[p][i], slot |-> slot])
    /\ \A q \in Position : UpgradeSummon(p, hand[p][i], q) =>
         Sends(v, <<2, i, q + 1>>,
               [type |-> "UpgradeSummon", card |-> hand[p][i], position |-> q])
    /\ \A targets \in TargetChoices, hint \in Hint :
         CastSpell(p, hand[p][i], targets, hint) =>
           Sends(v, <<9, i>> \o Finished(targets, hint),
                 CastOf(hand[p][i]) @@ [targets |-> targets, mana_hint |-> hint])

SkillsTyped(p, v) ==
  \A q \in OccupiedPositions(p), targets \in TargetChoices, hint \in Hint :
    \A i \in DOMAIN FaceAt(p, q).skills :
      ActivateSkill(p, q, i, targets, hint) =>
        Sends(v, <<10, q + 1, i>> \o Finished(targets, hint),
              SkillOf(q, i) @@ [targets |-> targets, mana_hint |-> hint])

TurnTyped(p, v) ==
  /\ \A hint \in Hint :
       /\ \A slot \in Bench : Retreat(p, slot, hint) =>
            Sends(v, <<3, slot, LineOfHint(hint)>>,
                  [type |-> "Retreat", slot |-> slot, mana_hint |-> hint])
       /\ DeclareAttack(p, hint) =>
            Sends(v, <<4, 1, LineOfHint(hint)>>,
                  [type |-> "DeclareAttack", target |-> Main, mana_hint |-> hint])
  /\ EndTurn(p) => Sends(v, <<5, 1>>, [type |-> "EndTurn"])
  /\ PassPriority(p) => Sends(v, <<6>>, [type |-> "PassPriority"])
  /\ \A t \in ManaType : ConvertCoin(p, t) =>
       Sends(v, <<7, LineOfMana(t)>>, [type |-> "ConvertCoin", mana_type |-> t])

DecisionsTyped(p, v) ==
  /\ \A t \in ManaType : ChooseManaType(p, t) =>
       Sends(v, <<LineOfMana(t)>>, [type |-> "ChooseManaType", mana_type |-> t])
  /\ \A slot \in Bench : ChoosePromotion(p, slot) =>
       Sends(v, <<slot>>, [type |-> "ChoosePromotion", slot |-> slot])
  /\ \A i \in DOMAIN prizes[Opponent(p)] : ChoosePrize(p, i) =>
       Sends(v, <<i>>, [type |-> "ChoosePrize", prize |-> i])

\* The action of the step, if a player took one, can be typed.
MoveIsTyped(p, v) ==
  /\ PlaysTyped(p, v) /\ SkillsTyped(p, v)
  /\ TurnTyped(p, v) /\ DecisionsTyped(p, v)

(***************************************************************************)
(* Every action the engine accepts from a player is one that player can    *)
(* type: some lines, read by the prompt over that player's own view, send  *)
(* it and nothing else, decisions from the form that opens by itself.      *)
(***************************************************************************)
EveryMoveCanBeTyped ==
  [][\A p \in Player : MayAct(p) => MoveIsTyped(p, PlayerViewOf(p, Zones))]_vars

(***************************************************************************)
(* Together: nobody is asked for what cannot be answered, what a player is *)
(* sent is enough to type every legal move, and no more than that player   *)
(* may know.                                                               *)
(***************************************************************************)
ViewIsEnoughAndNoMore ==
  []PendingIsAnswerable /\ []HiddenCardsStayHidden /\ EveryMoveCanBeTyped
=============================================================================
