------------------------------ MODULE MCEngine ------------------------------
(***************************************************************************)
(* Small matches for TLC.  Each instance is a handful of cards with the    *)
(* shapes of the authored catalog (crates/cards/data/foundations.toml),    *)
(* numbers scaled down, and the scenarios they are dealt into.             *)
(***************************************************************************)
EXTENDS Prompt, StateProjection, TLC

-----------------------------------------------------------------------------
(* Builders.                                                               *)

Generic(n) == [Free EXCEPT !.generic = n]

Hit(n) == [kind |-> "DealDamage", base |-> n, additions |-> <<>>,
           unincreasable |-> FALSE, unpreventable |-> FALSE]
HitMore(n, condition) ==
  [Hit(n) EXCEPT !.additions = << [condition |-> condition, amount |-> 1] >>]
HealOf(n, at) == [kind |-> "Heal", amount |-> n, at |-> at]
DrawOf(n) == [kind |-> "DrawCards", amount |-> n]
ManaOf(at) == [kind |-> "ProduceMana", at |-> at]
MarkOf(at) == [kind |-> "CannotBeMovedByOpponent", at |-> at]
Blocks(condition) == [kind |-> "BlockResponses", condition |-> condition]
Plain(kind) == [kind |-> kind]

\* A Summon that attacks for the given leaves, free of cost.
Fighter(life, types, leaves) ==
  [PlainCard("Summon") EXCEPT
     !.life = life, !.produces = types, !.retreat = 1, !.attacks = TRUE,
     !.attackLeaves = leaves]
Watcher(life, types) ==
  [PlainCard("Summon") EXCEPT !.life = life, !.produces = types, !.retreat = 1]
Triggered(card, event, id, respondable, leaves) ==
  [card EXCEPT !.triggers = [@ EXCEPT ![event] =
     Append(@, [id |-> id, respondable |-> respondable, leaves |-> leaves])]]
Skilled(card, cost, leaves) ==
  [card EXCEPT !.skills = Append(@, [cost |-> cost, leaves |-> leaves])]
Spell(timing, cost, leaves) ==
  [PlainCard("Spell") EXCEPT !.timing = timing, !.cost = cost, !.leaves = leaves]

\* Two values, one per seat.
Pair(one, two) == [p \in Player |-> IF p = "One" THEN one ELSE two]

\* A board from four names, "-" for an empty position.
Side(p, names, damage) ==
  [q \in Position |->
     IF names[q + 1] = "-" THEN NoSummon
     ELSE NewSummon(p, <<names[q + 1]>>, damage[q + 1], TRUE, "Available")]
Unhurt == <<0, 0, 0, 0>>

Matter(n) == [EmptyBank EXCEPT !["Matter"] = n]

-----------------------------------------------------------------------------
(* Combat: attacks on a Main with and without replacements, a respondable  *)
(* destruction trigger, a healing response, a conditional attack bonus, a  *)
(* protecting Enchantment, Prizes and the third loss.                      *)

CombatFace ==
  [ a1 |-> Fighter(2, {"Matter"},
             << HitMore(1, "SpellPlayedThisTurn"), Blocks("SpellPlayedThisTurn") >>),
    a2 |-> Triggered(Watcher(1, {"Matter"}), "AnySummonDestroyed", "return",
                     TRUE, << Plain("ReturnSpellFromDiscard") >>),
    a3 |-> Watcher(1, {"Matter"}),
    a4 |-> Watcher(1, {"Matter"}),
    a5 |-> Spell("Support", Generic(1), << HealOf(1, "Selected") >>),
    b1 |-> Fighter(2, {"Matter"}, << HitMore(1, "DefenderEnteredMainThisTurn") >>),
    b2 |-> Watcher(1, {"Matter"}),
    b3 |-> Watcher(1, {"Matter"}),
    b4 |-> [PlainCard("Enchantment") EXCEPT
              !.cost = Generic(1), !.persistent = TRUE, !.attackReduction = 1],
    b5 |-> Spell("Support", Free, << Plain("SwapOpposingPositions") >>) ]
CombatCards == DOMAIN CombatFace

\* `next` is Player Two's Deck: empty, the Upkeep after this turn ends the match.
CombatStart(first, hurt, lost, next) ==
  [active |-> first,
   board |-> Pair(Side("One", <<"a1", "a2", "-", "-">>, <<hurt, 0, 0, 0>>),
                  Side("Two", <<"b1", "b2", "b3", "-">>, <<hurt, 0, 0, 0>>)),
   deck |-> Pair(<<>>, next),
   hand |-> Pair(IF lost = 2 THEN <<"a5", "a3">> ELSE <<"a5">>,
                 IF first = "Two" THEN <<"b5">> ELSE <<"b4">>),
   prizes |-> Pair(<<"a4">>, <<>>),
   discard |-> Pair(IF lost = 2 THEN <<>> ELSE <<"a3">>,
                    IF first = "Two" THEN <<"b4">>
                    ELSE IF next = <<>> THEN <<"b5">> ELSE <<>>),
   mana |-> Pair(Matter(1), Matter(1)),
   losses |-> Pair(lost, lost),
   coin |-> FALSE]
CombatSetups ==
  {CombatStart("One", 1, 0, <<"b5">>), CombatStart("Two", 1, 0, <<>>),
   CombatStart("One", 1, 2, <<>>)}
CombatTargets == {<<Main>>, <<1>>}

-----------------------------------------------------------------------------
(* Movement: Retreat under an opposing tax, both exchanges, the Bench move,*)
(* triggers on leaving Main and the Bench, a production that pauses in the *)
(* middle of the four movement steps, and the marker across two handovers. *)

MovementFace ==
  [ c1 |-> Triggered(Skilled(Watcher(2, {"Matter"}), Free, << Plain("SwapPositions") >>),
                     "LeavesMain", "mend", FALSE, << HealOf(1, "Source") >>),
    c2 |-> Triggered(Watcher(2, {"Matter", "Mind"}),
                     "LeavesBench", "draw water", FALSE, << ManaOf("Source") >>),
    c3 |-> Skilled(Watcher(2, {"Matter"}), Free, << Plain("MoveSummon") >>),
    c4 |-> Spell("Support", Free, << Plain("SwapOpposingPositions") >>),
    d1 |-> Skilled(Watcher(2, {"Matter"}), Free,
                   << HealOf(1, "Source"), MarkOf("Source") >>),
    d2 |-> [Skilled(Watcher(2, {"Matter"}), Free, << Plain("SwapOpposingPositions") >>)
              EXCEPT !.retreatDelta = 1] ]
MovementCards == DOMAIN MovementFace

MovementStart ==
  [active |-> "Two",
   board |-> Pair(Side("One", <<"c1", "c2", "c3", "-">>, <<1, 0, 0, 0>>),
                  Side("Two", <<"d1", "d2", "-", "-">>, Unhurt)),
   deck |-> Pair(<<"c4">>, <<>>),
   hand |-> Pair(<<>>, <<>>),
   prizes |-> Pair(<<>>, <<>>),
   discard |-> Pair(<<>>, <<>>),
   mana |-> Pair(Matter(2), Matter(1)),
   losses |-> Pair(0, 0),
   coin |-> FALSE]
MovementSetups == {MovementStart}
MovementTargets == {<<>>, <<1, 3>>}

-----------------------------------------------------------------------------
(* Upkeep: a respondable and an immediate Upkeep trigger on one Summon, a  *)
(* response that moves it away, two-Type production, the Coin, upgrades,   *)
(* drawing past the end of a Deck, and a Summon that prints no Life.       *)

UpkeepFace ==
  [ e1 |-> Triggered(Triggered(Skilled(Watcher(2, {"Matter", "Mind"}), Free,
                       << Plain("ReturnSpellToDeckTop"), DrawOf(1),
                          Plain("LookAtPrizes") >>),
                     "YourUpkeep", "rouse", TRUE, << HealOf(1, "Source") >>),
                     "YourUpkeep", "strike", FALSE, << Hit(1) >>),
    e2 |-> Watcher(2, {"Matter"}),
    e3 |-> [Watcher(3, {"Matter", "Mind"}) EXCEPT !.form = 2],
    e4 |-> Spell("Support", Free,
                 << Plain("ReadySummon"), ManaOf("Selected") >>),
    f1 |-> Watcher(2, {"Matter", "Spirit"}),
    f2 |-> Watcher(NoLife, {"Matter"}),
    f3 |-> Spell("Support", Generic(1), << Plain("SwapOpposingPositions") >>) ]
UpkeepCards == DOMAIN UpkeepFace

UpkeepStart ==
  [active |-> "Two",
   board |-> Pair(Side("One", <<"e1", "e2", "-", "-">>, Unhurt),
                  Side("Two", <<"f1", "f2", "-", "-">>, Unhurt)),
   deck |-> Pair(<<"e3">>, <<>>),
   hand |-> Pair(<<"e4">>, <<"f3">>),
   prizes |-> Pair(<<>>, <<>>),
   discard |-> Pair(<<>>, <<>>),
   mana |-> Pair(EmptyBank, Matter(1)),
   losses |-> Pair(0, 0),
   coin |-> TRUE]
UpkeepSetups == {UpkeepStart}
UpkeepTargets == {<<>>, <<Main>>, <<1>>}

-----------------------------------------------------------------------------
(* Lance: a second source of Damage next to the attack (Ember Lance), and  *)
(* the respondable destruction trigger (Ash Shepherd).                     *)

LanceFace ==
  [ g1 |-> Fighter(2, {"Matter"}, << Hit(2) >>),
    g2 |-> Watcher(1, {"Matter"}),
    g3 |-> Spell("Attack", Free, << Hit(1) >>),
    h1 |-> Watcher(1, {"Matter"}),
    h2 |-> Triggered(Watcher(1, {"Matter"}), "AnySummonDestroyed", "return",
                     TRUE, << Plain("ReturnSpellFromDiscard") >>),
    h3 |-> Watcher(1, {"Matter"}),
    h4 |-> Spell("Attack", Free, << Hit(2) >>),
    h5 |-> Spell("Support", Free, <<>>),
    h6 |-> Watcher(1, {"Matter"}) ]
LanceCards == DOMAIN LanceFace

LanceStart(lost) ==
  [active |-> "One",
   board |-> Pair(Side("One", <<"g1", "g2", "-", "-">>, Unhurt),
                  Side("Two", <<"h1", "h2", "h3", "-">>, Unhurt)),
   deck |-> Pair(<<>>, <<>>),
   hand |-> Pair(<<"g3">>, <<"h4", "h5">>),
   prizes |-> Pair(<<>>, <<"h6">>),
   discard |-> Pair(<<>>, <<>>),
   mana |-> Pair(EmptyBank, EmptyBank),
   losses |-> Pair(0, lost),
   coin |-> FALSE]
LanceSetups == {LanceStart(0)}
LanceTargets == {<<Main>>, <<1>>}

-----------------------------------------------------------------------------
(* Turns: Movement, Upkeep, or a Lance match one Main loss from its end,   *)
(* where Player Two's support Spell waits in the Discard for the trigger   *)
(* that returns one.                                                       *)

TurnFace == MovementFace @@ UpkeepFace @@ LanceFace
TurnCards == DOMAIN TurnFace
LastLossStart ==
  [LanceStart(2) EXCEPT !.hand = Pair(<<"g3">>, <<"h4">>),
                        !.discard = Pair(<<>>, <<"h5">>)]
TurnSetups == MovementSetups \cup UpkeepSetups \cup {LastLossStart}
TurnTargets == MovementTargets \cup UpkeepTargets

-----------------------------------------------------------------------------
(* Vacant: a scenario dealt with an empty Main, which begins on a Promotion.*)

VacantStart ==
  [LanceStart(0) EXCEPT
     !.board = Pair(Side("One", <<"g1", "g2", "-", "-">>, Unhurt),
                    Side("Two", <<"-", "h2", "h3", "h1">>, Unhurt))]
VacantSetups == {VacantStart}
=============================================================================
