-------------------------------- MODULE Setup --------------------------------
(***************************************************************************)
(* From a Deck document to the state the engine starts in: resolving the   *)
(* recipe against the card library (crates/cards/src/deck.rs), dealing two *)
(* of them (crates/cli/src/setup.rs), and from_scenario                    *)
(* (crates/core/src/scenario.rs), which interprets any match situation or  *)
(* says the first shape of it that it cannot interpret.                    *)
(*                                                                         *)
(* A card reference is the sequence of its parts between slashes.  faces   *)
(* is the card pool, from definition ids to faces.  A card is              *)
(* [instance, def]; a Summon [chain, damage, readiness]; a player has the  *)
(* four zones and at each position a Summon or nothing (an optional one).  *)
(***************************************************************************)
EXTENDS Catalog

CONSTANTS BodySize,    \* BODY_SIZE, 20
          CopyLimit,   \* COPY_LIMIT, 2
          HandSize,    \* HAND_SIZE, 5
          PrizeCount   \* PRIZE_COUNT, 2

\* split_at would panic otherwise.
ASSUME DealAssumption ==
  /\ {BodySize, CopyLimit, HandSize, PrizeCount} \subseteq Nat
  /\ HandSize + PrizeCount <= BodySize

-----------------------------------------------------------------------------
(* Match situations.                                                       *)

Zones == <<"deck", "hand", "prizes", "discard">>
PositionOrder == <<Main, 1, 2, 3>>

\* player_card_refs and all_card_refs: the zones, then the chains in order.
ChainAt(player, q) == IF player.summons[q] = Absent THEN <<>> ELSE The(player.summons[q]).chain
PlayerCardRefs(player) ==
  FlattenSeq([i \in 1 .. 4 |-> player[Zones[i]]])
    \o FlattenSeq([i \in 1 .. 4 |-> ChainAt(player, PositionOrder[i])])
AllCardRefs(scenario) ==
  PlayerCardRefs(scenario.players["One"]) \o PlayerCardRefs(scenario.players["Two"])

\* form_of: only a Summon prints a Form.
NoForm == 0
FormOf(faces, card) ==
  IF faces[card.def].kind = "Summon" THEN faces[card.def].form ELSE NoForm

\* build_chain: a chain climbs Base, Enhanced, Elite, and starts anywhere.
ChainFault(faces, chain) ==
  FirstFault(<<
    When(chain = <<>>, Fault("EmptyUpgradeChain", "")),
    When(\E i \in DOMAIN chain :
           \/ FormOf(faces, chain[i]) = NoForm
           \/ i > 1 /\ FormOf(faces, chain[i]) <= FormOf(faces, chain[i - 1]),
         Fault("IllegalChainOrder", "")) >>)

BoardFault(faces, player) ==
  FirstFault(
    [i \in 1 .. 4 |->
       FirstFault(SetToSeq({ChainFault(faces, s.chain) : s \in player.summons[PositionOrder[i]]}))]
    \o << When(\A q \in Position : player.summons[q] = Absent, Fault("NoSummonInPlay", "")) >>)

ScenarioFault(faces, scenario) ==
  LET refs == AllCardRefs(scenario) IN
  IF ~IsInjective([i \in DOMAIN refs |-> refs[i].instance])
  THEN Fault("DuplicateCardInstance", "")
  ELSE IF \E i \in DOMAIN refs : refs[i].def \notin DOMAIN faces
  THEN Fault("UnknownCardDef", "")
  ELSE FirstFault(<< BoardFault(faces, scenario.players["One"]),
                     BoardFault(faces, scenario.players["Two"]) >>)

\* build_summon_instance: the seat owns and controls what it starts with.
BuiltSummon(p, summon) ==
  [ chain |-> summon.chain, damage |-> summon.damage, readiness |-> summon.readiness,
    owner |-> p, controller |-> p, markers |-> <<>>, turn |-> "fresh" ]
BuiltPlayer(p, player) ==
  [ summons |-> [q \in Position |-> {BuiltSummon(p, s) : s \in player.summons[q]}],
    deck |-> player.deck, hand |-> player.hand, prizes |-> player.prizes,
    discard |-> player.discard, losses |-> player.losses, enchantments |-> <<>> ]

\* derive_pending: the first seat whose Main is empty is asked to promote.
DerivedPending(players) ==
  IF players["One"].summons[Main] = Absent THEN Given("One")
  ELSE IF players["Two"].summons[Main] = Absent THEN Given("Two") ELSE Absent

FromScenario(faces, scenario) ==
  LET players == [p \in Player |-> BuiltPlayer(p, scenario.players[p])]
  IN [ players |-> players, coin |-> scenario.coin, active |-> scenario.active,
       phase |-> "Main", stack |-> <<>>, work |-> <<>>,
       promotes |-> DerivedPending(players) ]

-----------------------------------------------------------------------------
(* Resolving a Deck.                                                       *)

\* parse_qualified.
QualifiedFault(reference) ==
  When(Len(reference) # 2 \/ \E part \in Range(reference) : ~IsStableKey(part),
       Fault("InvalidStableKey", "QualifiedCard"))

RequirementFault(requires, i, library) ==
  LET r == requires[i] IN
  IF ~IsStableKey(r.set) THEN Fault("InvalidStableKey", "Set")
  ELSE IF \E j \in 1 .. (i - 1) : requires[j].set = r.set THEN Fault("DuplicateSetRequirement", "")
  ELSE IF r.set \notin DOMAIN library.revisions THEN Fault("RequiredSetUnavailable", "")
  ELSE When(library.revisions[r.set] # r.revision, Fault("SetRevisionMismatch", ""))

\* require_bound.
IsBound(reference, requires) == \E r \in Range(requires) : r.set = reference[1]
BoundFault(reference, requires) ==
  When(~IsBound(reference, requires), Fault("MissingSetRequirement", ""))
ResolveFault(reference, library) ==
  When(reference \notin DOMAIN library.cards, Fault("UnresolvedCard", ""))

\* require_base_starter.  Faulty variant: whatever resolves may start.
AnyStarterFault(reference, library) == NoFault
BaseStarterFault(reference, library) ==
  LET face == library.faces[library.cards[reference]]
  IN When(face.kind # "Summon" \/ face.form # FormRank["Base"], Fault("StarterMustBeBase", ""))

StarterFault(deck, library) ==
  LET first == FirstFault(<< QualifiedFault(deck.starter), BoundFault(deck.starter, deck.requires),
                             ResolveFault(deck.starter, library) >>)
  IN IF first # NoFault THEN first ELSE BaseStarterFault(deck.starter, library)

Copies(items, i) ==
  SumFunction([j \in {j \in 1 .. i : items[j].card = items[i].card} |-> items[j].quantity])
ItemFault(deck, i, library) ==
  LET item == deck.cards[i] IN
  FirstFault(<<
    QualifiedFault(item.card), BoundFault(item.card, deck.requires),
    When(item.quantity = 0, Fault("QuantityMustBePositive", "")),
    When(item.card = deck.starter, Fault("StarterInBody", "")),
    ResolveFault(item.card, library),
    When(Copies(deck.cards, i) > CopyLimit, Fault("CopyLimitExceeded", "")) >>)
BodyCount(items) == SumOf([i \in DOMAIN items |-> items[i].quantity])

\* resolve, of a document of version 1 that decodes.
DeckFault(deck, library) ==
  FirstFault(<<
    When(deck.schema_version # 1, Fault("UnsupportedSchemaVersion", "")),
    KeyFault(deck.id, "Deck"),
    When(deck.name \in {"", " "}, Fault("NameMustNotBeEmpty", "")),
    FirstFault([i \in DOMAIN deck.requires |-> RequirementFault(deck.requires, i, library)]),
    StarterFault(deck, library),
    FirstFault([i \in DOMAIN deck.cards |-> ItemFault(deck, i, library)]),
    When(BodyCount(deck.cards) # BodySize, Fault("BodyCardCount", "")) >>)

\* The Deck: its Starter, and its body in recipe order.
ResolvedDeck(deck, library) ==
  [ starter |-> library.cards[deck.starter],
    body    |-> FlattenSeq([i \in DOMAIN deck.cards |->
                  [n \in 1 .. deck.cards[i].quantity |-> library.cards[deck.cards[i].card]]]) ]

-----------------------------------------------------------------------------
(* Dealing.                                                                *)

Shuffles == {order \in [1 .. BodySize -> 1 .. BodySize] : IsInjective(order)}

\* deal: the Starter takes the next instance, the shuffled body the ones after.
NextInstance(p) == IF p = "One" THEN 1 ELSE BodySize + 2

Deal(deck, first, order) ==
  LET body == [i \in 1 .. BodySize |-> [instance |-> first + i, def |-> deck.body[order[i]]]]
      starter == [instance |-> first, def |-> deck.starter]
  IN [ hand |-> SubSeq(body, 1, HandSize),
       prizes |-> SubSeq(body, HandSize + 1, HandSize + PrizeCount),
       deck |-> SubSeq(body, HandSize + PrizeCount + 1, BodySize),
       discard |-> <<>>, losses |-> 0,
       summons |-> [q \in Position |->
                      IF q # Main THEN Absent
                      ELSE Given([chain |-> <<starter>>, damage |-> 0,
                                  readiness |-> "Exhausted"])] ]

\* initial_state, of two resolved decks and the orders the shuffler gave.
OpeningScenario(decks, orders) ==
  [ players |-> [p \in Player |-> Deal(decks[p], NextInstance(p), orders[p])],
    active |-> "One", coin |-> TRUE ]
=============================================================================
