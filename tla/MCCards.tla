------------------------------- MODULE MCCards -------------------------------
(***************************************************************************)
(* Set documents around well-formed ones, card libraries, Decks and deals, *)
(* and match situations around playable ones.                              *)
(***************************************************************************)
EXTENDS Setup, Calls

-----------------------------------------------------------------------------
(* Every effect, in every place an effect can be printed.                  *)

Addition(amount) == [condition |-> "SpellPlayedThisTurn", amount |-> amount]
AnyEffect ==
  [ kind : {"Damage"}, target : Target, base : {0, 2},
    constraints : {<<>>, <<"Unpreventable">>, <<"Unpreventable", "Unpreventable">>},
    additions : {<<>>, <<Addition(1)>>, <<Addition(1), Addition(0)>>} ]
  \cup [kind : {"Heal"}, target : Target, amount : {0, 1}]
  \cup [kind : {"MoveSummon", "SwapPositions", "ProduceMana", "CannotBeMovedByOpponent",
                "ReadySummon"}, target : Target]
  \cup [kind : {"BlockResponses"}, condition : Condition]
  \cup [kind : {"DrawCards"}, amount : {0, 1}]
  \cup [kind : {"ReturnSpellFromDiscard", "LookAtPrizes", "ReturnSpellToDeckTop"}]

Hit == [kind |-> "Damage", target |-> "DefendingMain", base |-> 1, constraints |-> <<>>,
        additions |-> <<>>]
Bolt == [Hit EXCEPT !.target = "SelectedOpposingPosition"]
Mend(target) == [kind |-> "Heal", target |-> target, amount |-> 1]

PlainAbility(code, kind) ==
  [code |-> code, kind |-> kind, cost |-> Absent, event |-> Absent, response |-> Absent,
   effects |-> <<>>, modifier |-> Absent]
AttackWith(effects) ==
  [PlainAbility("strike", "Attack") EXCEPT !.cost = Given(<<"Mind", "Generic", "Mind">>),
                                           !.effects = effects]
SkillWith(effects) ==
  [PlainAbility("focus", "Skill") EXCEPT !.cost = Given(<<>>), !.effects = effects]
TriggerWith(effects) ==
  [PlainAbility("echo", "Trigger") EXCEPT !.event = Given("EntersMain"),
     !.response = Given("Respondable"), !.effects = effects]
PassiveWith(modifier) == [PlainAbility("aura", "Passive") EXCEPT !.modifier = Given(modifier)]

Modifiers == [kind : {"OpposingRetreatCost", "IncomingAttackDamageReduction"},
              amount : {0, 1, LargestDelta, LargestDelta + 1}]

PlainEntry(code, kind) ==
  [code |-> code, name |-> "Ember", kind |-> kind, form |-> Absent, life |-> Absent,
   types |-> Absent, retreat |-> Absent, timing |-> Absent, persistence |-> Absent,
   cost |-> Absent, abilities |-> <<>>, effects |-> <<>>, modifiers |-> <<>>]
SummonOf(code, form, abilities) ==
  [PlainEntry(code, "Summon") EXCEPT !.form = Given(form), !.life = Given(3),
     !.types = Given(<<"Mind", "Spirit">>), !.retreat = Given(0), !.abilities = abilities]
SpellOf(timing, effects) ==
  [PlainEntry("spark", "Spell") EXCEPT !.timing = Given(timing),
     !.persistence = Given("Discard"), !.cost = Given(<<"Generic">>), !.effects = effects]
EnchantmentOf(effects, modifiers) ==
  [PlainEntry("ward", "Enchantment") EXCEPT !.timing = Given("Support"),
     !.persistence = Given("Persistent"), !.cost = Given(<<"Matter">>), !.effects = effects,
     !.modifiers = modifiers]

Printed(context, effects) ==
  CASE context = "Attack"       -> SummonOf("ember", "Base", <<AttackWith(effects)>>)
    [] context = "Skill"        -> SummonOf("ember", "Base",
                                            <<SkillWith(effects), AttackWith(<<Hit>>)>>)
    [] context = "Trigger"      -> SummonOf("ember", "Base",
                                            <<AttackWith(<<Hit>>), TriggerWith(effects)>>)
    [] context = "AttackSpell"  -> SpellOf("Attack", effects)
    [] context = "SupportSpell" -> SpellOf("Support", effects)
    [] context = "Enchantment"  -> EnchantmentOf(effects, <<>>)

Usual ==
  [Attack |-> Hit, Skill |-> Mend("Source"), Trigger |-> Mend("Source"), AttackSpell |-> Bolt,
   SupportSpell |-> Mend("SelectedOwnSummon"), Enchantment |-> Mend("SelectedOwnSummon")]

EffectCards ==
  UNION {{Printed(c, <<e>>), Printed(c, <<Usual[c], e>>)} :
         c \in DOMAIN Usual, e \in AnyEffect}

-----------------------------------------------------------------------------
(* Documents that differ from well-formed ones in one or two places.       *)

Variants(f) ==
  CASE f = "name"        -> {"", "Ember"}
    [] f = "kind"        -> {"Summon", "Spell", "Enchantment"}
    [] f = "form"        -> {Absent, Given("Base"), Given("Elite")}
    [] f = "life"        -> {Absent, Given(0), Given(3)}
    [] f = "types"       -> {Absent, Given(<<>>), Given(<<"Mind">>), Given(<<"Mind", "Mind">>)}
    [] f = "retreat"     -> {Absent, Given(1)}
    [] f = "timing"      -> {Absent, Given("Support"), Given("Attack")}
    [] f = "persistence" -> {Absent, Given("Discard"), Given("Persistent")}
    [] f = "cost"        -> {Absent, Given(<<"Mind">>)}
    [] f = "abilities"   ->
         {<<>>, <<AttackWith(<<Hit>>), AttackWith(<<Hit>>)>>, <<SkillWith(<<Mend("Source")>>)>>,
          <<AttackWith(<<Hit>>), [AttackWith(<<Hit>>) EXCEPT !.code = "again"]>>,
          <<AttackWith(<<Hit>>), [SkillWith(<<Mend("Source")>>) EXCEPT !.code = "strike"]>>}
         \cup {<<PassiveWith(m), AttackWith(<<Hit>>)>> : m \in Modifiers}
    [] f = "effects"     -> {<<>>, <<Mend("SelectedOwnSummon")>>, <<[kind |-> "Sing"]>>}
    [] f = "modifiers"   -> {<<>>} \cup {<<m>> : m \in Modifiers}
Varied(cards) ==
  cards \cup UNION {{[card EXCEPT ![f] = v] : v \in Variants(f)} :
                    card \in cards, f \in DOMAIN PlainEntry("ember", "Spell") \ {"code"}}

AbilityVariants(ability) ==
  {[ability EXCEPT !.cost = v] : v \in {Absent, Given(<<"Mind">>)}}
  \cup {[ability EXCEPT !.event = v] : v \in {Absent, Given("YourUpkeep")}}
  \cup {[ability EXCEPT !.response = v] : v \in {Absent, Given("Immediate")}}
  \cup {[ability EXCEPT !.effects = v] : v \in {<<>>, <<Mend("Source")>>}}
  \cup {[ability EXCEPT !.modifier = v] : v \in {Absent} \cup {Given(m) : m \in Modifiers}}
  \cup {[ability EXCEPT !.kind = v] : v \in {"Attack", "Skill", "Passive", "Trigger"}}
AbilityCards ==
  {SummonOf("ember", "Base", <<AttackWith(<<Hit>>), [b EXCEPT !.code = "other"]>>) :
     b \in UNION {AbilityVariants(a) : a \in UNION {AbilityVariants(a) :
             a \in {SkillWith(<<Mend("Source")>>), TriggerWith(<<Mend("Source")>>),
                    PassiveWith([kind |-> "OpposingRetreatCost", amount |-> 1])}}}}

SetOf(cards) ==
  [schema_version |-> 1, id |-> "foundations", revision |-> 1, name |-> "Foundations",
   cards |-> cards]

Fine == Printed("Skill", <<Mend("Source")>>)
Wholes ==
  LET whole == SetOf(<<Fine, SpellOf("Attack", <<Bolt>>)>>) IN
  {[whole EXCEPT !.schema_version = v] : v \in {0, 1, 2}}
  \cup {[whole EXCEPT !.id = v] : v \in {"foundations", "found:ations"}}
  \cup {[whole EXCEPT !.revision = v] : v \in {0, 1}} \cup {[whole EXCEPT !.name = " "]}
  \cup {[whole EXCEPT !.cards = v] :
          v \in {<<>>, <<Fine, Fine>>, <<[Fine EXCEPT !.code = "found:ations"], Fine>>}}

Documents ==
  Wholes \cup
  {SetOf(<<card>>) :
     card \in EffectCards \cup AbilityCards
                \cup Varied(Varied({Fine, SpellOf("Attack", <<Bolt>>),
                                    SpellOf("Support", <<Mend("SelectedOwnSummon")>>),
                                    EnchantmentOf(<<Mend("SelectedOwnSummon")>>, <<>>)}))}

LoadSet ==
  /\ call.fn = "load" /\ ~result.made
  /\ LET fault == DocumentFault(call.document)
     IN Returns([ fault |-> fault,
                  conversion |-> IF fault # NoFault THEN NoFault
                                 ELSE ConversionFault(call.document),
                  faces |-> IF fault # NoFault THEN {}
                            ELSE Range(LoadedSet(call.document).cards) ])

(***************************************************************************)
(* What a leaf reads when it is applied (engine/effects), and what is      *)
(* there to read where it is printed: a declared Attack has a target and a *)
(* place, a Trigger the place of its Summon and no chosen target, a card   *)
(* that is cast the chosen targets and no place; positions to move between *)
(* are checked beforehand for a Skill alone (engine/skills).               *)
(***************************************************************************)
Reads(leaf) ==
  CASE leaf.kind \in {"DealDamage", "ReadySummon"} -> {"target"}
    [] leaf.kind \in {"Heal", "ProduceMana", "CannotBeMovedByOpponent"} ->
         IF leaf.at = "Source" THEN {"place"} ELSE {"target"}
    [] leaf.kind \in {"MoveSummon", "SwapPositions", "SwapOpposingPositions"} -> {"checked"}
    [] leaf.kind = "BlockResponses" -> {"declaration"}
    [] OTHER -> {}
FindWhatTheyRead(leaves, there) == \A i \in DOMAIN leaves : Reads(leaves[i]) \subseteq there

\* A face the engine was written for, whose leaves find what they read.
CanBePlayed(face) ==
  /\ face \in CardFace
  /\ FindWhatTheyRead(face.attackLeaves, {"target", "place", "declaration"})
  /\ \A i \in DOMAIN face.skills :
       FindWhatTheyRead(face.skills[i].leaves, {"target", "place", "checked"})
  /\ \A e \in TriggerEvent : \A i \in DOMAIN face.triggers[e] :
       FindWhatTheyRead(face.triggers[e][i].leaves, {"place"})
  /\ FindWhatTheyRead(face.leaves, {"target"})
  /\ face.kind = "Summon" => face.attackLeaves # <<>> /\ face.produces # {} /\ face.life > 0
  /\ face.kind # "Summon" => face.leaves # <<>>

(***************************************************************************)
(* Whatever document the catalog accepts, the parser, the conversion and   *)
(* the engine agree on: conversion refuses nothing the parser let through, *)
(* every face is one the engine was written for, and each leaf of it finds *)
(* what it reads, so none is silently skipped (effects/mod.rs: "a miss     *)
(* here only ever means a caller supplied something this interpreter       *)
(* cannot act on").                                                        *)
(***************************************************************************)
LoadedCardsCanBePlayed ==
  Made("load") /\ result.fault = NoFault =>
    result.conversion = NoFault /\ \A face \in result.faces : CanBePlayed(face)

-----------------------------------------------------------------------------
(* Libraries, Decks and deals.                                             *)

Strike == <<AttackWith(<<Hit>>)>>
Foundations ==
  SetOf(<<SummonOf("ember", "Base", Strike), SummonOf("blaze", "Enhanced", Strike),
          SummonOf("cinder", "Base", Strike), SpellOf("Attack", <<Bolt>>)>>)
Echoes == [SetOf(<<SummonOf("ember", "Base", Strike)>>) EXCEPT !.id = "echoes"]
Reprint == SetOf(<<SummonOf("ash", "Base", Strike)>>)

Requires(set, revision) == [set |-> set, revision |-> revision]
Copy(set, code, quantity) == [card |-> <<set, code>>, quantity |-> quantity]
Burning ==
  [ schema_version |-> 1, id |-> "burning", name |-> "Burning",
    starter |-> <<"foundations", "ember">>,
    requires |-> <<Requires("foundations", 1), Requires("echoes", 1)>>,
    cards |-> <<Copy("foundations", "blaze", 2), Copy("echoes", "ember", 1),
                Copy("foundations", "spark", 1)>> ]
Smouldering ==
  [ Burning EXCEPT !.starter = <<"foundations", "cinder">>,
      !.cards = <<Copy("foundations", "blaze", 1), Copy("foundations", "spark", 2),
                  Copy("foundations", "blaze", 1)>> ]

VariedDecks(deck) ==
  {deck} \cup {[deck EXCEPT !.schema_version = 2]} \cup {[deck EXCEPT !.id = "found:ations"]}
  \cup {[deck EXCEPT !.name = " "]}
  \cup {[deck EXCEPT !.starter = v] :
          v \in {<<"foundations", "blaze">>, <<"foundations", "spark">>,
                 <<"foundations", "cinder">>, <<"foundations", "ash">>, <<"echoes", "ember">>,
                 <<"elsewhere", "ember">>, <<"ember">>}}
  \cup {[deck EXCEPT !.starter = v,
           !.cards = <<Copy("foundations", "cinder", 2), Copy("echoes", "ember", 2)>>] :
           v \in {<<"foundations", "blaze">>, <<"foundations", "spark">>}}
  \cup {[deck EXCEPT !.requires = v] :
          v \in {<<>>, <<Requires("foundations", 2)>>, <<Requires("foundations", 1)>>,
                 <<Requires("foundations", 1), Requires("foundations", 1)>>,
                 <<Requires("elsewhere", 1)>>, <<Requires("found:ations", 1)>>}}
  \cup {[deck EXCEPT !.cards[1] = v] :
          v \in {Copy("foundations", "blaze", 3), Copy("foundations", "blaze", 0),
                 Copy("foundations", "ember", 2), Copy("echoes", "ember", 2),
                 Copy("foundations", "spark", 2), Copy("foundations", "ash", 2),
                 Copy("foundations", "found:ations", 2), Copy("foundations", "cinder", 1)}}

\* The second Deck is shuffled by what is left of the generator.
SomeShuffles == {order \in Shuffles : order[1] = 1}
DealCalls ==
  [ fn : {"deal"}, documents : {<<Foundations, Echoes>>},
    decks : [Player -> {Burning, Smouldering}] ]
  \cup [ fn : {"deal"}, documents : {<<Foundations, Echoes>>, <<Foundations>>},
         decks : {[One |-> d, Two |-> Burning] : d \in VariedDecks(Burning)}
                 \cup {[One |-> Burning, Two |-> d] : d \in VariedDecks(Smouldering)} ]
  \cup [ fn : {"deal"}, documents : {<<Foundations, Foundations>>, <<Foundations, Reprint>>},
         decks : {[p \in Player |-> Burning]} ]

OpeningFault(sets, decks) ==
  LET fault == LibraryFault(sets) IN
  IF fault # NoFault THEN fault
  ELSE FirstFault(<< DeckFault(decks["One"], Library(sets)),
                     DeckFault(decks["Two"], Library(sets)) >>)

DealMatch ==
  /\ call.fn = "deal" /\ ~result.made
  /\ LET sets == [i \in DOMAIN call.documents |-> LoadedSet(call.documents[i])]
         library == Library(sets)
     IN IF OpeningFault(sets, call.decks) # NoFault
        THEN Returns([fault |-> OpeningFault(sets, call.decks), shape |-> NoFault])
        ELSE \E one \in Shuffles, two \in SomeShuffles :
               LET decks == [p \in Player |-> ResolvedDeck(call.decks[p], library)]
                   scenario == OpeningScenario(decks, [One |-> one, Two |-> two])
                   shape == ScenarioFault(library.faces, scenario)
               IN Returns([ fault |-> NoFault, shape |-> shape, decks |-> decks,
                            faces |-> library.faces,
                            state |-> IF shape # NoFault THEN "none"
                                      ELSE FromScenario(library.faces, scenario) ])

-----------------------------------------------------------------------------
(* Situations.                                                             *)

Pool ==
  [ base |-> PlainCard("Summon"), grown |-> [PlainCard("Summon") EXCEPT !.form = 2],
    peak |-> [PlainCard("Summon") EXCEPT !.form = 3], spell |-> PlainCard("Spell") ]
Card(instance, def) == [instance |-> instance, def |-> def]
Standing(chain) == [chain |-> chain, damage |-> 1, readiness |-> "Ready"]
Chains ==
  { <<>>, <<Card(1, "base")>>, <<Card(1, "base"), Card(2, "peak")>>,
    <<Card(2, "grown"), Card(1, "base")>>, <<Card(1, "grown"), Card(2, "grown")>>,
    <<Card(1, "grown"), Card(2, "spell")>>, <<Card(1, "spell")>>, <<Card(1, "unheard")>>,
    <<Card(1, "base"), Card(3, "grown")>> }
Summoned == {Absent} \cup {Given(Standing(chain)) : chain \in Chains}
Reserve == {Absent, Given(Standing(<<Card(3, "base")>>)), Given(Standing(<<Card(3, "spell")>>))}
Situated(main, bench, hand) ==
  [ deck |-> <<>>, hand |-> hand, prizes |-> <<>>, discard |-> <<>>, losses |-> 0,
    summons |-> [q \in Position |->
                   CASE q = Main -> main [] q = 2 -> bench [] OTHER -> Absent] ]
Opposing ==
  { Situated(Given(Standing(<<Card(8, "base")>>)), Absent, <<Card(9, "spell")>>),
    Situated(Absent, Given(Standing(<<Card(8, "grown")>>)), <<>>),
    Situated(Absent, Absent, <<Card(8, "base")>>) }
Situations ==
  { [active |-> "One", coin |-> FALSE, players |-> [One |-> one, Two |-> two]] :
      one \in {Situated(m, b, h) : m \in Summoned, b \in Reserve,
                                   h \in {<<>>, <<Card(4, "spell")>>, <<Card(1, "base")>>}},
      two \in Opposing }

ParseScenario ==
  /\ call.fn = "scenario" /\ ~result.made
  /\ LET shape == ScenarioFault(Pool, call.scenario)
     IN Returns([ fault |-> shape, shape |-> shape, faces |-> Pool,
                  state |-> IF shape # NoFault THEN "none"
                            ELSE FromScenario(Pool, call.scenario) ])

CardCalls ==
  [fn : {"load"}, document : Documents] \cup DealCalls
    \cup [fn : {"scenario"}, scenario : Situations]

(***************************************************************************)
(* A state a match starts in is one the engine can go on from: no card is  *)
(* in two places, every Summon in play climbs from a Summon card, and a    *)
(* seat that is asked to promote has something to promote.                 *)
(***************************************************************************)
StateCards(state, p) ==
  PlayerCardRefs([state.players[p] EXCEPT !.summons =
    [q \in Position |-> {[chain |-> s.chain] : s \in state.players[p].summons[q]}]])
CanStart(faces, state) ==
  /\ IsInjective([i \in DOMAIN (StateCards(state, "One") \o StateCards(state, "Two")) |->
                    (StateCards(state, "One") \o StateCards(state, "Two"))[i].instance])
  /\ \A p \in Player, q \in Position : \A s \in state.players[p].summons[q] :
       /\ s.owner = p /\ s.chain # <<>>
       /\ \A i \in DOMAIN s.chain : faces[s.chain[i].def].kind = "Summon"
  /\ \A p \in Player :
       /\ \E q \in Position : state.players[p].summons[q] # Absent
       /\ p \in state.promotes => state.players[p].summons[Main] = Absent
  /\ state.promotes = Absent =>
       \A p \in Player : state.players[p].summons[Main] # Absent

(***************************************************************************)
(* Accepted Decks of accepted Sets always give a match, whatever the       *)
(* shuffle: no check that setup or the engine's own parser makes can fail  *)
(* on them any more, and the seats hold exactly the cards of their Decks,  *)
(* dealt to a full hand and the Prizes around an exhausted Base Starter    *)
(* (setup.rs maps a refusal to an error no player could act on).           *)
(***************************************************************************)
DefsOf(cards) == [i \in DOMAIN cards |-> cards[i].def]
SameCards(cards, defs) ==
  \A d \in Range(cards) \cup Range(defs) : Count(cards, d) = Count(defs, d)
DealtMatchesStart ==
  /\ Made("deal") /\ result.fault = NoFault =>
       /\ result.shape = NoFault
       /\ CanStart(result.faces, result.state)
       /\ result.state.promotes = Absent
       /\ \A p \in Player :
            LET player == result.state.players[p]
                deck == result.decks[p]
            IN /\ FormOf(result.faces, [def |-> deck.starter]) = FormRank["Base"]
               /\ SameCards(DefsOf(StateCards(result.state, p)), <<deck.starter>> \o deck.body)
               /\ DefsOf(The(player.summons[Main]).chain) = <<deck.starter>>
               /\ Len(player.hand) = HandSize /\ Len(player.prizes) = PrizeCount
  /\ Made("scenario") /\ result.shape = NoFault => CanStart(result.faces, result.state)
=============================================================================
