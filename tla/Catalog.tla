------------------------------ MODULE Catalog ------------------------------
(***************************************************************************)
(* From accepted Set documents to one card library: the identities minted  *)
(* from authored keys, the faces the engine reads, and the checks that the *)
(* Sets do not speak of one card twice (crates/cards: identity.rs,         *)
(* v1/convert.rs, library.rs).                                             *)
(***************************************************************************)
EXTENDS SetDocument

-----------------------------------------------------------------------------
(* Identities: a version 5 UUID of these texts, so equal only for equal    *)
(* texts.                                                                  *)

SetId(set) == "set:" \o set
CardId(set, card) == SetId(set) \o "/card:" \o card
RoleName == [Attack |-> "attack", Skill |-> "skill", Passive |-> "passive",
             Trigger |-> "trigger"]
AbilityId(set, card, role, ability) ==
  CardId(set, card) \o "/ability:" \o RoleName[role] \o ":" \o ability

\* What gets an identity within a Set, by its name there.
Name ==
  {<<>>} \cup {<<card>> : card \in StableKeys}
    \cup {<<card, role, ability>> :
            card \in StableKeys, role \in DOMAIN RoleName, ability \in StableKeys}
MintedFor(set, name) ==
  IF name = <<>> THEN SetId(set)
  ELSE IF Len(name) = 1 THEN CardId(set, name[1])
  ELSE AbilityId(set, name[1], name[2], name[3])

\* A key that stable_key_syntax lets through holds no colon and no slash, so
\* these texts tell the names of a Set apart.
ASSUME IdentityAssumption ==
  \A set \in StableKeys :
    LET minted == [name \in Name |-> MintedFor(set, name)]
    IN IsInjective(minted) /\ Range(minted) \subseteq STRING

-----------------------------------------------------------------------------
(* Conversion of what the parser accepted.                                 *)

OwnTarget(target) == IF target = "Source" THEN "Source" ELSE "Selected"

Leaf(effect) ==
  CASE effect.kind = "Damage" ->
         [ kind |-> "DealDamage", base |-> effect.base, additions |-> effect.additions,
           unincreasable |-> "Unincreasable" \in Range(effect.constraints),
           unpreventable |-> "Unpreventable" \in Range(effect.constraints) ]
    [] effect.kind = "Heal" ->
         [kind |-> "Heal", amount |-> effect.amount, at |-> OwnTarget(effect.target)]
    [] effect.kind \in {"ProduceMana", "CannotBeMovedByOpponent"} ->
         [kind |-> effect.kind, at |-> OwnTarget(effect.target)]
    [] effect.kind = "SwapPositions" ->
         [ kind |-> IF effect.target = "OwnMainWithSelectedBench" THEN "SwapPositions"
                    ELSE "SwapOpposingPositions" ]
    [] effect.kind \in {"MoveSummon", "ReadySummon"} -> [kind |-> effect.kind]
    [] OTHER -> effect
Leaves(effects) == [i \in DOMAIN effects |-> Leaf(effects[i])]

Count(symbols, s) == Cardinality({i \in DOMAIN symbols : symbols[i] = s})
ConvertedCost(symbols) ==
  [typed |-> [t \in ManaType |-> Count(symbols, t)], generic |-> Count(symbols, "Generic")]

FormRank == [Base |-> 1, Enhanced |-> 2, Elite |-> 3]

\* The engine reads the first modifier of a Summon for the opposing Retreat
\* and every modifier of an Enchantment for the damage of an Attack.
RetreatDelta(modifiers) ==
  IF modifiers # <<>> /\ modifiers[1].kind = "OpposingRetreatCost"
  THEN modifiers[1].amount ELSE 0
AttackReduction(modifiers) ==
  SumOf([i \in DOMAIN modifiers |->
           IF modifiers[i].kind = "IncomingAttackDamageReduction"
           THEN modifiers[i].amount ELSE 0])

SummonFace(set, card) ==
  LET attack == OfRole(card.abilities, "Attack")[1]
      skills == OfRole(card.abilities, "Skill")
      passives == OfRole(card.abilities, "Passive")
      modifiers == [i \in DOMAIN passives |-> The(passives[i].modifier)]
      triggers == OfRole(card.abilities, "Trigger")
      on(e) == Kept(triggers, {a \in Range(triggers) : a.event = Given(e)})
      trigger(a) == [ id |-> AbilityId(set, card.code, "Trigger", a.code),
                      respondable |-> a.response = Given("Respondable"),
                      leaves |-> Leaves(a.effects) ]
  IN [ PlainCard("Summon") EXCEPT
         !.form = FormRank[The(card.form)], !.life = The(card.life),
         !.produces = Range(The(card.types)), !.retreat = The(card.retreat),
         !.attacks = TRUE, !.attackCost = ConvertedCost(The(attack.cost)),
         !.attackLeaves = Leaves(attack.effects),
         !.skills = [i \in DOMAIN skills |-> [cost |-> ConvertedCost(The(skills[i].cost)),
                                              leaves |-> Leaves(skills[i].effects)]],
         !.triggers = [e \in TriggerEvent |-> [i \in DOMAIN on(e) |-> trigger(on(e)[i])]],
         !.retreatDelta = RetreatDelta(modifiers),
         !.attackReduction = AttackReduction(modifiers) ]

\* A Spell or Enchantment; an Enchantment's timing is always Support.
CastFace(card) ==
  [ PlainCard(card.kind) EXCEPT
      !.timing = The(card.timing), !.cost = ConvertedCost(The(card.cost)),
      !.leaves = Leaves(card.effects), !.persistent = (card.kind = "Enchantment"),
      !.attackReduction = AttackReduction(card.modifiers) ]

ConvertedFace(set, card) ==
  IF card.kind = "Summon" THEN SummonFace(set, card) ELSE CastFace(card)

-----------------------------------------------------------------------------
(* A loaded Set.                                                           *)

\* The places of a document that get one: the Set, its cards, their abilities.
Places(document) ==
  {<<>>} \cup {<<i>> : i \in DOMAIN document.cards}
    \cup UNION {{<<i, j>> : j \in DOMAIN document.cards[i].abilities} :
                i \in DOMAIN document.cards}
NameAt(document, place) ==
  IF place = <<>> THEN <<>>
  ELSE LET card == document.cards[place[1]] IN
       IF Len(place) = 1 THEN <<card.code>>
       ELSE LET ability == card.abilities[place[2]]
            IN <<card.code, ability.kind, ability.code>>
MintedIds(document) ==
  [place \in Places(document) |-> MintedFor(document.id, NameAt(document, place))]

AllModifiers(document) ==
  UNION {Range(document.cards[i].modifiers)
           \cup UNION {a.modifier : a \in Range(document.cards[i].abilities)} :
         i \in DOMAIN document.cards}

\* What conversion itself refuses, of a document the parser accepted.
ConversionFault(document) ==
  FirstFault(<<
    When(~IsInjective(MintedIds(document)), Fault("DuplicateGeneratedId", "")),
    Rule(\E m \in AllModifiers(document) :
           m.kind = "OpposingRetreatCost" /\ m.amount > LargestDelta,
         "ModifierAmountOutOfRange") >>)

LoadedSet(document) ==
  [ code |-> document.id, revision |-> document.revision, ids |-> MintedIds(document),
    cards |-> [ code \in {c.code : c \in Range(document.cards)} |->
                ConvertedFace(document.id,
                              CHOOSE c \in Range(document.cards) : c.code = code) ] ]

-----------------------------------------------------------------------------
(* CardLibrary::from_sets, of Sets that loaded.                            *)

LoadedKeys(set) == SetToSeq({<<set.code, code>> : code \in DOMAIN set.cards})
QualifiedKeys(sets) == FlattenSeq([i \in DOMAIN sets |-> LoadedKeys(sets[i])])

LibraryFault(sets) ==
  FirstFault(<<
    When(~IsInjective(QualifiedKeys(sets)), Fault("DuplicateQualifiedKey", "")),
    When(~IsInjective([at \in UNION {{i} \X DOMAIN sets[i].ids : i \in DOMAIN sets} |->
                         sets[at[1]].ids[at[2]]]),
         Fault("DuplicateId", "")) >>)

\* Qualified keys are pairs <<Set, card>>; a key leads to its definition's id.
Library(sets) ==
  [ revisions |-> [code \in {s.code : s \in Range(sets)} |->
                     (CHOOSE s \in Range(sets) : s.code = code).revision],
    cards     |-> [key \in Range(QualifiedKeys(sets)) |-> CardId(key[1], key[2])],
    faces     |-> [id \in {CardId(key[1], key[2]) : key \in Range(QualifiedKeys(sets))} |->
                     LET key == CHOOSE k \in Range(QualifiedKeys(sets)) : CardId(k[1], k[2]) = id
                     IN (CHOOSE s \in Range(sets) : s.code = key[1]).cards[key[2]]] ]
=============================================================================
