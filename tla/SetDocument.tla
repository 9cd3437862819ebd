---------------------------- MODULE SetDocument ----------------------------
(***************************************************************************)
(* Reading one Set document (crates/cards/src/v1/model.rs): which are      *)
(* accepted and, of one that is not, the first thing said against it.  The *)
(* checks are listed in the order the parser makes them.                   *)
(*                                                                         *)
(* An optional field is the set of its values: Absent, or Given(v).        *)
(* Selectors with one possible value (destination, duration, response      *)
(* block, relative player) say nothing and are left out.                   *)
(***************************************************************************)
EXTENDS Vocabulary, Lists, SequencesExt

CONSTANTS StableKeys,    \* the keys stable_key_syntax lets through
          LargestDelta   \* i32::MAX

Absent == {}
Given(v) == {v}
The(field) == CHOOSE v \in field : TRUE
Optional(S) == {f \in SUBSET S : \A v, w \in f : v = w}

-----------------------------------------------------------------------------
(* What a document may say at all (v1/dto.rs): decoding refuses the rest.  *)

Target == {"DefendingMain", "SelectedOpposingPosition", "Source", "SelectedOwnSummon",
           "SelectedOwnBenchedSummon", "OwnMainWithSelectedBench",
           "OpposingMainWithSelectedBench"}

EffectEntry ==
  [kind : {"Damage"}, target : Target, base : Nat,
   constraints : Seq({"Unincreasable", "Unpreventable"}),
   additions : Seq([condition : Condition, amount : Nat])]
  \cup [kind : {"Heal"}, target : Target, amount : Nat]
  \cup [kind : {"MoveSummon", "SwapPositions", "ProduceMana",
                "CannotBeMovedByOpponent", "ReadySummon"}, target : Target]
  \cup [kind : {"BlockResponses"}, condition : Condition]
  \cup [kind : {"DrawCards"}, amount : Nat]
  \cup [kind : {"ReturnSpellFromDiscard", "LookAtPrizes", "ReturnSpellToDeckTop"}]

ModifierEntry ==
  [kind : {"OpposingRetreatCost", "IncomingAttackDamageReduction"}, amount : Nat]

Symbols == Seq(ManaType \cup {"Generic"})

AbilityEntry ==
  [code : STRING, kind : {"Attack", "Skill", "Passive", "Trigger"},
   cost : Optional(Symbols), event : Optional(TriggerEvent),
   response : Optional({"Immediate", "Respondable"}),
   effects : Seq(EffectEntry), modifier : Optional(ModifierEntry)]

CardEntry ==
  [code : STRING, name : STRING, kind : {"Summon", "Spell", "Enchantment"},
   form : Optional({"Base", "Enhanced", "Elite"}), life : Optional(Nat),
   types : Optional(Seq(ManaType)), retreat : Optional(Nat),
   timing : Optional({"Support", "Attack"}),
   persistence : Optional({"Discard", "Persistent"}), cost : Optional(Symbols),
   abilities : Seq(AbilityEntry), effects : Seq(EffectEntry),
   modifiers : Seq(ModifierEntry)]

SetEntry ==
  [schema_version : Int, id : STRING, revision : Nat, name : STRING,
   cards : Seq(CardEntry)]

-----------------------------------------------------------------------------
(* Faults.                                                                 *)

Fault(cause, what) == [cause |-> cause, what |-> what]
NoFault == Fault("None", "")
When(bad, fault) == IF bad THEN fault ELSE NoFault
FirstFault(faults) ==
  LET found == {i \in DOMAIN faults : faults[i] # NoFault}
  IN IF found = {} THEN NoFault ELSE faults[Min(found)]

Rule(bad, rule) == When(bad, Fault("InvalidSemantics", rule))
Required(field, name) == When(field = Absent, Fault("MissingRequiredField", name))
Forbidden(field, name) == When(field # Absent, Fault("ForbiddenField", name))
ForbiddenList(list, name) == When(list # <<>>, Fault("ForbiddenField", name))

\* stable_key_syntax.
IsStableKey(key) == key \in StableKeys
KeyFault(key, kind) == When(~IsStableKey(key), Fault("InvalidStableKey", kind))
NameFault(name) == Rule(name \in {"", " "}, "NameMustNotBeEmpty")

\* reject_duplicate, of the code of the i-th of several entries.
RepeatedKey(entries, i, kind) ==
  When(\E j \in 1 .. (i - 1) : entries[j].code = entries[i].code,
       Fault("DuplicateStableKey", kind))

-----------------------------------------------------------------------------
(* Effects and modifiers.                                                  *)

TargetOf(effect) == IF "target" \in DOMAIN effect THEN effect.target ELSE "nothing"

\* Where each effect may be printed, and what it may be aimed at there.
LegalUses ==
  { <<"Attack", "Damage", "DefendingMain">>,
    <<"AttackSpell", "Damage", "SelectedOpposingPosition">>,
    <<"Skill", "Heal", "Source">>, <<"Trigger", "Heal", "Source">>,
    <<"SupportSpell", "Heal", "SelectedOwnSummon">>,
    <<"Enchantment", "Heal", "SelectedOwnSummon">>,
    <<"Skill", "MoveSummon", "SelectedOwnBenchedSummon">>,
    <<"Skill", "SwapPositions", "OwnMainWithSelectedBench">>,
    <<"Skill", "SwapPositions", "OpposingMainWithSelectedBench">>,
    <<"Attack", "BlockResponses", "nothing">>,
    <<"Trigger", "ReturnSpellFromDiscard", "nothing">>,
    <<"Skill", "LookAtPrizes", "nothing">>,
    <<"Skill", "DrawCards", "nothing">>, <<"SupportSpell", "DrawCards", "nothing">>,
    <<"Skill", "ReturnSpellToDeckTop", "nothing">>,
    <<"Skill", "ProduceMana", "SelectedOwnSummon">>, <<"Trigger", "ProduceMana", "Source">>,
    <<"Skill", "CannotBeMovedByOpponent", "Source">>,
    <<"SupportSpell", "ReadySummon", "SelectedOwnSummon">> }

\* reject_source_without_position: a card that is cast stands nowhere.
AimsAtNoSource(effect, context) ==
  context \in {"AttackSpell", "SupportSpell", "Enchantment"} /\ TargetOf(effect) = "Source"

EffectFault(effect, context) ==
  LET is(kinds) == effect.kind \in kinds
      misused ==
        IF is({"Damage", "Heal", "SwapPositions", "ProduceMana"}) THEN "EffectTarget"
        ELSE "EffectCombination"
  IN FirstFault(<<
       Rule(AimsAtNoSource(effect, context), "EffectTarget"),
       Rule(is({"Damage"}) /\ effect.base = 0, "AmountMustBePositive"),
       Rule(is({"Heal"}) /\ effect.amount = 0, "AmountMustBePositive"),
       Rule(<<context, effect.kind, TargetOf(effect)>> \notin LegalUses, misused),
       Rule(is({"DrawCards"}) /\ effect.amount = 0, "AmountMustBePositive"),
       When(is({"Damage"}) /\ ~IsInjective(effect.constraints),
            Fault("DuplicateValue", "constraints")),
       Rule(is({"Damage"}) /\ \E a \in Range(effect.additions) : a.amount = 0,
            "AmountMustBePositive") >>)

\* parse_effects.  Faulty variant: a Trigger is read as a Skill is.
EffectsFaultAsSkill(effects, context) ==
  LET read == IF context = "Trigger" THEN "Skill" ELSE context
  IN IF effects = <<>> THEN Fault("InvalidSemantics", "AbilityShape")
     ELSE FirstFault([i \in DOMAIN effects |-> EffectFault(effects[i], read)])
EffectsFault(effects, context) ==
  IF effects = <<>> THEN Fault("InvalidSemantics", "AbilityShape")
  ELSE FirstFault([i \in DOMAIN effects |-> EffectFault(effects[i], context)])

ModifierFault(modifier) ==
  FirstFault(<<
    Rule(modifier.amount = 0, "AmountMustBePositive"),
    Rule(modifier.kind = "OpposingRetreatCost" /\ modifier.amount > LargestDelta,
         "ModifierAmountOutOfRange") >>)

-----------------------------------------------------------------------------
(* Abilities.                                                              *)

AbilityFault(ability) ==
  CASE ability.kind \in {"Attack", "Skill"} ->
         FirstFault(<<
           Forbidden(ability.event, "event"), Forbidden(ability.response, "response"),
           Forbidden(ability.modifier, "modifier"), Required(ability.cost, "cost"),
           EffectsFault(ability.effects, ability.kind) >>)
    [] ability.kind = "Passive" ->
         FirstFault(<<
           Forbidden(ability.cost, "cost"), Forbidden(ability.event, "event"),
           Forbidden(ability.response, "response"), ForbiddenList(ability.effects, "effects"),
           Required(ability.modifier, "modifier"),
           IF ability.modifier = Absent THEN NoFault ELSE ModifierFault(The(ability.modifier)) >>)
    [] ability.kind = "Trigger" ->
         FirstFault(<<
           Forbidden(ability.cost, "cost"), Forbidden(ability.modifier, "modifier"),
           Required(ability.event, "event"), Required(ability.response, "response"),
           EffectsFault(ability.effects, "Trigger") >>)

AbilitiesFault(abilities) ==
  IF abilities = <<>> THEN Fault("InvalidSemantics", "SummonRequiresOneAttack")
  ELSE FirstFault([i \in DOMAIN abilities |->
         FirstFault(<< KeyFault(abilities[i].code, "Ability"),
                       RepeatedKey(abilities, i, "Ability"),
                       AbilityFault(abilities[i]) >>)])

\* Those of one role, in the order they are printed.
OfRole(abilities, role) == Kept(abilities, {a \in Range(abilities) : a.kind = role})

-----------------------------------------------------------------------------
(* Cards and the Set.                                                      *)

TypesFault(types) ==
  FirstFault(<< Required(types, "types"),
                Rule(types = Given(<<>>), "SummonRequiresStatistics"),
                When(\E list \in types : ~IsInjective(list), Fault("DuplicateValue", "types")) >>)

SummonFault(card) ==
  FirstFault(<<
    Forbidden(card.timing, "timing"), Forbidden(card.persistence, "persistence"),
    Forbidden(card.cost, "cost"), ForbiddenList(card.effects, "effects"),
    ForbiddenList(card.modifiers, "modifiers"),
    Required(card.form, "form"), Required(card.life, "life"),
    Rule(card.life = Given(0), "SummonRequiresStatistics"), TypesFault(card.types),
    Required(card.retreat, "retreat"), AbilitiesFault(card.abilities),
    Rule(Len(OfRole(card.abilities, "Attack")) # 1, "SummonRequiresOneAttack") >>)

\* forbid_summon_fields, and the abilities a card that is cast cannot have.
SummonFieldFault(card) ==
  FirstFault(<<
    Forbidden(card.form, "form"), Forbidden(card.life, "life"),
    Forbidden(card.types, "types"), Forbidden(card.retreat, "retreat"),
    ForbiddenList(card.abilities, "abilities") >>)

SpellFault(card) ==
  FirstFault(<<
    SummonFieldFault(card),
    ForbiddenList(card.modifiers, "modifiers"),
    Required(card.timing, "timing"), Required(card.persistence, "persistence"),
    Rule(card.persistence # Given("Discard"), "SpellShape"), Required(card.cost, "cost"),
    EffectsFault(card.effects,
                 IF card.timing = Given("Attack") THEN "AttackSpell" ELSE "SupportSpell") >>)

EnchantmentFault(card) ==
  FirstFault(<<
    SummonFieldFault(card),
    Required(card.timing, "timing"), Required(card.persistence, "persistence"),
    Rule(card.timing # Given("Support") \/ card.persistence # Given("Persistent"),
         "EnchantmentShape"),
    Required(card.cost, "cost"), EffectsFault(card.effects, "Enchantment"),
    FirstFault([i \in DOMAIN card.modifiers |-> ModifierFault(card.modifiers[i])]) >>)

FamilyFault(card) ==
  CASE card.kind = "Summon"      -> SummonFault(card)
    [] card.kind = "Spell"       -> SpellFault(card)
    [] card.kind = "Enchantment" -> EnchantmentFault(card)
CardFault(card) == FirstFault(<<NameFault(card.name), FamilyFault(card)>>)

\* parse, of a document that decodes.
SetFault(set) ==
  FirstFault(<<
    KeyFault(set.id, "Set"),
    Rule(set.revision = 0, "RevisionMustBePositive"),
    NameFault(set.name),
    Rule(set.cards = <<>>, "SetMustContainCards"),
    FirstFault([i \in DOMAIN set.cards |->
      FirstFault(<< KeyFault(set.cards[i].code, "Card"), RepeatedKey(set.cards, i, "Card"),
                    CardFault(set.cards[i]) >>)]) >>)

\* The version is read before the rest is decoded.
DocumentFault(document) ==
  IF document.schema_version # 1 THEN Fault("UnsupportedSchemaVersion", "schema_version")
  ELSE IF document \notin SetEntry THEN Fault("SchemaDecode", "")
  ELSE SetFault(document)
=============================================================================
