SPECIFICATION Spec
CONSTANTS
  CardInstance <- CombatCards
  Face <- CombatFace
  TargetChoices <- CombatTargets
  Setups <- CombatSetups
INVARIANTS
  BoardIsWholeWhenQuiet
  CardsAreConserved
CHECK_DEADLOCK FALSE
