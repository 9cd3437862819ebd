SPECIFICATION Spec
CONSTANTS
  CardInstance <- LanceCards
  Face <- LanceFace
  TargetChoices <- LanceTargets
  Setups <- LanceSetups
PROPERTIES
  PromotesIntoEmptyMain
CHECK_DEADLOCK FALSE
