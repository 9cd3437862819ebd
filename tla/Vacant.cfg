SPECIFICATION Spec
CONSTANTS
  CardInstance <- LanceCards
  Face <- LanceFace
  TargetChoices <- LanceTargets
  Setups <- VacantSetups
PROPERTIES
  MainArrivalIsAnnounced
CHECK_DEADLOCK FALSE
