SPECIFICATION Spec
CONSTANTS
  CardInstance <- TurnCards
  Face <- TurnFace
  TargetChoices <- TurnTargets
  Setups <- TurnSetups
INVARIANTS
  TypeOK
  HandoverIsClean
  QuietIsPlayable
  OneActorAtATime
  ThirdLossIsDecided
  StateSurvivesTheLog
PROPERTIES
  MarkerHoldsOneTurn
  MainArrivalIsAnnounced
  UpkeepIsFinished
  ViewIsEnoughAndNoMore
  FollowsTurnProtocol
  LoopSettles
CHECK_DEADLOCK FALSE
