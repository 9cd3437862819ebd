SPECIFICATION Spec
CONSTANTS
  early = early
  late = late
  won = won
  lost = lost
  broken = broken
  step = step
  finish = finish
  stray = stray
  hush = hush
  boast = boast
  c = c
  o1 = o1
  o2 = o2
  bad = bad
  Playing = Playing
  Broken = Broken
  NoDigest = NoDigest
  NoAction = NoAction
  GameState = {early, late, won, lost, broken}
  GameAction = {step, finish, stray, hush, boast}
  ActionError = {bad}
  Change = {c}
  Outcome = {o1, o2}
  StatusOf <- Status
  StateDigest <- DigestTexts
  DigestOf <- Digests
  Engine <- TrialEngine
  MaxSteps = 5
INVARIANTS
  NeverMisread
  StateMatchesLog
  SurvivorsAreHonest
  ReplayNoticesEveryChange
PROPERTIES
  KeepsAJournal
CHECK_DEADLOCK FALSE
