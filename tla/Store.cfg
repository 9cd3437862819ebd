SPECIFICATION MCSpec
CONSTANTS
  t1 = t1
  t2 = t2
  t3 = t3
  p1 = p1
  p2 = p2
  p3 = p3
  k1 = k1
  half = half
  s1 = s1
  Task = {t1, t2, t3}
  Process = {p1, p2, p3}
  Key = {k1, half}
  Slug = {s1}
  Ttl = 1
  MaxDir = 2
  Capacity = 2
  Interval = 2
  Horizon = 1
INVARIANTS
  GrantsAreBounded
  EntriesAreWhole
  SavedIsDurable
  ReportsAreTruthful
PROPERTIES
  OwnWritesAreKept
  ClearSparesTheNewRoot
  EveryJobEnds
CHECK_DEADLOCK FALSE
