SPECIFICATION FairSpec
CONSTANTS
  Tab = {1, 2}
  Museum <- MCMuseum
  Connected = {"aic", "met"}
  ByObject = {"met"}
  Keyed <- MCKeyed
  MaxRequests = 4
  Conn = {1, 2}
  Grace = 2
  Trials <- MCTrials
INVARIANTS
  PageKeepsItsQuery
CHECK_DEADLOCK FALSE
