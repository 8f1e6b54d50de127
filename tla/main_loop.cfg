SPECIFICATION FairSpec
CONSTANTS
  q1 = q1
  None = None
  Partition = {p1, p2}
  AtFirst = {p1}
  MaxMessages = 1
  ProbeInterval = 2
  ProbeTimeout = 1
  MaxOwed = 2
  MaxFaults = 1
  AlertPartition = {q1}
  Topic <- AlertsTopic
  MaxFailures = 1
CHECK_DEADLOCK FALSE
INVARIANTS
  TypeOK
  ProbesKeepUp
  CommittedWasHanded
  CommitFollowsParse
PROPERTIES
  CommittedIsFinal
  LagIsBracketed
  OutageShows
  Recovers
  LagSettles
  EveryAlertHanded
