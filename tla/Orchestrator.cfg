SPECIFICATION FairSpec
CONSTANTS
  s1 = s1
  Session = {s1}
  Plans <- SomePlans
  MaxTurns = 2
  MaxRetries = 1
  MaxStarts = 3
  MaxFaults = 2
INVARIANTS
  TypeOK
  StaleOnlyBehindWatcher
  RetriesAreFutile
PROPERTIES
  FailureIsFinal
  HandoffsAreResolved
  ResumedSessionsMove
CHECK_DEADLOCK FALSE
