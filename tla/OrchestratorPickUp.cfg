SPECIFICATION FairSpec
CONSTANTS
  s1 = s1
  Session = {s1}
  Plans <- SomePlans
  MaxTurns = 2
  MaxRetries = 1
  MaxStarts = 1
  MaxFaults = 0
PROPERTIES
  HandedOffIsPickedUp
CHECK_DEADLOCK FALSE
