SPECIFICATION Spec
CONSTANTS
  Timer = {"t1", "t2", "t3", "t4"}
  Kind <- TimerKind
  Every <- TimerPeriod
  MaxTime = 3
  MaxSetbacks = 1
  MaxLoops = 2
  MaxRegisters = 2
  Ticket = {k1, k2}
  Call = {c1, c2}
  MaxCalls = 4
  RuleLists <- SomeRules
  Runtime = {"python", "certs"}
  Replies <- SomeReplies
  Token = {7, 8}
  Writer = {w1}
  Consumer = {r1, r2}
  MaxSent = 2
  MaxMillis = 4
  MaxFaults = 2
INVARIANTS
  EachInstantOnce
  EndsAreProven
  CallerAndTicketAgree
  OutcomesTellTheTruth
  BatchKeepsOrder
  FirstConsentActs
  ConfinedOrNotAtAll
  PlanTellsApart
  HeardOnceInOrder
PROPERTIES
  LandsOnNextInstant
  DueTimersFire
  EveryMessageArrives
  EndedUnlessAbandoned
CHECK_DEADLOCK FALSE
