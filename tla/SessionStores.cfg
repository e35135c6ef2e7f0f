SPECIFICATION Spec
CONSTANTS
  Half <- TwoHalves
  MaxWritten = 4
  MaxSecond = 1
  MaxMishaps = 1
  Process = {p1, p2}
  TypeOrder <- TwoTypes
  UserFact = {"fact"}
  FreshFact = {"drawn"}
  MaxTexts = 1
  MaxDeaths = 1
  Session = {s1, s2, s3}
  MaxBirths = 3
  NoSession = NoSession
SYMMETRY Alike
INVARIANTS
  AuditTellsWhatWasDispatched
  IndexTracksFiles
  WorkingTextSurvives
  AncestorsOnce
  TaskReachesPlanner
CHECK_DEADLOCK FALSE
