SPECIFICATION Spec
CONSTANTS
  s1 = s1  s2 = s2  s3 = s3
  t1 = t1  t2 = t2  t3 = t3  t4 = t4  t5 = t5
  NoTask = NoTask
  Session = {s1, s2}
  Task = {t1, t2, t3, t4}
  SessionOf <- PairSessionOf
  KindOf <- PairKindOf
  Anonymous = {}
  Preemptible = {s1}
  MaxConcurrent = 1
  MaxRetries = 1
PROPERTIES
  SessionDrainsByPriority
CHECK_DEADLOCK FALSE
