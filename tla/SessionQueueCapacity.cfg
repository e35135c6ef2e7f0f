SPECIFICATION FairSpec
CONSTANTS
  s1 = s1  s2 = s2  s3 = s3
  t1 = t1  t2 = t2  t3 = t3  t4 = t4  t5 = t5
  NoTask = NoTask
  Session = {s1, s2, s3}
  Task = {t1, t2, t3, t4, t5}
  SessionOf <- TrioSessionOf
  KindOf <- TrioKindOf
  Anonymous = {t5}
  Preemptible = {}
  MaxConcurrent = 2
  MaxRetries = 1
INVARIANTS
  Serialized
  WorkConserving
PROPERTIES
  ServiceSpec
  EveryTaskSettles
  ShutdownOnlyDrains
CHECK_DEADLOCK FALSE
