SPECIFICATION Spec
SYMMETRY Resumers
CONSTANTS
  c1 = c1
  c2 = c2
  c3 = c3
  i1 = i1
  i2 = i2
  dg = dg
  dd = dd
  r1 = r1
  r2 = r2
  none = none
  Call = {c1, c2, c3}
  Id = {i1, i2}
  IdOf <- SharedId
  Decider = {dg, dd}
  VerdictOf <- Verdicts
  None = none
  Resumer = {r1, r2}
INVARIANTS
  EveryResponseIsLogged
CHECK_DEADLOCK FALSE
