SPECIFICATION Spec
CONSTANTS
  c1 = c1
  c2 = c2
  u1 = u1
  u2 = u2
  j1 = j1
  j2 = j2
  t1 = t1
  Nothing = Nothing
  Calls = {c1, c2}
  Inputs <- MCInputs
  Privileged = {"review", "author", "save"}
  Uncached = {"author"}
  Judged = {"save"}
  Owner <- MCOwner
  Managers = {u1}
  Tenants = {t1}
  Moving <- MCMoving
  Limit = 1
  Window = 2
  MaxTime = 2
INVARIANT
  AnswersFit
PROPERTIES
  QuotaIsExact
  EveryCallEnds
CHECK_DEADLOCK FALSE
