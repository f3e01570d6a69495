SPECIFICATION Spec
CONSTANTS
  r1 = r1
  r2 = r2
  r3 = r3
  r4 = r4
  r5 = r5
  kFlaky = kFlaky
  kSteady = kSteady
  Nobody = Nobody
  Requests <- MCRequests
  Keys = {kFlaky, kSteady}
  KeyOf <- MCKeyOf
  MaxLocks = 1
  Steady = {kSteady}
INVARIANTS
  LockMutex
  MappedLockIsHeld
  SteadyOnce
PROPERTIES
  EveryRequestEnds
  ImplementsSingleFlight
