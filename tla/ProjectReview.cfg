SPECIFICATION MCSpec
CONSTANTS
  a = a
  b = b
  c = c
  d = d
  j = j
  NoJob = NoJob
  Calls <- MCCalls
  Jobs = {j}
  JobOf <- MCJobOf
  Persists <- MCPersists
  NodeRetries = 1
  MaxDeliveries = 2
  MaxLate = 1
PROPERTIES
  ImplementsReviewPromise
  EveryReviewEnds
CHECK_DEADLOCK FALSE
