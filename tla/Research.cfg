SPECIFICATION MCSpec
CONSTANTS
  a = a
  b = b
  v = v
  w = w
  u = u
  ToolCalls <- MCCalls
  KindOf <- MCKindOf
  QueryOf <- MCQueryOf
  NodeRetries = 1
INVARIANT
  ResultsAreOwn
PROPERTIES
  ImplementsResearchPromise
  EveryResearchEnds
CHECK_DEADLOCK FALSE
