SPECIFICATION MCSpec
CONSTANTS
  wide = wide
  a = a
  b = b
  d = d
  j = j
  lost = lost
  NoJob = NoJob
  Calls <- MCCalls
  Jobs = {j, lost}
  JobOf <- MCJobOf
  RequestOf <- MCRequestOf
  Replies <- MCReplies
  Stored <- MCStored
  Cached = {"course"}
  Reliable = {j}
  Retries = 1
  NodeRetries = 1
INVARIANTS
  AnswersAreTrees
  CallsBounded
  RowIsNotLeftRunning
PROPERTY
  EveryCallEnds
CHECK_DEADLOCK FALSE
