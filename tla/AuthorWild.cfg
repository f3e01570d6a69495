SPECIFICATION Spec
CONSTANTS
  r1 = r1
  r2 = r2
  r3 = r3
  j1 = j1
  j2 = j2
  l1 = l1
  Nobody = Nobody
  Runs <- MCPair
  Jobs = {j1}
  JobOf <- MCPairJobOf
  Lessons = {l1}
  LessonOf <- MCPairLessonOf
  Publishing = {r1}
  Bundles <- MCQuizBundle
  Attempts = 2
  Serial = {}
  Reliable = {}
INVARIANT
  SucceededIsSaved
PROPERTY
  EveryRunEnds
