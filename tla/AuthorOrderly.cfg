SPECIFICATION Spec
CONSTANTS
  r1 = r1
  r2 = r2
  r3 = r3
  j1 = j1
  j2 = j2
  l1 = l1
  Nobody = Nobody
  Runs <- MCRuns
  Jobs = {j1, j2}
  JobOf <- MCJobOf
  Lessons = {l1}
  LessonOf <- MCLessonOf
  Publishing = {r1, r3}
  Bundles <- MCBundles
  Attempts = 3
  Serial = {l1}
  Reliable = {l1}
INVARIANTS
  RowTellsOutcome
  PublishedIsWhole
PROPERTIES
  SuccessIsFinal
  ImplementsAuthorOnce
