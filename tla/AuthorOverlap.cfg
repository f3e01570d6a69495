SPECIFICATION Spec
CONSTANTS
  r1 = r1
  r2 = r2
  r3 = r3
  j1 = j1
  j2 = j2
  l1 = l1
  Nobody = Nobody
  Runs <- MCRuns
  Jobs = {j1}
  JobOf <- MCOneJobOf
  Lessons = {l1}
  LessonOf <- MCLessonOf
  Publishing = {}
  Bundles <- MCLessonBundle
  Attempts = 1
  Serial = {}
  Reliable = {l1}
PROPERTY
  SucceededJobIsSkipped
