SPECIFICATION ToolSpec
CONSTANTS
  r1 = r1
  r2 = r2
  l1 = l1
  Nobody = Nobody
  Requests <- MCRequests
  Keys <- MCKeys
  KeyOf <- MCKeyOf
  MaxLocks = 2
  Steady <- MCKeys
  Lessons = {l1}
  LessonOf <- MCLessonOf
  Publishing = {}
  Bundles <- MCBundles
  Reliable = {l1}
INVARIANT
  SaveIsWritten
