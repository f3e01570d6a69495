SPECIFICATION MCSpec
CONSTANTS
  javascript = javascript
  rust = rust
  Stacks = {javascript}
  NoStack = NoStack
  Bundles <- MCBundles
  Strip <- MCStrip
  Lower <- MCLower
  LessonSlugs = {"x", "y", "z", ""}
INVARIANTS
  BlocksAreJudged
  AnswersSurvive
  RepairedTestsAreValid
  NoHalfSave
  ValidIsBuilt
CHECK_DEADLOCK FALSE
