SPECIFICATION MCSpec
CONSTANTS
  t1 = t1
  t2 = t2
  t3 = t3
  calm = calm
  rough = rough
  Nobody = Nobody
  Turns <- MCTurns
  Sessions = {calm, rough}
  SessionOf <- MCSessionOf
  Serial = {calm}
  Reliable = {calm}
  EveryN = 2
  MaxChunk = 2
  MaxLength = 4
  NodeRetries = 1
  MaxLate = 1
INVARIANT
  DraftKeepsUp
PROPERTIES
  ImplementsDraftPromise
  TurnEnds
