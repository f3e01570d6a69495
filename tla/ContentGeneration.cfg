SPECIFICATION Spec
CONSTANTS
  Payloads <- MCPayloads
  ValidationRetries = 1
  NodeRetries = 1
INVARIANTS
  CallsBounded
  GivenUpAfterRetries
PROPERTIES
  ImplementsPromise
  GenerationEnds
