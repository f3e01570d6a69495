SPECIFICATION Spec
CONSTANTS
  c1 = c1
  c2 = c2
  c3 = c3
  s1 = s1
  low = low
  medium = medium
  mKept = mKept
  mFlaky = mFlaky
  NoModel = NoModel
  Calls <- MCCalls
  Tiers = {low, medium}
  Medium = medium
  TierOf <- MCTierOf
  ModelOrder <- MCModelOrder
  Offered <- MCOffered
  Kept = {mKept}
  Searches = {s1}
  Streaming = {c2}
  Preferred = NoModel
  Limit = 2
  Window = 2
  Interval = 1
  Ttl = 1
  Rest = 2
  MaxFallbacks = 1
  MaxTime = 2
INVARIANTS
  QuotaHeld
  Spaced
PROPERTIES
  RestingModelsRest
  TurnedAwayForGood
  EveryCallEnds
