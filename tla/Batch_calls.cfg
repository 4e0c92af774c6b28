SPECIFICATION FairSpec
CONSTANTS
  Calls = {c1, c2, c3}
  BatchSizes = {0, 2, 3}
  None = None
CHECK_DEADLOCK FALSE
INVARIANTS
  EffectMatchesAnswer
  OneMessagePerCall
  BatchSizeBounded
PROPERTIES
  EveryCallReturns
