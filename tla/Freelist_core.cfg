SPECIFICATION Spec
CONSTANTS
  IdsPerPage = 4
  CountLimit = 3
  Sizes = {1, 2}
  MaxPage = 5
  MaxTxid = 3
INVARIANTS
  CacheExact
PROPERTIES
  ImplementsSets
