\* Two arrivals at a planet of the player's, who may be upgrading it.
SPECIFICATION FairSpec
CONSTANTS
  p = p
  q = q
  Planets = {p, q}
  Mine = {p}
  Intents <- OnlyUpgrade
  Routes <- FromQ
  Asked = {p}
  NumTxs = 1
  MaxArrivals = 2
  MaxEvents = 2
  MaxBlock = 3
  TravelTimes = {1}
  MaxRefreshes = 1
  maxToResolve = 1
  ARRIVAL_PROVING_BUFFER_BLOCKS = 1
  AZTEC_PLANET_SYNC_INTERVAL_BLOCKS = 1
INVARIANTS ResolvingExact
PROPERTIES EveryArrivalResolves IntentCleared
CHECK_DEADLOCK FALSE
