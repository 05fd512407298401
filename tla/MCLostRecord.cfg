\* One transaction is cancelled while another is under way.
SPECIFICATION Spec
CONSTANTS
  p = p
  q = q
  Planets = {p, q}
  Mine = {}
  Intents <- MoveAndReveal
  Routes <- FromQ
  Asked = {}
  NumTxs = 2
  MaxArrivals = 1
  MaxEvents = 4
  MaxBlock = 3
  TravelTimes = {1}
  MaxRefreshes = 1
  maxToResolve = 0
  ARRIVAL_PROVING_BUFFER_BLOCKS = 1
  AZTEC_PLANET_SYNC_INTERVAL_BLOCKS = 1
PROPERTIES RemovesOwnRecord
CHECK_DEADLOCK FALSE
