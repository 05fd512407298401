\* Two transactions, of all fates; others move and the chain is read meanwhile.
SPECIFICATION Spec
CONSTANTS
  p = p
  q = q
  Planets = {p, q}
  Mine = {}
  Intents <- MoveAndReveal
  Routes <- FromQ
  Asked = {p}
  NumTxs = 2
  MaxArrivals = 1
  MaxEvents = 3
  MaxBlock = 3
  TravelTimes = {1}
  MaxRefreshes = 1
  maxToResolve = 0
  ARRIVAL_PROVING_BUFFER_BLOCKS = 1
  AZTEC_PLANET_SYNC_INTERVAL_BLOCKS = 1
INVARIANTS TypeOK NeverDrawnTwice NothingLeftBehind LostOnlyByErrors
CHECK_DEADLOCK FALSE
