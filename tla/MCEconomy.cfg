\* A silver mine feeds a planet that can be upgraded; an artifact goes in and out of
\* a trading post.
SPECIFICATION Spec
CONSTANTS
  Planets = {h1, m, f, t, x}
  Players = {alice}
  Zero = Zero
  Nowhere = Nowhere
  NoArtifact = NoArtifact
  Contract = Contract
  MaxLocation = MaxLocation
  Mines = {m}
  Foundries = {f}
  TradingPosts = {t}
  Banks = {}
  Levelled = {x}
  HomeCap = 3
  SilverCap = 10
  Geography <- MCGeography
  DefaultStats <- MCStats
  HOME_PLANET_POPULATION = 4
  MAX_ARRIVALS_PER_BUCKET = 1
  MAX_PLANET_ARTIFACTS = 1
  ShipTypes = {}
  ArtifactTypes = {"monolith"}
  Rarities = {1}
  Buffs <- MCBuffs
  Cooldown <- MCCooldown
  PHOTOID_ACTIVATION_DELAY_BLOCKS = 1
  FIND_WINDOW = 3
  SPACE_JUNK_LIMIT = 5
  Shipments = {0, 2}
  Losses = {0}
  TravelTimes = {1}
  U32 = 64
  MaxArrivals = 2
  MaxBlock = 4
INVARIANTS SilverAccounted ArtifactNotLost
CHECK_DEADLOCK FALSE
