\* One player takes a foundry, finds an artifact, uses it and carries it about.
\* Planets are claimed, revealed and flown to meanwhile, and listed.
SPECIFICATION RegistrySpec
CONSTANTS
  location_reveal_cooldown = 1
  Planets = {h1, f}
  Players = {alice}
  Zero = Zero
  Nowhere = Nowhere
  NoArtifact = NoArtifact
  Contract = Contract
  MaxLocation = MaxLocation
  Mines = {}
  Foundries = {f}
  TradingPosts = {}
  Banks = {}
  Levelled = {}
  HomeCap = 3
  SilverCap = 4
  Geography <- MCGeography
  DefaultStats <- MCStats
  HOME_PLANET_POPULATION = 4
  MAX_ARRIVALS_PER_BUCKET = 1
  MAX_PLANET_ARTIFACTS = 2
  ShipTypes = {}
  ArtifactTypes = {"planetary_shield", "photoid_cannon", "monolith", "bloom_filter", "wormhole"}
  Rarities = {1}
  Buffs <- MCBuffs
  Cooldown <- MCCooldown
  PHOTOID_ACTIVATION_DELAY_BLOCKS = 1
  FIND_WINDOW = 3
  SPACE_JUNK_LIMIT = 6
  Shipments = {0, 2}
  Losses = {0}
  TravelTimes = {1}
  U32 = 64
  MaxArrivals = 3
  MaxBlock = 5
INVARIANTS IndicesExact LocationNamesPlanet ArtifactNotLost BurnedIsGone StatsMatchActive
CHECK_DEADLOCK FALSE
