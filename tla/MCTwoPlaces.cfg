\* A trading post is asked to take in an artifact that is on its way.
SPECIFICATION Spec
CONSTANTS
  Planets = {h1, f, t}
  Players = {alice}
  Zero = Zero
  Nowhere = Nowhere
  NoArtifact = NoArtifact
  Contract = Contract
  MaxLocation = MaxLocation
  Mines = {}
  Foundries = {f}
  TradingPosts = {t}
  Banks = {}
  Levelled = {}
  HomeCap = 3
  SilverCap = 4
  Geography <- MCGeography
  DefaultStats <- MCStats
  HOME_PLANET_POPULATION = 4
  MAX_ARRIVALS_PER_BUCKET = 1
  MAX_PLANET_ARTIFACTS = 2
  ShipTypes = {}
  ArtifactTypes = {"monolith"}
  Rarities = {1}
  Buffs <- MCBuffs
  Cooldown <- MCCooldown
  PHOTOID_ACTIVATION_DELAY_BLOCKS = 1
  FIND_WINDOW = 3
  SPACE_JUNK_LIMIT = 6
  Shipments = {0, 2}
  Losses = {0}
  TravelTimes = {1}
  U32 = 64
  MaxArrivals = 3
  MaxBlock = 5
INVARIANT LocationNamesPlanet
CHECK_DEADLOCK FALSE
