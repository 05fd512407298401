\* A black domain goes off while fleets are on their way to its planet.
SPECIFICATION Spec
CONSTANTS
  Planets = {h1, f}
  Players = {alice}
  Zero = Zero
  Nowhere = Nowhere
  NoArtifact = NoArtifact
  Contract = Contract
  MaxLocation = MaxLocation
  Mines = {}
  Foundries = {f}
  TradingPosts = {}
  Banks = {}
  Levelled = {}
  HomeCap = 3
  SilverCap = 4
  Geography <- MCGeography
  DefaultStats <- MCStats
  HOME_PLANET_POPULATION = 4
  MAX_ARRIVALS_PER_BUCKET = 1
  MAX_PLANET_ARTIFACTS = 2
  ShipTypes = {}
  ArtifactTypes = {"black_domain"}
  Rarities = {1}
  Buffs <- MCBuffs
  Cooldown <- MCCooldown
  PHOTOID_ACTIVATION_DELAY_BLOCKS = 1
  FIND_WINDOW = 3
  SPACE_JUNK_LIMIT = 6
  Shipments = {0, 2}
  Losses = {0}
  TravelTimes = {1, 2}
  U32 = 64
  MaxArrivals = 3
  MaxBlock = 6
INVARIANT DueArrivalsResolve
CHECK_DEADLOCK FALSE
