\* Two players' ships meet on a planet of neither.
SPECIFICATION Spec
CONSTANTS
  Planets = {h1, h2, x}
  Players = {alice, bob}
  Zero = Zero
  Nowhere = Nowhere
  NoArtifact = NoArtifact
  Contract = Contract
  MaxLocation = MaxLocation
  Mines = {}
  Foundries = {}
  TradingPosts = {}
  Banks = {}
  Levelled = {x}
  HomeCap = 3
  SilverCap = 4
  Geography <- MCGeography
  DefaultStats <- MCStats
  HOME_PLANET_POPULATION = 4
  MAX_ARRIVALS_PER_BUCKET = 1
  MAX_PLANET_ARTIFACTS = 2
  ShipTypes = {"mothership", "crescent"}
  ArtifactTypes = {}
  Rarities = {}
  Buffs <- MCBuffs
  Cooldown <- MCCooldown
  PHOTOID_ACTIVATION_DELAY_BLOCKS = 1
  FIND_WINDOW = 3
  SPACE_JUNK_LIMIT = 2
  Shipments = {}
  Losses = {0}
  TravelTimes = {1}
  U32 = 64
  MaxArrivals = 3
  MaxBlock = 4
SYMMETRY MCSymmetry
INVARIANTS ShipInOnePlace CountersMatchShips GrowthMatchesShips
CHECK_DEADLOCK FALSE
