\* Two homes, two players: fleets fight over both, queue up and are abandoned to.
\* Whatever is sent arrives, as long as blocks are produced and someone resolves.
SPECIFICATION FairSpec
CONSTANTS
  Planets = {h1, h2}
  Players = {alice, bob}
  Zero = Zero
  Nowhere = Nowhere
  NoArtifact = NoArtifact
  Contract = Contract
  MaxLocation = MaxLocation
  Mines = {}
  Foundries = {}
  TradingPosts = {}
  Banks = {}
  Levelled = {}
  HomeCap = 3
  SilverCap = 4
  Geography <- MCGeography
  DefaultStats <- MCStats
  HOME_PLANET_POPULATION = 4
  MAX_ARRIVALS_PER_BUCKET = 2
  MAX_PLANET_ARTIFACTS = 1
  ShipTypes = {}
  ArtifactTypes = {}
  Rarities = {}
  Buffs <- MCBuffs
  Cooldown <- MCCooldown
  PHOTOID_ACTIVATION_DELAY_BLOCKS = 1
  FIND_WINDOW = 3
  SPACE_JUNK_LIMIT = 2
  Shipments = {0, 2}
  Losses = {0}
  TravelTimes = {1, 2}
  U32 = 64
  MaxArrivals = 3
  MaxBlock = 5
INVARIANTS TypeOK QueueExact ClockBehindArrivals OwnedPopulated
PROPERTIES LandInOrder OwnersChangeByArms EveryArrivalLands ArrivalsAreVoyages
CHECK_DEADLOCK FALSE
