SPECIFICATION FairStoreSpec
CONSTANTS
  MAX_CHUNK_SIZE = 4
  Planets <- MCPlanets
  SavedBefore = {}
  Imports <- MCImports
  SaveThreshold = 2
  MaxFaults = 0
  worldRadius = 1
  Home <- MCHome
  Steps = {1}
  Cores = {1}
  MaxCandidates = 6
  MaxJobs = 1
PROPERTIES EveryChunkSaved
