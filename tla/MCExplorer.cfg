SPECIFICATION FairSpec
CONSTANTS
  MAX_CHUNK_SIZE = 4
  Planets <- MCPlanets
  SavedBefore <- MCSaved
  Imports <- MCImports
  SaveThreshold = 2
  MaxFaults = 1
  worldRadius = 1
  Home <- MCHome
  Steps = {1, 2}
  Cores = {1, 2}
  MaxCandidates = 6
  MaxJobs = 2
INVARIANTS TypeOK SlicesAddUp OneChunkPerJob WholeChunks Canonical WritesTell QueuedIsScheduled
PROPERTIES BoardGrows WorldExplored
