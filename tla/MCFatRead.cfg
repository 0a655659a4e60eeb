SPECIFICATION Spec
CONSTANTS
  LAST_CLUSTER = 3
  CLUSTER_UNITS = 2
  MAX_CLUSTERS_CHAIN = 2
  FileSizes <- MCSizes
  FirstClusters <- MCFirst
  Offsets <- MCOffsets
  Lengths <- MCLengths
  MaxFound = 2
  ClusterBytes = 2
  SectorBytes = 1
  Sizes <- MCBufferSizes
  PAGE_SIZE = 1
  DMA_MAX_PAGES = 3
  WINDOW_PAGES = 4
  Unmapped = Unmapped
INVARIANTS
  TypeOK
  CompleteUnlessFailed
  OnlyLookupsLeak
  TransfersContiguous
PROPERTIES
  RefinesContract
