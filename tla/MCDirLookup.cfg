SPECIFICATION LookupSpec
CONSTANTS
  LAST_CLUSTER = 4
  ENTRIES = 5
  PAGE_ENTRIES = 4
  MAX_LFN = 2
  LongNames <- MCLongNames
  ShortNames <- MCShortNames
  FileData <- MCFileData
  Paths <- MCPaths
  NULL = NULL
INVARIANTS
  LookupTypeOK
  OpenResolves
  ListsTheDirectory
