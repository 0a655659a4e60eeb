SPECIFICATION PoolSpec
CONSTANTS
  DMA_MAX_PAGES = 3
  WINDOW_PAGES = 5
  PAGE_SIZE = 2
  Sizes <- MCSizes
  Unmapped = Unmapped
INVARIANTS
  FramesExclusive
  BuffersIntact
  NoFrameLost
