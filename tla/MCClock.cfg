SPECIFICATION ClockSpec
CONSTANTS
  SCALE_FACTOR = 2
  TICKS = 4
  SECONDS = 2
  TIMEOUT = 3
  STAGES = 4
  STORAGE = {1, 2}
  FONT = 2
  INT_MAX = 14
  Requests = {0, 5, 8, 14, 15, 29, 30, 37}
  Delays = {1, 2, 5}
  MaxTick = 18
CHECK_DEADLOCK FALSE
INVARIANTS
  ClockConsistent
  OnlyASlowBootIsStopped
PROPERTIES
  HangIsCaught
  WaitsEnd
