SPECIFICATION BootSpec
CONSTANTS
  Machines <- MCMachines
  NodeSize = 1
  WatchdogSize = 2
  HeaderSize = 2
  FONT_PATH = 3
  PROGRAM_PATH = 5
  NULL = NULL
  PINS = 8
  MAX_ISO_ENTRIES = 2
  LEGACY = LEGACY
  S5_NAME = S5_NAME
  PAGE = 2
  PT_ENTRIES = 4
  TRACKED = 8
  Regions = {1, 2, 5}
  HEAP_ALIGN = 2
  IDENTITY = {0, 1, 2, 3, 4, 5, 6}
  HEAP_SIZE = 48
  AHCI_IN_HEAP = {38, 39}
  HEAP_FRAME = HEAP_FRAME
INVARIANTS
  BootTypeOK
  DiskFound
  KeyboardRouted
  ShutdownWritesS5
  ProgramLoaded
PROPERTY BootEnds
CHECK_DEADLOCK FALSE
