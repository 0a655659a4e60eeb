SPECIFICATION Spec
CONSTANTS
  FIRST_LBA = 5
  RESERVED = 1
  FAT_SIZE = 2
  NUM_FATS = 2
  SPC = 2
  SLOTS = 8
  DIR_SLOTS = 2
  InUse <- MCInUse
INVARIANTS
  TypeOK
  MarksBeforeDirectory
