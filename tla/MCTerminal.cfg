SPECIFICATION Spec
CONSTANTS
  Printable = {"A"}
  Newline = "newline"
  Silent = "shift"
  MAX_INDEX = 1
  MaxPresses = 3
INVARIANTS
  TypeOK
  TakenInOrder
  SlowTypistServed
PROPERTY NewlineRuns
CHECK_DEADLOCK FALSE
