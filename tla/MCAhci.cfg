SPECIFICATION Spec
CONSTANTS
  SLOTS = 2
  TIMEOUT = 2
  Lbas <- MCLbas
  Buffers = {b1, b2}
  None = None
  Torn = Torn
INVARIANTS
  TypeOK
  NoTransferAfterReturn
PROPERTIES
  SuccessMeansMoved
  CallsReturn
