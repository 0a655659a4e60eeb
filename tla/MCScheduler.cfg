SPECIFICATION Spec
CONSTANTS
  POOL = 4
  ROUNDS = 3
INVARIANTS NullNotFollowed RunsBounded
PROPERTY PriorityFirst
