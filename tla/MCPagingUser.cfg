SPECIFICATION Spec
CONSTANTS
  Indices <- MCIndices
  FIRST_TABLE = 4
  TABLES_END = 16
  KernelPages <- MCKernelPages
  KernelFrames = {f1, f2}
  BootMaps <- MCBootMaps
  Unmapped = Unmapped
INVARIANT UserPagesReachable
