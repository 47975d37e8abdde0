SPECIFICATION Spec
CONSTANTS
  PageSize = 2
  BitsPerByte = 2
  MemMap <- AlignedMap
  MaxCount = 3
  NULL = NULL
INVARIANTS TypeOK BitmapIsReserved BitmapTracksHolders FreeMemoryExact
PROPERTY AllocatorSpec
