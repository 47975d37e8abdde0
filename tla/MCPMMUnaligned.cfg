SPECIFICATION Spec
CONSTANTS
  PageSize = 2
  BitsPerByte = 2
  MemMap <- UnalignedMap
  MaxCount = 3
  NULL = NULL
INVARIANT BitmapIsReserved
