SPECIFICATION Spec
CONSTANTS
  PageSize = 2
  UserTop = 6
  Width = 16
  SizeWidth = 8
  Addresses = {0, 1, 2, 3, 5, 6, 15}
  Sizes = {0, 1, 2, 3, 7, 9}
  FileSizes = {0, 1, 2, 3, 6, 7}
INVARIANTS KernelStaysInUserMemory RefusesExactlyTheBad
PROPERTY SyscallsReturn
