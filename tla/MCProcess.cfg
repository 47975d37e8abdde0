SPECIFICATION Spec
CONSTANTS
  Programs <- AllPrograms
  PageBytes = 3
  UserIndices = {0, 1}
  KernelIndex = 2
  StackPage <- Stack
  TopPages <- Memories
  MaxRuns = 3
INVARIANTS TreeIsPrivate PagesAccounted ProgramSeesItsFile Cr3IsLive
CHECK_DEADLOCK FALSE
