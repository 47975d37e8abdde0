SPECIFICATION Spec
CONSTANTS
  Byte = 2
  Nibble = 2
  Contents <- SectorContents
  Boot = "boot"
  Junk = "junk"
  BlockSize = 2
  SizeDigits = 3
  NameLen = 2
  ExtLen = 1
  Upper <- UpperLetters
  Worlds <- SomeWorlds
  Files = {"a", "b", "d"}
  Sectors = {6}
  Formatted <- FirstContents
  Payload = "new"
INVARIANTS FramesOnKernelStack SegmentsFitRing ReadsSeeWrites
  ArchiveAsWritten EntryNamesRoundTrip PowersOff
PROPERTIES DevicesAreHandled DiskCallsReturn KeysAreTaken
CHECK_DEADLOCK FALSE
