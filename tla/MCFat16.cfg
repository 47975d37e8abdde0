SPECIFICATION FairSpec
CONSTANTS
  A = A
  B = B
  C = C
  D = D
  Names = {A, B, C, D}
  SubDir = D
  NoName = NoName
  Absent = Absent
  total_clusters = 5
  FatPerSector = 4
  RootEntries = 3
  EntriesPerSector = 2
  MaxSize = 2
  MaxWrites = 3
  MaxCrashes = 1
INVARIANTS ChainsIntact NoLostClusters CopiesAgree DirectoryWellFormed
PROPERTY ImplementsFileStore
PROPERTY CallsReturn
