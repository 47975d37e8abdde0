SPECIFICATION Spec
CONSTANTS
  Slack = 3
  PoolSize = 5
  ClusterBytes = 1
  Printable <- PrintableKeys
  Files <- FileSet
  Absent = Absent
  MaxSessions = 2
INVARIANTS TypeOK VerticalMoves
PROPERTY ImplementsTextEditor
CHECK_DEADLOCK FALSE
