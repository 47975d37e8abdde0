CONSTANTS
  Scripts <- MCScripts
  Numerals <- MCNumerals
  IntBits = 5
  PoolNodes = 60
  EnvSize = 2
  ArgsSize = 2
  StackDepth = 4
  TokenBound = 6
  FormBound = 3
SPECIFICATION Spec
INVARIANTS ReadsWhatIsWritten RunsAsItMeans
PROPERTIES EveryRoundConsumes
CHECK_DEADLOCK FALSE
