SPECIFICATION Spec
CONSTANTS
  Rows = 2
  Cols = 3
  SizeMax = 4
  Chars <- Typeable
  Prompt <- PromptCells
  Message <- MessageCells
  Commands <- ShellCommands
  LineSize = 6
  NameSize = 3
  ArgsSize = 3
  MaxKeys = 8
INVARIANTS EchoMatchesCommand RunsWhatWasTyped
CHECK_DEADLOCK FALSE
