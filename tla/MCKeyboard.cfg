SPECIFICATION FairSpec
CONSTANTS
  BufSize = 3
  Keys = {"letter", "arrow", "shift", "printscreen"}
  MaxKeys = 5
INVARIANTS NoGhostKeys NothingLostWithoutOverrun DecodesKeystrokes
PROPERTY KeysAreDelivered
