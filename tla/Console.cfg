\* Five keys, in reads of up to three.
CONSTANTS
  MaxKeys = 5
  Batch = 3
SPECIFICATION ConsoleFairSpec
INVARIANTS KeysReachGuest
PROPERTY QuitIsHonoured
