\* Every table of three descriptors, with a fourth index outside guest memory.
\* Seven bytes of image make three sectors of two; sector 2 is the last one,
\* 7 overflows with the length added and 8 by itself.  A used length wraps at 3,
\* which a read of the longer buffer reaches with its status byte.
CONSTANTS
  Num = 3
  Readable = 3
  Indices = {0, 1, 2, 3}
  BufLen <- MCBufLen
  Writable = {1, 2}
  Outside = {2}
  SectorSize = 2
  FileLen = 7
  IdBytes = 1
  Sectors = {0, 2, 3, 7, 8}
  MaxU64 = 15
  U32 = 3
SPECIFICATION BackendSpec
INVARIANTS FittingChainIsWhole OkMeansDone DiskHoldsAPrefix UsedLengthIsExact ErrorsAreEarned
PROPERTY ChainComesBack
