\* Two vCPUs, the reader and main.
CONSTANTS
  NumCpus = 2
  MayPanic = TRUE
SPECIFICATION FairSpec
INVARIANTS KicksCover ErrorsAreReported
PROPERTIES ShutdownCompletesUnlessMissed ShutdownCompletes
