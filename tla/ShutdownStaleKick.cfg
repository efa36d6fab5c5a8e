CONSTANTS
  NumCpus = 2
  MayPanic = FALSE
SPECIFICATION Spec
INVARIANTS KickTargetsValid
