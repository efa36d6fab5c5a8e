CONSTANTS
  NumCpus = 1
  MayPanic = FALSE
SPECIFICATION FairSpec
PROPERTIES QuitStopsVm
