\* Two fatal signals at any moment, two vCPUs.
CONSTANTS
  MaxSignals = 2
  NumCpus = 2
SPECIFICATION FairSpec
INVARIANTS TerminalIsRestored VmIsDestroyed
 
