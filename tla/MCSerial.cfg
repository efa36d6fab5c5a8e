\* A FIFO of five bytes and triggers 1 and 4: below, at and above the trigger,
\* and full.
CONSTANTS
  b1 = b1
  FIFO_CAP = 5
  Bytes = {b1}
  Batches <- MCBatches
  IerValues <- MCIerValues
  McrValues <- MCMcrValues
  TriggerCodes = {0, 1}
SPECIFICATION FairSpec
INVARIANTS LineFollowsRegisters
PROPERTY ResidualBytesSignalled
