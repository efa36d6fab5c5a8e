\* An address space of three addresses, ranges of up to two, two instructions that
\* access a device and one other exit.
CONSTANTS
  MaxAddr = 2
  Lens = {0, 1, 2}
  Widths = {0, 1, 2}
  MaxInstrs = 2
  MaxExits = 1
  BufLen = 4
SPECIFICATION FairExitSpec
INVARIANTS DispatchExact OverlapIsRefused AnswersAreExact ErrorsAreReal CommandsAreWanted
PROPERTY InstructionCompletes
