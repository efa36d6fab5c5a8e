\* Three slots, indices that wrap at 6.
CONSTANTS
  QueueSize = 3
  IdxMod = 6
SPECIFICATION FairSpec
INVARIANT HeadIsOutstanding
PROPERTIES ImplementsQueue NothingStranded
