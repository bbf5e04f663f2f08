CONSTANTS
  OutCap = 2
  ErrCap = 1
  PipeSize = 2
  MaxWrites = 4
SPECIFICATION FairSpec
INVARIANTS
  NoOrphan
  TruncationReported
PROPERTY RunEnds
