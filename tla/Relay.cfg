\* Two requests over one midnight, and a feed of two entries that may hold
\* one already; its clock jumps.
CONSTANTS
  Calls = {r1, r2}
  LastDay = 2
  WorkerCodes = {"busy", "internal_error"}
  Retention = 0
  MaxItems = 2
  MaxTime = 1
SPECIFICATION MCSpec
CHECK_DEADLOCK FALSE
INVARIANTS
  OneAccount
  FeedTrue
  UnlinkableAcrossDays
PROPERTY AbortEnds
