\* Fairness only on the runtime's own steps; the work may never return.
CONSTANTS
  Requests = {r1, r2, r3}
  MaxConcurrent = 1
  MaxQueued = 1
  Refusals = {}
  Faults = {"internal_error"}
SPECIFICATION FairSpec
PROPERTY EveryCallEnds
