CONSTANTS
  Requests = {r1, r2}
  MaxConcurrent = 1
  MaxQueued = 1
  Refusals = {}
  Faults = {"internal_error"}
SPECIFICATION Spec
INVARIANT EveryFailureIsCounted
