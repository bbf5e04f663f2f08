\* One slot, a line of up to two, so that its order matters, and a request
\* left over to be turned away.
CONSTANTS
  Requests = {r1, r2, r3, r4}
  MaxConcurrent = 1
  MaxQueued = 2
  Refusals = {"destination_blocked"}
  Faults = {"internal_error"}
SYMMETRY RequestSymmetry
SPECIFICATION Spec
INVARIANTS
  NothingLeaks
  BookedHonestly
PROPERTY ImplementsAdmission
