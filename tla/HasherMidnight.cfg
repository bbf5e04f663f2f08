CONSTANTS
  Calls = {c1, c2, c3, c4}
  LastDay = 2
SPECIFICATION Spec
CHECK_DEADLOCK FALSE
INVARIANT CorrelatableWithinDay
