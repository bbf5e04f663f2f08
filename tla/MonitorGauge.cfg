CONSTANTS
  Families <- MCFamilies
  Targets <- MCTargets
  Interval = 1
  Window = 2
  MaxPoints = 2
  Recent = 3
  MaxTime = 4
SPECIFICATION MonitorSpec
CHECK_DEADLOCK FALSE
INVARIANT UpIsMostRecent
