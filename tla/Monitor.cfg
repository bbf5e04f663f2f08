\* A window of up to four samples, plotted as two points.
CONSTANTS
  Families <- MCFamilies
  Targets <- MCTargets
  Interval = 1
  Window = 2
  MaxPoints = 2
  Recent = 3
  MaxTime = 4
SPECIFICATION MonitorFairSpec
CHECK_DEADLOCK FALSE
INVARIANTS
  SamplingKept
  SnapshotCoherent
PROPERTY StopEnds
