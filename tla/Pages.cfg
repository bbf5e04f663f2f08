\* Three diagnostic runs, four fetches, three lookups or five notices that overlap as
\* they like; two ranges of the bandwidth page, two pages and two nodes.
CONSTANTS
  MaxRuns = 3
  Responses <- MCResponses
  Typed <- MCTyped
  Blank = {""}
  Examples <- MCExamples
  Options = {"auto", "ipv6"}
  Complaint <- MCComplaint
  MaxFetches = 4
  Ranges = {"24h", "7d"}
  MaxLookups = 3
  Entries = {"", "AS201", "192.0.2.0/24"}
  Accepted = {"AS201", "192.0.2.0/24"}
  MaxClicks = 5
  Routes = {"/", "/ping"}
  BgpEnabled = FALSE
  Nodes = {1, 2}
  HasWan = TRUE
SPECIFICATION MCSpec
CHECK_DEADLOCK FALSE
INVARIANTS
  NewestShown
  RetryIsUseful
  ErrorIsCurrent
  OneRunAtATime
  WaitShown
  RangeShown
  LookupShown
  NoticesGo
  ThemeKept
  PageGivenBack
  OneStory
  OneNodePerChart
PROPERTIES
  NeverLockedOut
  NeverGoesBack
