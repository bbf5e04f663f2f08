\* Every text with a ping, and a few with every kind, family and record type.
CONSTANTS
  ExtraCidrs <- MCExtraCidrs
  ExtraSuffixes = {}
  Requests <- MCRequests
  Records <- MCRecords
  Paths <- MCPaths
  ReverseDns = TRUE
  Redact = TRUE
SPECIFICATION Spec
CHECK_DEADLOCK FALSE
INVARIANTS
  LiteralJudged
  PageAgrees
  RestrictedUntouched
  PathShown
  NamesCostNothing
