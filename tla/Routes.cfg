SPECIFICATION Spec
CONSTANTS
  Absent = Absent
  ManifestSets <- MCRouteSets
  Checks <- RouteChecks
  Rank <- MCRank
  Hosts <- MCHostNames
  Requests <- MCRequests
INVARIANTS
  SameRequestsSameKey
  PlainKeyTellsApart
  UndecidedPairReportedOnce
  ReportedPairUndecided
  DeadRuleReportedOnce
CHECK_DEADLOCK FALSE
