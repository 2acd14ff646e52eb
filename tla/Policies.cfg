SPECIFICATION Spec
CONSTANTS
  Absent = Absent
  ManifestSets <- MCManifestSets
  Checks <- PolicyChecks
  NameRank <- Rank
INVARIANTS
  ColdStartExact
  SingleEndpointJudged
  FailoverVerdictExact
  GapReportedOnce
  ConflictReportedOnce
  PolicyOrderIrrelevant
CHECK_DEADLOCK FALSE
