SPECIFICATION Spec
CONSTANTS
  Absent = Absent
  ManifestSets <- MCCoverage
  Checks <- CoverageChecks
  NameRank <- Rank
INVARIANTS
  DisplacedPolicyQuiet
CHECK_DEADLOCK FALSE
