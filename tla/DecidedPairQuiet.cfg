SPECIFICATION Spec
CONSTANTS
  Absent = Absent
  ManifestSets <- MCHostnames
  Checks <- RouteChecks
  Rank <- MCRank
  Hosts <- MCHostNames
  Requests <- MCRequests
INVARIANTS
  DecidedPairQuiet
CHECK_DEADLOCK FALSE
