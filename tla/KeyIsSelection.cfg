SPECIFICATION Spec
CONSTANTS
  Absent = Absent
  ManifestSets <- MCMatches
  Checks <- RouteChecks
  Rank <- MCRank
  Hosts <- MCHostNames
  Requests <- MCRequests
INVARIANTS
  KeyIsSelection
CHECK_DEADLOCK FALSE
