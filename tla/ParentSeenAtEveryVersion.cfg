SPECIFICATION Spec
CONSTANTS
  Absent = Absent
  ManifestSets <- MCVersions
  Checks <- TierOneChecks
  Hosts <- MCHostNames
INVARIANTS
  ParentSeenAtEveryVersion
CHECK_DEADLOCK FALSE
