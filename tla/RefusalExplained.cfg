SPECIFICATION Spec
CONSTANTS
  Absent = Absent
  ManifestSets <- MCKinds
  Checks <- TierOneChecks
  Hosts <- MCHostNames
INVARIANTS
  RefusalExplained
CHECK_DEADLOCK FALSE
