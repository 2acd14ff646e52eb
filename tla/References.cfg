SPECIFICATION Spec
CONSTANTS
  Absent = Absent
  ManifestSets <- MCReferenceSets
  Checks <- ReferenceChecks
INVARIANTS
  DanglingIsAbsent
  GrantVerdictExact
  VerdictIsLocal
  RepairSettles
CHECK_DEADLOCK FALSE
