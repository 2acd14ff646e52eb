SPECIFICATION Spec
CONSTANTS
  Absent = Absent
  ManifestSets <- MCUnplaced
  Checks <- ReferenceChecks
INVARIANTS
  LocalCertificateNeedsNoGrant
CHECK_DEADLOCK FALSE
