SPECIFICATION Spec
CONSTANTS
  Absent = Absent
  ManifestSets <- MCListenerSets
  Checks <- ListenerChecks
INVARIANTS
  ConflictReportedOnce
  IdleGatewayExact
  TerminatingListenerHasOneJudge
CHECK_DEADLOCK FALSE
