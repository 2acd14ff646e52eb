SPECIFICATION Spec
CONSTANTS
  Absent = Absent
  ManifestSets <- MCManifestSets
  Checks <- TierOneChecks
  Hosts <- MCHostNames
INVARIANTS
  TypeOK
  NoFalseAlarm
  OneExplanation
  NamedListenerJudged
  SilenceAccountedFor
  AbsentParentIsQuiet
  HostnameVerdictExact
  LoadOrderIrrelevant
CHECK_DEADLOCK FALSE
