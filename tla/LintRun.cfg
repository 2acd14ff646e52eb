SPECIFICATION FairSpec
CONSTANTS
  policy = policy
  route = route
  backend = backend
  service = service
  broken = broken
  coldStart = coldStart
  servesNothing = servesNothing
  emptyBackend = emptyBackend
  btp = btp
  httproute = httproute
  egBackend = egBackend
  svc = svc
  NoPath = ""
  Object <- MCObject
  Invalid <- MCInvalid
  Path <- MCPath
  Gvk <- MCGvk
  Kind <- MCKind
  Check <- MCCheck
  Format = {"plain", "json", "sarif", "yaml"}
  KnownFormat = {"plain", "json", "sarif"}
  FileOf <- MCFileOf
  GvkOf <- MCGvkOf
  KindOf <- MCKindOf
  Matcher <- MCMatcher
  Scope <- MCScope
  Ignored <- MCIgnored
  Finds <- MCFinds
  Builtin <- MCBuiltin
  Loads <- MCLoads
  Requests <- MCRequests
INVARIANTS
  TypeOK
  ReportsWholeSet
  EachReportOnce
  SummaryMatchesRun
  CleanExitIsTrustworthy
  OutputsAccountedFor
  IInv
PROPERTIES
  KeepsPromise
  Terminates
CHECK_DEADLOCK FALSE
