# A TLA+ model of gwlint

gwlint is a command-line linter for Kubernetes Gateway API and Envoy Gateway
manifests.  It loads a set of YAML documents, runs some twenty-seven checks over
the whole set with kube-linter's engine, writes the findings to one or more
outputs and turns the result into an exit status.  This directory models that
program in TLA+, checks the models with TLC on small instances, and proves the
properties that matter most with TLAPS.

## The system

| Part | Source | State and operations | What makes it right |
|---|---|---|---|
| lint command | `pkg/command/lint/command.go`, `merge.go`, `cmd/gwlint/main.go` | one pass: load checks, create contexts, merge them, guard against an empty set, run, summarize, pair formats with outputs, write each, conclude; every step may return early | the reports are those of the *union* of all contexts; a 0 exit can be trusted; one failing output costs no other one and is never silent |
| scan summary | `pkg/command/lint/scanned.go` | recounts, on its own, what the engine looked at | its counts agree with what was really run, or differ by what is known to be left out |
| parents, listeners, hostnames | `pkg/gatewayapi/parent.go`, `attach.go`, `listenerselect.go` | indexes over the set; what a listener admits | agrees with what Gateway API would attach and serve |
| routes, rules | `pkg/gatewayapi/route.go`, `rules.go`, `rulenames.go`, `routematch.go` | projections of the typed objects; the canonical key of a match | no kind or version is lost; matches of the same requests have one key, and different ones two |
| certificates, gateways | `pkg/gatewayapi/certificate.go`, `gateway.go`, `gatewaylistener.go`, `gatewayclass.go` | projections; which Secrets are there or will be | nothing that is there is called missing |
| Tier 1: silent non-attachment | five packages under `pkg/templates/` | pure functions (set, object) -> findings | no false alarm, one explanation each, nothing falls between two checks |
| Tier 2: reference integrity | seven packages | the same | a reference is flagged only when the set shows it cannot resolve |
| Tier 3: route semantics | five packages | the same | a pair of routes is reported once, from one side |
| Tier 4: listener validity | five packages | the same | two listeners conflict exactly if Gateway API cannot tell them apart |
| Tier 5: Envoy Gateway | five packages, `policycoverage.go`, `coverage.go` | the same; a most-specific-wins search over policies, Gateways, listeners and rules | a policy is credited for a route exactly where it wins |
| check registry | `pkg/builtinchecks`, `pkg/templates/all` | embedded YAML, loaded once | every template registered and enabled |
| decoder, object kinds | `pkg/decoder`, `pkg/objectkinds` | a scheme filled in `init` | every kind and version a check needs decodes to a type it knows |
| root, `version`, `templates` | `pkg/command/root`, `pkg/version` | flag wiring, printing | - |

The parts interact by plain calls: `RunE` hands one merged context to
kube-linter's `run.Run`, which calls each check's function with that context and
one object at a time; the checks share the indexes of `pkg/gatewayapi` and no
mutable state.  Nothing is concurrent and nothing is persisted, so the hard
behaviours are of three other kinds.

* *Partial failure and early returns* in the one pass of `RunE`: which of its
  returns is taken, after which outputs were written.
* *Agreement between independent walks over the same data*: several checks split
  one question between them ("why does this route not attach?", "which policy
  rules here?", "does a grant cover this?") and each leaves part of it to the
  others by comment only; the summary recounts what the engine did; each of two
  routes, policies or listeners in conflict decides for itself whether it is the
  one to report.
* *Partial manifest sets and load order*: an absent object may simply live in
  another repository, and the order files are named in must not matter.

## Modules

| Module | Models | How |
|---|---|---|
| `LintVerdict` | what one invocation promises | abstract specification: publish the violations of the whole set, then answer |
| `LintRun` | `RunE`, `mergeContexts`, `summarize`, `main` | one action per step and per early return; `pc` is the place in `RunE`, `at` the loop it is in |
| `Hostnames` | hostname overlap of `attach.go` | pure; a hostname is the sequence of its labels |
| `GatewayAPI` | the shared vocabulary of `pkg/gatewayapi` | pure; a manifest set is a sequence of records in load order |
| `Engine` | kube-linter's loop over objects and checks (external) | `Load` takes one of `ManifestSets`; `Judge` is one call of a check function; the modules that extend it supply the checks |
| `Attachment` | the five Tier 1 checks | extends `Engine`: one action per check |
| `Certificates` | `certificate.go`, `gateway.go`, `gatewaylistener.go` | pure: listeners' TLS blocks, the Secrets that exist or will |
| `References` | six Tier 2 checks and their grant matchers | extends `Engine`, `Certificates`, `PolicyCoverage`: one action per check |
| `Routes` | the five Tier 3 checks | extends `Engine`: one action per check |
| `Listeners` | the five Tier 4 checks | extends `Engine`, `Certificates`, `PolicyCoverage`: one action per check |
| `PolicyCoverage` | `policycoverage.go`: which routes a policy covers, and when it is displaced | pure |
| `Policies` | the five Tier 5 checks and `dangling-policy-target` of Tier 2 | extends `Engine`, `PolicyCoverage`: one action per check |
| `MCLintRun`, `MCAttachment`, `MCReferences`, `MCRoutes`, `MCListeners`, `MCPolicies` | - | the small instances TLC checks |
| `EngineProofs` | - | lemmas about the engine's loop, whatever its checks report |
| `LintRunProofs`, `HostnamesProofs`, `AttachmentProofs`, `ReferencesProofs`, `RoutesProofs`, `ListenersProofs`, `PoliciesProofs` | - | theorems about the module each is named for |

### LintRun and LintVerdict

`contexts` is what `CreateContexts` finds (any list of contexts in `Loads`),
`merged` the `mergedLintContext` it is folded into, one context per
`MergeContext`.  `RunCheck` is one check and one object of `run.Run`, whose
behaviour is external: the matcher is asked first, then the object's ignore
annotations (`Ignored[o]`, the checks kube-linter skips for it), then the function
is handed the merged objects and every diagnostic of the slice it returns becomes a
report `<<check, object, i>>`.  How many diagnostics a check returns of an object is
the constant `Finds[c][S][o]`, so the model speaks of *every* check that is a
function of the set it is given; MC uses one that looks for correlated objects and
reports two rules of one of them, the case merging exists for.
`ValidateAndPairFormatsOutputs` is handed the formats `FormatterByType` knows, so
`PairOutputs` lets no other pass and the error return inside the write loop
(`command.go:149`) has no action: nothing reaches it.
`WritePair` is one round of the write loop with its four outcomes: no
destination, the formatter fails midway (the file is left truncated), only
`Close` fails, or the file is whole.  `examined` is a history variable: the
pairs a check was really run on.

`summarize` asks the matchers and not the annotations, so what it counts as checked
is not what a check ran on.  `SummaryMatchesRun` states by how much it is off: by
the objects annotated to skip every enabled check that matches them.

`LintVerdict` says what a user relies on: at some point the findings of the
whole manifest set may become visible, all at once; the answer is "clean" only
after an empty result was published or if there was nothing to check, "findings"
only after a non-empty one, and "error" at any time.  `LintRun` implements it
under the mapping in its `Promise` instance: `document` is what a whole output
holds, `manifests` the union of all contexts.

### GatewayAPI, Engine and Attachment

The YAML objects are records with just the fields the checks read; a nil pointer
is `Absent`.  A hostname is a sequence of labels, because every cut `attach.go`
makes falls before a dot.  `Load` takes a whole manifest set in some load order
(object identities are unique, as the README of the repository demands), and
`DanglingParentRef`, `HostnameNeverMatches`, `ListenerNotFound`,
`ProtocolMismatch` and `RouteNotPermitted` run one check function on one object,
in the engine's order.  A finding is the check, the object and what of it was
reported; messages are left out.  `Admits` and `Attaches`, next to the
properties, are the reference: what Gateway API says, written as one predicate,
against which the split verdicts of the checks are compared.  `RefusalIsSplit`
names the one split in which each check leaves the refusal to another, and
`RefusalIsUnseen` the listener that lists foreign kinds only, whose empty list of
accepted kinds the code takes for "accepts anything".

### Certificates and References

`References` resolves what an object names: `dangling-backend-ref`,
`missing-reference-grant`, `missing-certificate-grant`,
`dangling-certificate-ref`, `dangling-gateway-class` and
`dangling-listenerset-parent`, each with its own guard against partial sets.
The two grant collectors and matchers (`grants.go` and the certificate check's own)
are both translated, each with its own list of versions; the reference `GrantsIn`
asks for no version.  A Secret counts as there when it, or a cert-manager `Certificate`
that will create it, is in the set.  The reference is `Provides` (an object of
the set is what a reference means, at any served version) and `Granted` (Gateway
API's rule for a ReferenceGrant); `Target` says what a finding is about and
`Repair` builds the object it asks for, and `News` what a check says of the set with
that object that it did not say before.  `LivesIn` says which namespace an object
describes; a GatewayClass, being cluster-scoped, describes none.

### Routes

`conflicting-route-match` compares every two HTTPRoutes over the listeners they
share: `AttachmentsOf`, `ContestedHostnames` and `CanonicalHTTPMatch` are its own
walk, with its own idea of which listeners a route attaches to.  A text is a
sequence of words, and the separators the code puts between texts are words like any
other, which a value may hold too: `CanonicalHTTPMatch` joins path, method, sorted
headers and sorted parameters without escaping, as the code does.  A header name is
kept as spelled and as folded.  The reference is concrete: `Hosts` and `Requests`
are what clients may ask for, `Selects` says whether a match takes a request,
`ClaimOf` by which hostname a route claims a host, and `Undecided` that neither
hostname nor match nor age decides.  `ReadBySelects` sets apart the matches the
reference does not read (with a regular expression, or with one entry written
twice), `PathTidy` those whose prefix path ends in no slash, `Plain` those with no
separator inside a value, and `Narrowed` the pairs in which a more specific hostname
takes requests from a shared one. `all-weights-zero`, `rule-serves-nothing`,
`duplicate-rule-name` and `service-backend-without-port` read the rules of one
route.

### Listeners

`conflicting-listeners` groups the listeners of one owner by port and then by
`KeyOf`, and compares protocol classes; `duplicate-listener-name`,
`tls-listener-without-certificate`, `hostname-on-non-hostname-protocol` and
`gateway-serves-no-routes` complete the tier.  `AttachPoints` is the last one's own
list of what lies under a Gateway; it is compared with the walk the policy checks
use (`RoutesAttachedToGateway`), and `ForeignSetsNaming` is where the two part:
ListenerSets whose parent has the Gateway's name and another group or kind.
`Refused` is the reference for two listeners that cannot both be programmed.

### PolicyCoverage and Policies

`Coverage` is the slice `CoveredRoutes` builds, one record per element: the
target (or selector) it came by, the ListenerSet on the way (`via`, 0 for none),
the route, whether the coverage is inherited from a parent, and the rule it is
narrowed to.  `fqdn-backend-cold-start` has a copy of this walk in its own
`coverage.go`, with its own rule for when a policy is displaced
(`IsOverridden`, against `MoreSpecificPolicyCovers`); both are mapped, and the
properties compare what the two checks make of them.

The reference reads the same question off the route instead of off the policy:
`NamedScopes` are the rules a policy names of a route, or all of it; `NamesRule`
says that a rule is among them, `ReachesFromAbove` that the policy comes down
through a Gateway or ListenerSet, and `InEffect` that the former displace the
latter.  `OneDestination` is what health-check-without-failover looks for: one
backendRef to a Backend with one endpoint.  Duration syntax is abstracted to the
field `retry`. Label selectors are read as apimachinery reads them:
`ParsesAsSelector` is what `LabelSelectorAsSelector` accepts (an operator it does
not know, `In` without values or `Exists` with some, and the selector selects
nothing), `Requires` what one expression asks of the labels; the syntax of label
names and values is left out.

## Runs

| Run | Shows |
|---|---|
| `lint_run` | reports, summary, outputs and exit status agree for every split and every failure (`ReportsWholeSet`, `EachReportOnce`, `SummaryMatchesRun`, `CleanExitIsTrustworthy`, `OutputsAccountedFor`); the invariant the proofs use (`IInv`); the promise of `LintVerdict` is kept (`KeepsPromise`); the command returns (`Terminates`) |
| `attachment` | no false alarm, at most one explanation, every named listener judged, absent parents left alone; the four cases in which a failed attachment stays unexplained, and no other (`SilenceAccountedFor`); the hostname verdict is exact against concrete client hostnames; load order is irrelevant |
| `references` | what is called missing is missing at every served version (`DanglingIsAbsent`); grants are judged by Gateway API's rule (`GrantVerdictExact`); a verdict about a namespace depends only on the objects of that namespace (`VerdictIsLocal`); adding what a finding asks for settles it and gives no check anything new to say, but for the grant that is the first of its namespace and asked for by a listener (`RepairSettles`) |
| `routes` | matches of the same requests have one key, however defaults, case and order are written, trailing slashes aside (`SameRequestsSameKey`); matches of one key select the same requests unless a value holds a separator (`PlainKeyTellsApart`); an undecided pair is reported once (`UndecidedPairReportedOnce`) and, unless a more specific hostname narrows a shared one, only such pairs are (`ReportedPairUndecided`); a rule that serves nothing is reported by one check (`DeadRuleReportedOnce`) |
| `listeners` | every conflict is named by one finding (`ConflictReportedOnce`); idleness agrees with the policy checks' walk but for what hangs on foreign parents (`IdleGatewayExact`); a terminating TLS listener is judged by one of two checks, but for one with an empty mode and certificates (`TerminatingListenerHasOneJudge`) |
| `policies` | the cold-start verdict is exact against the reference (`ColdStartExact`); a single-endpoint route under a policy is judged by one of the two health checks (`SingleEndpointJudged`); health-check-without-failover is exact as well (`FailoverVerdictExact`); no gap is reported twice for one target (`GapReportedOnce`); a contested slot is reported by one of its claimants (`ConflictReportedOnce`); load order decides nothing (`PolicyOrderIrrelevant`) |

and six that end in a counterexample, each a disagreement between a sentence of
the repository and the code:

| Run | The code does | The repository says |
|---|---|---|
| `attachment_refusal` | explains nothing when one listener refuses by its protocol and another by its kinds | `routenotpermitted`: `whyNoneAdmit` is "" only "if any one of them admits it" |
| `attachment_versions` | reports a parentRef to a v1beta1 Gateway as dangling | `objectkinds`: "whichever version it was written in" |
| `references_unplaced` | judges the certificateRefs of a Gateway without `metadata.namespace` as cross-namespace | `missingcertificategrant`: "A reference within the listener's own namespace needs no grant", and `missingreferencegrant` turns such objects away |
| `routes_decided` | reports two routes that share a wildcard on a listener whose one host an exact hostname decides | `conflictingroutematch`: "an exact hostname beats a wildcard" and is no finding |
| `routes_key` | gives the prefixes `/cart` and `/cart/` two keys, and a header value with a comma the key of two headers | `routematch.go`: "Key is equal for exactly those matches that select the same requests" |
| `policies_displaced` | describes an inherited health check for a rule whose own policy displaces it | `healthcheckwithoutfailover`: it "would describe config that never applies" |

Smaller disagreements met while modelling have no run of their own.

* lint command: `--fail-if-no-objects-found` ignores documents that did not parse
  once one object loaded (`command.go:119`, help text at `:184`); the summary line
  is not printed when no object loads (README: "Every run ends with a summary
  line"); `Checked`, "how many objects a check was actually run against"
  (`scanned.go:32`), counts objects whose annotations had every check skipped.
* Tier 1: a parentRef to a present parent without listeners is reported by no
  check (`listenernotfound/template.go:63`), one of the four cases of
  `SilenceAccountedFor`; a listener whose `allowedRoutes.kinds` name only foreign
  groups is taken to accept everything (`attach.go:52` against `:38-39`), another of
  them; `hostname-never-matches` judges a listener
  whose protocol cannot carry the route, which its comment says "is skipped too";
  a wildcard covers any number of labels where a comment in `attach.go` says
  "exactly one label".
* Tier 3: `attachmentsOf` in `conflictingroutematch` has no protocol test
  (`:172`).
* Tier 4: an empty `tls.mode` terminates for `TLSMode` (`gatewaylistener.go:55`)
  and not for the certificate checks (`certificate.go:69`), so that such a listener
  with certificateRefs is judged by neither; `keyOf` keeps the hostname for every
  protocol, so two TCP listeners on one port whose hostnames differ go unreported
  (`conflictinglisteners:111` against `:13-14`: "For TCP and UDP no hostname
  exists"); a ListenerSet with a
  parent of a foreign group counts as lying under the Gateway
  (`gatewayservesnoroutes:107`).
* Tier 5: a route-wide policy is reported for a rule that has a health check of
  its own (`fqdnbackendcoldstart/coverage.go:274-275`: "only the most specific
  configuration takes effect"); a policy target that is in the set only at a
  version the indexes do not know is called dangling; a Gateway target that is
  called dangling still covers the routes that name it.

Where one of these would break a property, the property names it.  Some are exact
accounts that say when the case occurs and that nothing else does
(`SilenceAccountedFor`, `SummaryMatchesRun`, `IdleGatewayExact`,
`TerminatingListenerHasOneJudge`, `RepairSettles`), others carry it as a condition
(`ListenerNamesDistinct`, `KindsCarried`, `PathTidy`, `Plain`, `HostnameUnused` in
`ConflictReportedOnce`).

**Bounds.** TLC takes every manifest set of an MC module, one per behaviour.

* `lint_run` spreads a policy, its route and backend, a service and a document
  that does not decode in every way over at most two contexts, with three checks
  (one that needs three objects together and returns two diagnostics of one of
  them, one that misses an object, one that flags every backend) enabled
  all or none, an object annotated to skip its only check and one annotated to skip
  a check that does not match it, and one, two or three outputs, in one request with
  a format gwlint does not have:
  two contexts are what a split needs, two outputs what "one failing costs
  another" needs.
* `attachment` (`MCKinds`) takes every listener over three protocols (one
  unknown to gwlint), two namespace policies and four kind lists, one or two per
  Gateway, against routes of two kinds in two namespaces: a split verdict needs
  two listeners, and a third one adds no new combination of reasons, as each
  check only asks "all" and "any"; one Gateway has no listener at all.  `MCHosts`
  takes patterns of up to three labels and hosts of up to four, one more than the
  longest pattern, and all six load orders of three objects.
* `references` puts every choice of up to three objects (Services, Backends,
  grants at three versions, Secrets, Certificates of two groups, classes,
  Gateways) around a route, Gateway or ListenerSet: a finding needs one object
  that describes the namespace, one that almost provides what is asked, and one
  grant that almost permits it.
* `routes` combines five hostname sets on each of two routes with seventeen
  choices of two listeners and three sectionNames, and pairs every two of
  twenty-one matches (each with its default spelled out and left out, two headers in
  both orders, a trailing slash, a path and a header value that hold separators) over
  three ages and two names, with a third route that competes with both.  `Hosts` has
  every host of one to three labels, `Requests` one request on each side of every
  match.
* `listeners` takes any two listeners over two ports, six protocols and three
  hostnames, any three on one port over four protocols, every TLS block, and a
  Gateway with a ListenerSet and a route over every way the two may, or may
  not, lie under it, parents of a foreign group or kind included.
* `policies` combines a policy on the Gateway (or one of its listeners), one on a
  ListenerSet and up to two on the route (by name, by rule, by selector), with and
  without health checks, over five ways to attach, three backends and rules with
  and without a name: displacement relates two levels, and every pair of levels
  occurs with a third one present or absent.  `MCClaims` lets three policies claim
  five lists of targets, so that a slot has one, two or three claimants, in all
  orders of the five objects; of larger sets every exchange of two is tried.

**Fairness.** Only `Terminates` needs any: `WF_vars(Next)`.  `RunE` is one
goroutine that takes no lock and waits for no one, so a step that can be taken
is.

**Deadlock** is not checked, as every one of these programs stops.

## Proofs

Assumptions on constants are named and stand in the module that declares the
constant; TLC evaluates them in the runs.  `IdentityAssumption`: no two objects of a
set have one kind, namespace and name.  `LoadOrderAssumption`,
`SequencesAssumption`, `ListsAssumption` and `CertificateRefsAssumption`: what the
code holds in slices are sequences.  `ChecksAssumption`: there is a non-empty list
of checks.  `HostnamesAssumption`: hostnames have at least one label.
`AbsentAssumption`, `FromAssumption` and `WeightsAssumption`: nil is no value of a
field, the empty string included, and fields have the values their types allow.
`RankAssumption` and `NameRankAssumption`: names are totally ordered.
`ServedAssumption` and `GrantAssumption`: an object decodes only at a version its
type exists in, and grants list records.  Beyond these the theorems hold for every
set of manifest sets and every list of enabled checks.

### LintRunProofs

* `TypeCorrect` (`TypeOK`), `Inductive` (`IInv`);
* `WholeSetReported` (`ReportsWholeSet`), `FindingsCounted` (`EachReportOnce`),
  `SummaryCounts` (`SummaryMatchesRun`);
* `OutputsCounted` (`OutputsAccountedFor`), `CleanExitTrustworthy`
  (`CleanExitIsTrustworthy`);
* `PromiseKept`: `Spec => KeepsPromise`, the refinement of `LintVerdict`.

Each speaks of the end of a loop, so none is inductive.  `IInv` adds what every loop
has done so far.  `MergeInv`: the merged objects are the union of the contexts
before `at[1]`.  `RunInv`: the examined pairs are exactly those `Visited`, before
`at` in the engine's order, that match and are not annotated away, and the reports
the diagnostics of these pairs in the *whole* set (`Flagged`).  `OutputInv`: outputs
before `at[1]` are whole unless an error was counted, later ones are untouched, and
"ok" and "lintErrors" are answered only with a reason.  `VisitedStep` (one round
adds one pair), `FlaggedStep` (and its slice of diagnostics) and `VisitedAtEnd`
(after the last object every pair was visited) carry the run loop.  The properties
that count add invariants of their own: as many write errors as damaged outputs
before `at[1]`, and `summary` and `reports` counted through an injective enumeration
of what the merged sequence holds.  The refinement maps the first whole output to
`Publish`, every return to `Judge` and all else to a stutter.

`EachReportOnce` and `SummaryMatchesRun` say by a condition that no manifest is
loaded twice, the former also that no check is enabled twice, which the code does not
enforce.  `SummaryCounts` shows that the two walks count the same objects but for the
silenced ones, which `summarize` cannot tell apart.

### EngineProofs and what rests on it

A check function is a function of the loaded set and one object, and the engine
calls every enabled one on every object.  `Called` says which calls have been
made, and the inductive invariant of every tier is: *what is recorded is exactly
what is due of the calls made so far* (`findings = DueSoFar(Due)`).
`CalledNext` (one step adds one call), `JudgeRecords` (a check that records what
is due of its call keeps the record exact) and `AllCalled` (at the end every call
has been made) are proved once for any `Due`; each tier's proofs say what its
checks return and get from them that a finished run has reported exactly that.
The invariant is needed because properties that say something *is* reported
(completeness, "exactly one") say nothing until the loop ends.  What is left is
about the check functions:

* `AttachmentProofs`: `TypeCorrect`, `NoDoubleExplanation` (`OneExplanation`),
  `PartialSetsAreQuiet` (`AbsentParentIsQuiet`), `NoFalseAlarms` (`NoFalseAlarm`),
  `ServingRouteNeverBlamed` (the soundness half of `HostnameVerdictExact`),
  `NamedListenersJudged` (`NamedListenerJudged`), `SilencesAccountedFor`
  (`SilenceAccountedFor`), `HostnameVerdictsExact` (`HostnameVerdictExact`, where
  `Hosts` is the set of all hostnames) and `LoadOrderDecidesNothing`
  (`LoadOrderIrrelevant`).  The four explanations
  exclude each other (`DisjointReasons`); the listener Gateway API would pick is
  one the code looks at (`SelectedIsCandidate`, where unique identities and
  listener names are needed, since the code takes the first listener of a name);
  the set of listeners seen through a reference is the same in every load order,
  and a rearrangement of finitely many positions reaches them all.  A listener that
  does not admit a route refuses its namespace, excludes it by its kinds or cannot
  carry it (`WhatRefuses`); of listeners that all do, one of two checks speaks unless
  they divide the refusal between them (`RefusalsDivide`) or one has an empty list of
  accepted kinds although it lists some.
* `HostnamesProofs`: `OverlapIsCommonHost`, two patterns of any number of labels
  overlap exactly when some hostname falls under both.  Suffixes are compared
  position by position; two suffixes of one host nest, and a wildcard's suffix
  always extends to a host.
* `ReferencesProofs`: `MissingIsAbsent` (`DanglingIsAbsent`), `GrantsJudgedExactly`
  (`GrantVerdictExact`), `AdviceSettles` (`RepairSettles`), `VerdictsAreLocal`
  (`VerdictIsLocal`).  For `GrantsJudgedExactly`, the two version lists are each
  shown to cover the versions a grant decodes at (`ServedAssumption`), which neither
  takes from the other.  For `AdviceSettles`, what a finding asks for is shown to be
  inert (no check has anything to say of it, `RepairIsInert`) and to describe
  nothing that was not described before (`Foreseen`); then no check says more of the
  grown set than of the old one (`BackendsKept` and its like, `NothingNew`), but for
  the backendRefs of a namespace whose first grant it is.  For `VerdictsAreLocal`,
  every index, restricted to the namespace a reference leads into, is shown to be
  that of the objects which live there (`Near`), check by check.
* `RoutesProofs`: `DeadRulesReportedOnce` (`DeadRuleReportedOnce`),
  `UndecidedPairsReportedOnce` (`UndecidedPairReportedOnce`),
  `ReportedPairsUndecided` (`ReportedPairUndecided`), `SameRequestsShareKeys`
  (`SameRequestsSameKey`).  The conflict test is symmetric and the order of two routes
  strict and total, so one side reports.  A contested hostname that nothing narrows
  is the one by which both routes claim every host under it (`SharedIsClaimed`), and
  some such host falls under the listener's.  For the keys, each of two matches
  selects a request that has exactly what the other asks for, so neither asks for
  more (`AsksForNoMore`), and requests for the path itself and for one segment below
  it tell a prefix from an exact path (`PathsTakenDiffer`).  The same paths, methods
  and sets of entries make the same text, because sorting forgets the order entries
  are written in (`SortedByContent`).

  The last two have hypotheses, because the constants stand for what clients may
  send and the runs have to take finitely many of it: `Hosts` is the set of all
  hostnames, and `Requests` holds every request that can be written over some
  words, methods (two at least), header and parameter pairs that the manifests
  are written over.
* `ListenersProofs`: `ConflictsReportedOnce` (`ConflictReportedOnce`),
  `IdleGatewaysExact` (`IdleGatewayExact`), `OneJudgePerListener`
  (`TerminatingListenerHasOneJudge`).  Two listeners of one port share either a key
  or a clash of protocols, never both; the idleness check's walk is the policy
  checks' and what hangs on the sets of `ForeignSetsNaming`; skipping the routes
  already seen loses none (`NoneBelow`, by the first ListenerSet that leads to a
  route).
* `PoliciesProofs`: `ColdStartsExact` (`ColdStartExact`), `SingleEndpointsJudged`
  (`SingleEndpointJudged`), `FailoverVerdictsExact` (`FailoverVerdictExact`),
  `GapsReportedOnce` (`GapReportedOnce`), `ConflictsReportedOnce`
  (`ConflictReportedOnce`), `PolicyOrderDecidesNothing` (`PolicyOrderIrrelevant`)
  and `EveryOrderSameFindings`, the same of every order of any number of objects.
  `DirectScope` and `CoverageFromAbove` show the walk from the policy down to equal
  the reference read off the route up.  Then displacement: a policy from above is
  skipped only for one with a health check, and if all that name the rule have none,
  one of them is reported in its place.  The other check skips it for any policy
  that names the route as a whole (`SpecificIff`), and its sole backend is the one
  destination of the reference (`SoleEndpointIff`).  `CoveredOnce` says each target
  covers a route at most once; claimants of one slot are of one namespace, so one of
  them comes first by name (`FirstClaimant`).  For load order, two sets with the
  same objects are compared (`SameObjects`): every covered route of one has a twin
  in the other, which may differ in the ListenerSet it came by (`via`) and in
  nothing a check reports.

### Model-checked only

* `Terminates`: liveness is beyond TLAPS.
* `PlainKeyTellsApart`: that joined text can be taken apart again, where nothing in it
  reads like a separator, is an induction over the text.

Every other property of a passing run is a theorem.  What the runs add for
`HostnameVerdictExact`, `ReportedPairUndecided` and `SameRequestsSameKey` is that they
hold for the finite `Hosts` and `Requests` of the MC modules too, which the
theorems' hypotheses leave out.

## Not modelled

* `pkg/command/root`, `pkg/version`, `templates list`: flag wiring and printing;
  there is no state to be wrong about.
* The wording of messages and of the summary line.
* YAML decoding, kube-linter's file walking, how an ignore annotation is written
  (`LintRun` has what it comes to, the checks an object skips), and the
  registration of checks and object kinds: external, or one-time initialisation of
  a library.  `LintRun` allows every outcome `RunE` handles, and which kinds and
  versions decode shows in `GatewayAPI`, `RouteVersions` and `ServedAssumption`.
* `scripts/`, examples and test data.
* Time, concurrency, crashes and restarts: the program is one pass of one
  goroutine and keeps nothing between runs.

## What could be added

Larger policy sets (three levels with two policies each), which the proofs cover
in principle; how the displacement rules of the two health checks would have to
change for `DisplacedPolicyQuiet` to hold, as a variant of `PolicyCoverage`.
