------------------------------- MODULE Routes -------------------------------
(***************************************************************************)
(* Tier 3, route semantics: four checks that read the rules of one route,  *)
(* and conflicting-route-match, which compares every two HTTPRoutes over   *)
(* the listeners they share; run by the engine.                            *)
(*                                                                         *)
(* A route has  created: Absent or its creationTimestamp,  and  rules:     *)
(* Seq([name, matches: Seq(match), backendRefs: Seq([group, kind, ns,      *)
(* name, weight, port]), filters: a set of filter types]); an HTTP match   *)
(* is [path: Absent or [type, value], method, headers, params], headers    *)
(* and params being Seq([type, name, value]).  A header name is [spelled,  *)
(* folded].  A path, a header or parameter value and a key are texts: the  *)
(* sequence of their words, a slash and a separator being words of their   *)
(* own, so that two texts are equal just when their words are.  Every nil  *)
(* is Absent.                                                              *)
(***************************************************************************)
EXTENDS Engine, SequencesExt

CONSTANTS
  Rank,      \* how namespaces, names and words sort
  Hosts,     \* bound: the client hostnames the reference meaning tries
  Requests   \* bound: the requests the reference meaning tries

ASSUME RankAssumption ==
  /\ Rank \in [DOMAIN Rank -> Nat]
  /\ \A a, b \in DOMAIN Rank : Rank[a] = Rank[b] => a = b
  /\ \A set \in ManifestSets : \A i \in DOMAIN set : {set[i].ns, set[i].name} \subseteq DOMAIN Rank

(* Objects and listeners are numbered. *)
ASSUME SequencesAssumption ==
  \A set \in ManifestSets :
    /\ DOMAIN set \subseteq Nat
    /\ \A i \in DOMAIN set : OwnsListeners(set[i]) => DOMAIN set[i].listeners \subseteq Nat

(* A hostname has at least one label, possibly an empty one. *)
ASSUME HostnamesAssumption ==
  LET Hostname == Seq(STRING) \ {<<>>} IN
  /\ Absent \notin Hostname /\ Hosts \subseteq Hostname
  /\ \A set \in ManifestSets : \A i \in DOMAIN set :
       /\ IsRoute(set[i]) => set[i].hostnames \subseteq Hostname
       /\ OwnsListeners(set[i]) =>
            \A j \in DOMAIN set[i].listeners :
              set[i].listeners[j].hostname = Absent \/ set[i].listeners[j].hostname \in Hostname

(* The values the schema's enum allows. *)
ASSUME FromAssumption ==
  \A set \in ManifestSets : \A i \in DOMAIN set : OwnsListeners(set[i]) =>
    \A j \in DOMAIN set[i].listeners :
      set[i].listeners[j].from \in {Absent, "Same", "All", "Selector"}

(* The schema allows no negative weight. *)
ASSUME WeightsAssumption ==
  /\ Absent \notin Nat
  /\ \A set \in ManifestSets : \A i \in DOMAIN set :
       IsRoute(set[i]) =>
         \A n \in DOMAIN set[i].rules : \A b \in DOMAIN set[i].rules[n].backendRefs :
           LET weight == set[i].rules[n].backendRefs[b].weight IN weight = Absent \/ weight \in Nat

RouteChecks ==
  <<"all-weights-zero", "conflicting-route-match", "duplicate-rule-name",
    "rule-serves-nothing", "service-backend-without-port">>

-----------------------------------------------------------------------------
(* The rules of a route, whatever its kind and version. *)

RulesOf(o) == IF IsRoute(o) THEN o.rules ELSE <<>>

(* TCP, TLS and UDP rules have no filters. *)
FiltersOf(route, i) ==
  IF route.type \in {"HTTPRoute", "GRPCRoute"} THEN RulesOf(route)[i].filters ELSE {}

RuleNamesOf(o) == [i \in DOMAIN RulesOf(o) |-> RulesOf(o)[i].name]

(* The backendRefs of all rules, as positions <<rule, backendRef>>. *)
BackendRefsOf(o) ==
  UNION {{<<i, b>> : b \in DOMAIN RulesOf(o)[i].backendRefs} : i \in DOMAIN RulesOf(o)}

(* Mutant: an omitted weight counts as 0. *)
AllWeightsZeroOrOmitted(rule) ==
  \A b \in DOMAIN rule.backendRefs : rule.backendRefs[b].weight \in {Absent, 0}

AllWeightsZero(rule) == \A b \in DOMAIN rule.backendRefs : rule.backendRefs[b].weight = 0

ZeroWeightRules(o) ==
  {i \in DOMAIN RulesOf(o) :
     RulesOf(o)[i].backendRefs # <<>> /\ AllWeightsZero(RulesOf(o)[i])}

TerminatingFilters == {"RequestRedirect", "ExtensionRef"}

ServesAResponse(route, i) == FiltersOf(route, i) \cap TerminatingFilters # {}

RulesServingNothing(o) ==
  {i \in DOMAIN RulesOf(o) : RulesOf(o)[i].backendRefs = <<>> /\ ~ServesAResponse(o, i)}

DuplicateRuleNames(o) ==
  LET names == RuleNamesOf(o)
      named(name) == {i \in DOMAIN names : names[i] = name}
  IN  {names[i] : i \in {j \in DOMAIN names :
         names[j] \notin {Absent, ""} /\ Cardinality(named(names[j])) >= 2}}

ServiceRefsWithoutPort(o) ==
  {p \in BackendRefsOf(o) :
     LET ref == RulesOf(o)[p[1]].backendRefs[p[2]] IN
     ref.group \in {Absent, ""} /\ ref.kind \in {Absent, "Service"} /\ ref.port = Absent}

-----------------------------------------------------------------------------
(* routematch.go: the key requests are compared by. *)

Root == <<"/">>

(* sort.Strings: words decide in turn, and the shorter text is first. *)
TextBefore(s, t) ==
  \E k \in 1..Len(t) :
    /\ k <= Len(s) + 1
    /\ SubSeq(s, 1, k - 1) = SubSeq(t, 1, k - 1)
    /\ k = Len(s) + 1 \/ Rank[s[k]] < Rank[t[k]]

Occurrences(entries) ==
  [e \in {entries[i] : i \in DOMAIN entries} |->
     Cardinality({i \in DOMAIN entries : entries[i] = e})]

Sorted(entries) ==
  CHOOSE s \in [DOMAIN entries -> {entries[i] : i \in DOMAIN entries}] :
    /\ Occurrences(s) = Occurrences(entries)
    /\ \A i, j \in DOMAIN s : i < j => ~TextBefore(s[j], s[i])

(* strings.Join *)
Joined(texts, separator) ==
  FlattenSeq([i \in DOMAIN texts |-> IF i = 1 THEN texts[i] ELSE <<separator>> \o texts[i]])

PathType(m) ==
  IF m.path = Absent THEN "PathPrefix" ELSE Default(m.path.type, "PathPrefix")

PathValue(m) == IF m.path = Absent THEN Root ELSE Default(m.path.value, Root)

HeaderEntry(h) == <<Default(h.type, "Exact"), ":", h.name.folded, ":">> \o h.value

ParamEntry(q) == <<Default(q.type, "Exact"), ":", q.name, ":">> \o q.value

HeaderEntries(m) == [i \in DOMAIN m.headers |-> HeaderEntry(m.headers[i])]

ParamEntries(m) == [i \in DOMAIN m.params |-> ParamEntry(m.params[i])]

(* The parts that are there only if the match says something of them. *)
MethodPart(m) == IF m.method = Absent THEN <<>> ELSE << <<"method=", m.method>> >>

(* Mutant: the order the entries are written in is kept. *)
EntriesPartUnsorted(name, entries) ==
  IF DOMAIN entries = {} THEN <<>> ELSE << <<name>> \o Joined(entries, ",") >>

EntriesPart(name, entries) ==
  IF DOMAIN entries = {} THEN <<>> ELSE << <<name>> \o Joined(Sorted(entries), ",") >>

(* Mutant: query parameters are left out. *)
CanonicalHTTPMatchWithoutParams(m) ==
  Joined(<< <<"path=", PathType(m), ":">> \o PathValue(m) >> \o MethodPart(m)
           \o EntriesPart("headers=", HeaderEntries(m)), ";")

CanonicalHTTPMatch(m) ==
  Joined(<< <<"path=", PathType(m), ":">> \o PathValue(m) >> \o MethodPart(m)
           \o EntriesPart("headers=", HeaderEntries(m))
           \o EntriesPart("query=", ParamEntries(m)), ";")

AnyRequest == [path |-> Absent, method |-> Absent, headers |-> <<>>, params |-> <<>>]

(* A rule without matches matches every request. *)
MatchesIn(rule) ==
  IF rule.matches = <<>> THEN {AnyRequest} ELSE {rule.matches[i] : i \in DOMAIN rule.matches}

HTTPMatchesOf(o) ==
  UNION {{CanonicalHTTPMatch(m) : m \in MatchesIn(RulesOf(o)[i])} : i \in DOMAIN RulesOf(o)}

-----------------------------------------------------------------------------
(* conflicting-route-match. *)

IsCandidate(o) == IsRoute(o) /\ o.type = "HTTPRoute" /\ HTTPMatchesOf(o) # {}

SeparatedByAge(a, b) == Absent \notin {a.created, b.created} /\ a.created # b.created

(* Mutant: routes are ordered by name alone, so of two of one name neither is first. *)
SortsBeforeByName(a, b) == Rank[a.name] < Rank[b.name]

SortsBefore(a, b) ==
  IF a.ns # b.ns THEN Rank[a.ns] < Rank[b.ns] ELSE Rank[a.name] < Rank[b.name]

(* The listeners a route attaches through, as positions; this repeats
   ListenersFor without its first-of-a-name rule, and asks for no protocol. *)
AttachesThrough(objs, route) ==
  UNION {LET parent == ParentOf(route, r) IN
         {p \in ListenersByOwner(objs, OwnerOf(parent)) :
            LET l == ListenerAt(objs, p) IN
            /\ parent.group = GroupName
            /\ parent.section \in {Absent, l.name}
            /\ AcceptsKind(l, "HTTPRoute")
            /\ AcceptsNamespace(l, parent.ns, route.ns)} :
           r \in DOMAIN route.parentRefs}

AttachmentAt(objs, p) == <<RefOf(objs[p[1]]), ListenerAt(objs, p).name>>

AttachmentsOf(objs, route) == {AttachmentAt(objs, p) : p \in AttachesThrough(objs, route)}

(* The Go map keeps the last listener of a name. *)
KeptListeners(objs, route) ==
  {p \in AttachesThrough(objs, route) :
     \A q \in AttachesThrough(objs, route) :
       AttachmentAt(objs, q) = AttachmentAt(objs, p) => ~Before(p, q)}

(* Absent stands for every hostname the listener serves. *)
ContestedHostnames(mine, theirs) ==
  IF mine = {} /\ theirs = {} THEN {Absent} ELSE mine \cap theirs

(* Mutant: the listener's own hostname is forgotten. *)
ConflictsOnAnyHost(objs, self, other) ==
  /\ HTTPMatchesOf(self) \cap HTTPMatchesOf(other) # {}
  /\ \E p \in KeptListeners(objs, self), h \in ContestedHostnames(self.hostnames, other.hostnames) :
       AttachmentAt(objs, p) \in AttachmentsOf(objs, other)

Conflicts(objs, self, other) ==
  /\ HTTPMatchesOf(self) \cap HTTPMatchesOf(other) # {}
  /\ \E p \in KeptListeners(objs, self), h \in ContestedHostnames(self.hostnames, other.hostnames) :
       /\ AttachmentAt(objs, p) \in AttachmentsOf(objs, other)
       /\ h = Absent \/ HostnamesIntersect(ListenerAt(objs, p), {h})

ConflictingMatches(objs, k) ==
  IF ~IsCandidate(objs[k]) THEN {}
  ELSE {n \in DOMAIN objs :
          /\ IsCandidate(objs[n])
          /\ SortsBefore(RefOf(objs[n]), RefOf(objs[k]))
          /\ ~SeparatedByAge(objs[k], objs[n])
          /\ Conflicts(objs, objs[k], objs[n])}

-----------------------------------------------------------------------------
JudgeRoute(check, reported) == Judge(check, IsRoute(Current), reported)

AllWeightsZeroCheck == JudgeRoute("all-weights-zero", ZeroWeightRules(Current))

ConflictingRouteMatch ==
  JudgeRoute("conflicting-route-match", ConflictingMatches(objects, at[1]))

DuplicateRuleName == JudgeRoute("duplicate-rule-name", DuplicateRuleNames(Current))

RuleServesNothing == JudgeRoute("rule-serves-nothing", RulesServingNothing(Current))

ServiceBackendWithoutPort ==
  JudgeRoute("service-backend-without-port", ServiceRefsWithoutPort(Current))

Next ==
  \/ Load
  \/ AllWeightsZeroCheck \/ ConflictingRouteMatch \/ DuplicateRuleName
  \/ RuleServesNothing \/ ServiceBackendWithoutPort
  \/ Finish

Spec == Init /\ [][Next]_vars

-----------------------------------------------------------------------------
(* The reference: which requests two routes compete for, and whether anything
   the manifests say decides who gets them. *)

Candidates == {k \in DOMAIN objects : IsCandidate(objects[k])}

(* Gateway API: a prefix takes whole segments and its trailing slash is ignored; a
   header or query parameter match asks for one entry of the request. *)
PathTaken(type, value, path) ==
  IF type = "Exact" THEN path = value
  ELSE LET n == IF value[Len(value)] = "/" THEN Len(value) - 1 ELSE Len(value) IN
       /\ n <= Len(path)
       /\ SubSeq(path, 1, n) = SubSeq(value, 1, n)
       /\ n = Len(path) \/ path[n + 1] = "/"

Selects(m, request) ==
  /\ m.path = Absent \/
       PathTaken(Default(m.path.type, "PathPrefix"), Default(m.path.value, Root), request.path)
  /\ m.method \in {Absent, request.method}
  /\ \A i \in DOMAIN m.headers : <<m.headers[i].name.folded, m.headers[i].value>> \in request.headers
  /\ \A i \in DOMAIN m.params : <<m.params[i].name, m.params[i].value>> \in request.params

LoadedMatches ==
  UNION {UNION {MatchesIn(objects[k].rules[i]) : i \in DOMAIN objects[k].rules} : k \in Candidates}

(* The matches Selects reads as Gateway API does: without regular expressions, with
   a path that starts with a slash, and with no header or parameter named twice, of
   which only the first would count. *)
ReadBySelects(m) ==
  /\ m.path = Absent \/ m.path.type \in {Absent, "PathPrefix", "Exact"}
  /\ m.path = Absent \/ m.path.value = Absent \/ (m.path.value # <<>> /\ m.path.value[1] = "/")
  /\ \A i \in DOMAIN m.headers : m.headers[i].type \in {Absent, "Exact"}
  /\ \A i \in DOMAIN m.params : m.params[i].type \in {Absent, "Exact"}
  /\ \A i, j \in DOMAIN m.headers : m.headers[i].name.folded = m.headers[j].name.folded => i = j
  /\ \A i, j \in DOMAIN m.params : m.params[i].name = m.params[j].name => i = j

SameSelection(m, n) == \A request \in Requests : Selects(m, request) <=> Selects(n, request)

(* The path is not a prefix with a trailing slash, which the key keeps. *)
PathTidy(m) ==
  PathType(m) = "PathPrefix" /\ PathValue(m) # Root =>
    PathValue(m)[Len(PathValue(m))] # "/"

(* routematch.go "Match order carries no meaning", "HTTP header names are case
   insensitive", "Defaults are applied here": two matches that select the same
   requests have one key, however they are written, trailing slashes aside. *)
SameRequestsSameKey ==
  phase = "done" =>
    \A m, n \in {match \in LoadedMatches : ReadBySelects(match) /\ PathTidy(match)} :
      SameSelection(m, n) => CanonicalHTTPMatch(m) = CanonicalHTTPMatch(n)

(* No text of the match holds a separator that the key puts between texts. *)
Plain(m) ==
  /\ \A i \in DOMAIN PathValue(m) : PathValue(m)[i] # ";"
  /\ \A i \in DOMAIN m.headers :
       {m.headers[i].value[j] : j \in DOMAIN m.headers[i].value} \cap {",", ";"} = {}
  /\ \A i \in DOMAIN m.params :
       {m.params[i].value[j] : j \in DOMAIN m.params[i].value} \cap {",", ";"} = {}

(* routematch.go: the key is text that is joined without escaping.  Where no value
   holds a separator nothing gets lost in it: matches of one key select the same
   requests, so that no pair of routes is called identical that is not. *)
PlainKeyTellsApart ==
  phase = "done" =>
    \A m, n \in {match \in LoadedMatches : ReadBySelects(match) /\ Plain(match)} :
      CanonicalHTTPMatch(m) = CanonicalHTTPMatch(n) => SameSelection(m, n)

(* Gateway API's order of two hostnames that cover the same host: an exact one
   first, then the longer wildcard. *)
AtLeastAsSpecific(g, h) == ~IsWildcard(g) \/ (IsWildcard(h) /\ Len(g) >= Len(h))

(* The hostname by which a route claims a host; Absent if it claims all, and
   none if it does not claim this one. *)
ClaimOf(route, host) ==
  IF route.hostnames = {} THEN {Absent}
  ELSE {g \in route.hostnames :
          /\ Covers(g, host)
          /\ \A h \in route.hostnames : Covers(h, host) => AtLeastAsSpecific(g, h)}

(* The v1 listeners that admit and can carry the HTTPRoute. *)
HTTPListeners(route) ==
  UNION {{<<i, j>> : j \in {n \in DOMAIN objects[i].listeners :
            LET l == objects[i].listeners[n] IN
            /\ \E r \in DOMAIN route.parentRefs :
                 LET parent == ParentOf(route, r) IN
                 /\ parent.group = GroupName /\ OwnerOf(parent) = RefOf(objects[i])
                 /\ parent.section \in {Absent, l.name}
            /\ l.from \in {"All", "Selector"} \/ route.ns = objects[i].ns
            /\ AcceptsKind(l, "HTTPRoute")
            /\ RouteKindsFor(l.protocol) = {} \/ "HTTPRoute" \in RouteKindsFor(l.protocol)}} :
           i \in {n \in DOMAIN objects : OwnsListeners(objects[n])}}

(* Some client's request is claimed by both, by the same hostname and the same
   match, and neither is older. *)
Undecided(k, n) ==
  /\ ~SeparatedByAge(objects[k], objects[n])
  /\ HTTPMatchesOf(objects[k]) \cap HTTPMatchesOf(objects[n]) # {}
  /\ \E p \in HTTPListeners(objects[k]) \cap HTTPListeners(objects[n]), host \in Hosts :
       LET l == ListenerAt(objects, p) IN
       /\ AnyHostname(l) \/ Covers(l.hostname, host)
       /\ ClaimOf(objects[k], host) \cap ClaimOf(objects[n], host) # {}

ListenerNamesDistinct ==
  \A i \in {n \in DOMAIN objects : OwnsListeners(objects[n])} :
    \A m, n \in DOMAIN objects[i].listeners :
      objects[i].listeners[m].name = objects[i].listeners[n].name => m = n

ReportsOf(k, n) ==
  findings \cap {<<"conflicting-route-match", k, n>>, <<"conflicting-route-match", n, k>>}

(* "The conflict belongs to the pair, not to either route, so report it once":
   each route finds the shared listener, hostname and match on its own, and still
   every undecided pair is reported exactly once, and no pair twice. *)
UndecidedPairReportedOnce ==
  phase = "done" /\ "conflicting-route-match" \in Enabled /\ ListenerNamesDistinct =>
    \A k, n \in Candidates :
      k # n => /\ Cardinality(ReportsOf(k, n)) <= 1
               /\ Undecided(k, n) => ReportsOf(k, n) # {}

(* No listener sets kinds that its protocol cannot carry. *)
KindsCarried ==
  \A i \in {n \in DOMAIN objects : OwnsListeners(objects[n])} :
    \A j \in DOMAIN objects[i].listeners :
      LET l == objects[i].listeners[j] IN
      AcceptsKind(l, "HTTPRoute") =>
        RouteKindsFor(l.protocol) = {} \/ "HTTPRoute" \in RouteKindsFor(l.protocol)

(* One of two routes has a hostname that takes requests from one they share. *)
Narrowed(k, n) ==
  \E h \in objects[k].hostnames \cap objects[n].hostnames :
    \E g \in (objects[k].hostnames \cup objects[n].hostnames) \ {h} :
      HostnamesOverlap(g, h) /\ AtLeastAsSpecific(g, h)

(* "Gateway API resolves most overlaps on its own, so most of them are not
   findings": a pair that is reported is undecided, when listeners carry what
   they accept and no more specific hostname narrows a shared one. *)
ReportedPairUndecided ==
  ListenerNamesDistinct /\ KindsCarried =>
    \A k, n \in Candidates :
      Reported("conflicting-route-match", k, n) /\ ~Narrowed(k, n) => Undecided(k, n)

(* allweightszero "rule-serves-nothing is the check that says so": the two divide
   the rules that forward nothing between them.  No rule is reported by both, a
   rule with a backend that takes traffic by neither, and one that answers no
   request by any means by one. *)
DeadRuleReportedOnce ==
  phase = "done" /\ {"all-weights-zero", "rule-serves-nothing"} \subseteq Enabled =>
    \A k \in {n \in DOMAIN objects : IsRoute(objects[n])} :
      \A i \in DOMAIN objects[k].rules :
        LET reports == {c \in {"all-weights-zero", "rule-serves-nothing"} : Reported(c, k, i)}
            refs == objects[k].rules[i].backendRefs
            forwards == \E b \in DOMAIN refs : Default(refs[b].weight, 1) > 0
        IN
        /\ Cardinality(reports) <= 1
        /\ forwards => reports = {}
        /\ ~forwards /\ FiltersOf(objects[k], i) \cap TerminatingFilters = {} => reports # {}

-----------------------------------------------------------------------------
(* What comments of the code say and the code does not do. *)

(* routematch.go "Key is equal for exactly those matches that select the same
   requests". *)
KeyIsSelection ==
  phase = "done" =>
    \A m, n \in {match \in LoadedMatches : ReadBySelects(match)} :
      CanonicalHTTPMatch(m) = CanonicalHTTPMatch(n) <=> SameSelection(m, n)

(* conflictingroutematch "Gateway API resolves most overlaps on its own, so most
   of them are not findings: [...] an exact hostname beats a wildcard": a pair
   that is reported is undecided, however many hostnames the routes have. *)
DecidedPairQuiet ==
  ListenerNamesDistinct /\ KindsCarried =>
    \A k, n \in Candidates :
      Reported("conflicting-route-match", k, n) => Undecided(k, n)

=============================================================================
