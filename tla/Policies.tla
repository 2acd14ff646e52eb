----------------------------- MODULE Policies -----------------------------
(***************************************************************************)
(* Tier 5, Envoy Gateway: the checks that judge BackendTrafficPolicies and *)
(* Backends, with dangling-policy-target of Tier 2, run by the engine.     *)
(*                                                                         *)
(* Besides the fields of PolicyCoverage, a policy has                      *)
(*   retry: Absent or [num, timeout, spaced],                              *)
(* the last two saying that perRetry.timeout or an interval is set; a      *)
(* Backend has  backendType  and  endpoints: Seq(hostname), Absent for an  *)
(* endpoint that is not an FQDN.                                           *)
(***************************************************************************)
EXTENDS Engine, PolicyCoverage

CONSTANT NameRank  \* how policy names sort

(* No two names sort alike. *)
ASSUME NameRankAssumption ==
  /\ NameRank \in [DOMAIN NameRank -> Nat]
  /\ \A a, b \in DOMAIN NameRank : NameRank[a] = NameRank[b] => a = b
  /\ \A set \in ManifestSets : \A i \in DOMAIN set :
       IsPolicy(set[i]) => set[i].name \in DOMAIN NameRank

(* Targets, selectors and backendRefs are listed in order. *)
ASSUME ListsAssumption ==
  \A set \in ManifestSets : \A i \in DOMAIN set :
    LET o == set[i] IN
    /\ IsPolicy(o) => /\ o.targetRefs \in Seq({o.targetRefs[t] : t \in DOMAIN o.targetRefs})
                      /\ DOMAIN o.selectors \subseteq Nat \ {0}
    /\ IsRoute(o) => o.backendRefs \in Seq({o.backendRefs[b] : b \in DOMAIN o.backendRefs})

PolicyChecks ==
  <<"backend-without-endpoints", "conflicting-policies", "dangling-policy-target",
    "fqdn-backend-cold-start", "health-check-without-failover", "retry-without-budget">>

-----------------------------------------------------------------------------
(* Backends. *)

IsBackend(o) == o.type = "Backend"

BackendType(backend) == Default(backend.backendType, "Endpoints")

WithoutEndpoints(backend) ==
  BackendType(backend) # "DynamicResolver" /\ backend.endpoints = <<>>

IsEnvoyGatewayBackendRef(ref) == ref.kind = "Backend" /\ ref.group = EnvoyGroup

(* The Backend a backendRef resolves to, at most one. *)
FindBackend(objs, ns, name) ==
  FirstOf({i \in DOMAIN objs : IsBackend(objs[i]) /\ objs[i].ns = ns /\ objs[i].name = name})

BackendsOf(objs, route, ref) ==
  {objs[i] : i \in FindBackend(objs, Default(ref.ns, objs[route].ns), ref.name)}

FqdnHostnames(backend) ==
  {backend.endpoints[i] : i \in DOMAIN backend.endpoints} \ {Absent, ""}

-----------------------------------------------------------------------------
(* fqdn-backend-cold-start reports <<coverage, backendRef>>. *)

(* The check has its own copy of the coverage walk, equal line by line. *)
ColdStartCoverage(objs, policy) == Coverage(objs, policy)

(* Mutant: a policy on one rule is taken to cover all of the route. *)
IsOverriddenOnAnyRule(objs, route, rule, self) ==
  \E other \in PoliciesIn(objs) \ {self} :
    /\ objs[other].healthCheck
    /\ \E c \in ColdStartCoverage(objs, objs[other]) :
         ~c.inherited /\ RefOf(objs[c.route]) = RefOf(objs[route])

IsOverridden(objs, route, rule, self) ==
  \E other \in PoliciesIn(objs) \ {self} :
    /\ objs[other].healthCheck
    /\ \E c \in ColdStartCoverage(objs, objs[other]) :
         /\ ~c.inherited
         /\ RefOf(objs[c.route]) = RefOf(objs[route])
         /\ SectionCoversRule(c.section, rule)

ColdStarts(objs, p) ==
  LET reported(c) ==
        {b \in DOMAIN objs[c.route].backendRefs :
           LET ref == objs[c.route].backendRefs[b] IN
           /\ SectionCoversRule(c.section, ref.rule)
           /\ IsEnvoyGatewayBackendRef(ref)
           /\ ~(c.inherited /\ IsOverridden(objs, c.route, ref.rule, p))
           /\ \E backend \in BackendsOf(objs, c.route, ref) : FqdnHostnames(backend) # {}}
  IN  IF objs[p].healthCheck THEN {}
      ELSE UNION {{<<c, b>> : b \in reported(c)} : c \in ColdStartCoverage(objs, objs[p])}

-----------------------------------------------------------------------------
(* health-check-without-failover reports coverages. *)

BackendRefsCovered(objs, c) ==
  {b \in DOMAIN objs[c.route].backendRefs :
     SectionCoversRule(c.section, objs[c.route].backendRefs[b].rule)}

(* soleBackend found one to judge, and it has a single endpoint. *)
SoleEndpoint(objs, c) ==
  LET covered == BackendRefsCovered(objs, c) IN
  /\ Cardinality(covered) = 1
  /\ \E b \in covered :
       LET ref == objs[c.route].backendRefs[b] IN
       /\ IsEnvoyGatewayBackendRef(ref)
       /\ \E backend \in BackendsOf(objs, c.route, ref) :
            backend.backendType # "DynamicResolver" /\ Len(backend.endpoints) = 1

WithoutFailover(objs, p) ==
  {c \in Coverage(objs, objs[p]) :
     /\ objs[p].healthCheck
     /\ ~(c.inherited /\ MoreSpecificPolicyCovers(objs, c.route, Absent, p))
     /\ SoleEndpoint(objs, c)}

-----------------------------------------------------------------------------
(* conflicting-policies reports the slots a policy claims with others. *)

SlotsOf(policy) ==
  {[group |-> t.group, kind |-> t.kind, ns |-> policy.ns, name |-> t.name,
    section |-> Default(t.section, "")] :
     t \in {PolicyTargets(policy)[i] : i \in DOMAIN PolicyTargets(policy)}}

Rivals(objs, p, slot) == {q \in PoliciesIn(objs) \ {p} : slot \in SlotsOf(objs[q])}

(* Mutant: the first in load order reports. *)
IsFirstLoaded(objs, p, rivals) == \A q \in rivals : p < q

(* Mutant: every policy of the group reports. *)
IsAnyByName(objs, p, rivals) == TRUE

IsFirstByName(objs, p, rivals) ==
  \A q \in rivals : NameRank[objs[q].name] >= NameRank[objs[p].name]

Conflicts(objs, p) ==
  {slot \in SlotsOf(objs[p]) :
     Rivals(objs, p, slot) # {} /\ IsFirstByName(objs, p, Rivals(objs, p, slot))}

-----------------------------------------------------------------------------
(* dangling-policy-target reports targets. *)

TargetableKind(kind) == IsParentKind(kind) \/ IsRouteKind(kind)

KnownTargets(objs) == GatewaysAndListenerSets(objs) \cup {RefOf(objs[k]) : k \in RoutesIn(objs)}

DanglingTargets(objs, p) ==
  LET targets == PolicyTargets(objs[p])
      known == KnownTargets(objs)
      described(kind) == \E ref \in known : ref.kind = kind /\ ref.ns = objs[p].ns
  IN
  {t \in DOMAIN targets :
     /\ targets[t].group \in {"", GroupName}
     /\ TargetableKind(targets[t].kind)
     /\ described(targets[t].kind)
     /\ ObjectRef(targets[t].kind, objs[p].ns, targets[t].name) \notin known}

(* retry-without-budget has one thing to report of a policy. *)
RetryWithoutBudget(policy) ==
  /\ policy.retry # Absent
  /\ policy.retry.num \notin {Absent, 0}
  /\ ~policy.retry.timeout /\ ~policy.retry.spaced

-----------------------------------------------------------------------------
JudgeBackendWithoutEndpoints ==
  Judge("backend-without-endpoints", IsBackend(Current) /\ WithoutEndpoints(Current), {1})

JudgePolicy(check, reported) == Judge(check, IsPolicy(Current), reported)

JudgeConflictingPolicies ==
  JudgePolicy("conflicting-policies", Conflicts(objects, at[1]))

JudgeDanglingPolicyTarget ==
  JudgePolicy("dangling-policy-target", DanglingTargets(objects, at[1]))

JudgeColdStart ==
  JudgePolicy("fqdn-backend-cold-start", ColdStarts(objects, at[1]))

JudgeWithoutFailover ==
  JudgePolicy("health-check-without-failover", WithoutFailover(objects, at[1]))

JudgeRetryWithoutBudget ==
  JudgePolicy("retry-without-budget", IF RetryWithoutBudget(Current) THEN {1} ELSE {})

Next ==
  \/ Load
  \/ JudgeBackendWithoutEndpoints \/ JudgeConflictingPolicies \/ JudgeDanglingPolicyTarget
  \/ JudgeColdStart \/ JudgeWithoutFailover \/ JudgeRetryWithoutBudget
  \/ Finish

Spec == Init /\ [][Next]_vars

-----------------------------------------------------------------------------
(* The reference: which policies name a route rule themselves, and which reach
   it from above through a Gateway or ListenerSet, read off the route instead of
   off the policy. *)

Targeting(p, kind, name, ns) ==
  {t \in DOMAIN PolicyTargets(objects[p]) :
     LET target == PolicyTargets(objects[p])[t] IN
     target.kind = kind /\ target.name = name /\ objects[p].ns = ns}

(* The rule names for which a policy names a route itself, Absent for all of it. *)
NamedScopes(p, k) ==
  LET route == objects[k]
      selected == \E s \in DOMAIN objects[p].selectors :
                    k \in RoutesSelectedBy(objects, objects[p].ns, objects[p].selectors[s])
  IN
  {PolicyTargets(objects[p])[t].section : t \in Targeting(p, route.type, route.name, route.ns)}
  \cup (IF selected THEN {Absent} ELSE {})

NamesRule(p, k, rule) == NamedScopes(p, k) \cap {Absent, rule} # {}

ReachesFromAbove(p, k) ==
  \E r \in DOMAIN objects[k].parentRefs :
    LET parent == ParentOf(objects[k], r)
        belongsTo(j) == ListenerSetParent(objects[j])
    IN
    /\ parent.group = GroupName
    /\ \/ /\ IsParentKind(parent.kind)
          /\ \E t \in Targeting(p, parent.kind, parent.name, parent.ns) :
               LET listener == PolicyTargets(objects[p])[t].section IN
               Absent \in {listener, parent.section} \/ listener = parent.section
       \/ \E j \in DOMAIN objects :
            /\ objects[j].type = "ListenerSet" /\ OwnsListeners(objects[j])
            /\ RefOf(objects[j]) = OwnerOf(parent)
            /\ objects[j].parent.group \in {Absent, GroupName}
            /\ objects[j].parent.kind \in {Absent, "Gateway"}
            /\ Targeting(p, "Gateway", belongsTo(j).name, belongsTo(j).ns) # {}

(* The policies in effect for a route rule: those that name it, and only without
   any the ones from above. *)
InEffect(k, rule) ==
  LET direct == {p \in PoliciesIn(objects) : NamesRule(p, k, rule)} IN
  IF direct # {} THEN direct ELSE {p \in PoliciesIn(objects) : ReachesFromAbove(p, k)}

(* The backendRefs of the loaded routes. *)
LoadedBackendRefs ==
  UNION {{<<k, b>> : b \in DOMAIN objects[k].backendRefs} : k \in RoutesIn(objects)}

RuleOf(k, b) == objects[k].backendRefs[b].rule

EnvoyBackends(k, b) ==
  IF IsEnvoyGatewayBackendRef(objects[k].backendRefs[b])
  THEN BackendsOf(objects, k, objects[k].backendRefs[b]) ELSE {}

ColdStartReported(k, b) ==
  \E f \in findings :
    f[1] = "fqdn-backend-cold-start" /\ f[3][1].route = k /\ f[3][2] = b

(* fqdn-backend-cold-start is exact: a backendRef is reported if and only if an
   FQDN resolves it and some policy in effect for its rule has no health check.
   isOverridden looks only for displacing policies with a health check, and only
   from inherited coverage; that must come to the same. *)
ColdStartExact ==
  phase = "done" /\ "fqdn-backend-cold-start" \in Enabled =>
    \A ref \in LoadedBackendRefs :
      LET k == ref[1]
          b == ref[2]
      IN
      ColdStartReported(k, b) <=>
        /\ \E backend \in EnvoyBackends(k, b) : FqdnHostnames(backend) # {}
        /\ \E p \in InEffect(k, RuleOf(k, b)) : ~objects[p].healthCheck

(* healthcheckwithoutfailover "No health check means nothing ejects anything,
   which is fqdn-backend-cold-start's finding rather than this one": the two
   checks walk coverage by code of their own and must divide the same ground.
   A route whose only destination is one FQDN endpoint is judged by at least
   one of them as soon as any policy is in effect for it. *)
SingleEndpointJudged ==
  phase = "done" /\ {"fqdn-backend-cold-start", "health-check-without-failover"} \subseteq Enabled =>
    \A ref \in LoadedBackendRefs :
      LET k == ref[1]
          b == ref[2]
      IN
      /\ Len(objects[k].backendRefs) = 1
      /\ \E backend \in EnvoyBackends(k, b) :
           /\ BackendType(backend) = "Endpoints"
           /\ Len(backend.endpoints) = 1
           /\ FqdnHostnames(backend) # {}
      /\ InEffect(k, RuleOf(k, b)) # {}
      => \/ ColdStartReported(k, b)
         \/ \E f \in findings : f[1] = "health-check-without-failover" /\ f[3].route = k

(* What the policy is in effect for has one destination: one backendRef, to a
   Backend with a single endpoint. *)
OneDestination(k, scope) ==
  \E b \in DOMAIN objects[k].backendRefs :
    /\ {n \in DOMAIN objects[k].backendRefs : scope \in {Absent, RuleOf(k, n)}} = {b}
    /\ \E backend \in EnvoyBackends(k, b) :
         BackendType(backend) # "DynamicResolver" /\ Len(backend.endpoints) = 1

(* health-check-without-failover is exact too: a policy is reported for a route if
   and only if it has a health check and what it names of the route, or all of the
   route if it reaches it from above and no other policy names the route as a
   whole, has one destination.  (That a policy which names a single rule does not
   displace one from above is what DisplacedPolicyQuiet runs into.) *)
FailoverVerdictExact ==
  phase = "done" /\ "health-check-without-failover" \in Enabled =>
    \A p \in PoliciesIn(objects), k \in RoutesIn(objects) :
      LET displaced == \E q \in PoliciesIn(objects) \ {p} : NamesRule(q, k, Absent)
          fromAbove == IF ReachesFromAbove(p, k) /\ ~displaced THEN {Absent} ELSE {}
      IN
      (\E f \in findings :
         f[1] = "health-check-without-failover" /\ f[2] = p /\ f[3].route = k) <=>
        /\ objects[p].healthCheck
        /\ \E scope \in NamedScopes(p, k) \cup fromAbove : OneDestination(k, scope)

(* policyRouteKey "a route can name both a Gateway and one of its ListenerSets
   in parentRefs": however many ways lead from one target of a policy down to a
   route, each gap is reported once for it. *)
GapReportedOnce ==
  \A f, g \in findings :
    /\ f[1] = "fqdn-backend-cold-start" /\ g[1] = f[1] /\ f[2] = g[2]
    /\ f[3][1].target = g[3][1].target
    /\ f[3][1].route = g[3][1].route
    /\ f[3][2] = g[3][2]
    => f = g

(* conflictingpolicies "Only one of the conflicting policies is reported, the
   first by name, so a pair produces one finding": of the policies that claim a
   slot exactly one reports it if there are several, and none if there is one. *)
ConflictReportedOnce ==
  phase = "done" /\ "conflicting-policies" \in Enabled =>
    \A slot \in UNION {SlotsOf(objects[p]) : p \in PoliciesIn(objects)} :
      LET claimants == {p \in PoliciesIn(objects) : slot \in SlotsOf(objects[p])}
          reporters == {p \in claimants : Reported("conflicting-policies", p, slot)}
      IN  Cardinality(reporters) = IF Cardinality(claimants) > 1 THEN 1 ELSE 0

(* A finding by object instead of by position. *)
ByObject(objs, check, p, x) ==
  <<check, RefOf(objs[p]),
    CASE check = "fqdn-backend-cold-start" -> <<RefOf(objs[x[1].route]), x[2]>>
      [] check = "health-check-without-failover" -> RefOf(objs[x.route])
      [] OTHER -> x>>

(* The checks that relate a policy to other objects. *)
RelatingChecks ==
  {"conflicting-policies", "dangling-policy-target", "fqdn-backend-cold-start",
   "health-check-without-failover"}

(* What such a check reports of a policy of a manifest set. *)
ReportOf(check, objs, p) ==
  CASE check = "conflicting-policies" -> Conflicts(objs, p)
    [] check = "dangling-policy-target" -> DanglingTargets(objs, p)
    [] check = "fqdn-backend-cold-start" -> ColdStarts(objs, p)
    [] check = "health-check-without-failover" -> WithoutFailover(objs, p)

FindingsOf(objs) ==
  UNION {UNION {{ByObject(objs, check, p, x) : x \in ReportOf(check, objs, p)} :
                  p \in PoliciesIn(objs)} : check \in RelatingChecks \cap Enabled}

(* Every order of at most five objects; of more, every exchange of two. *)
Rearrangements(n) ==
  IF n <= 5
  THEN {order \in [1..n -> 1..n] : \A k \in 1..n : \E i \in 1..n : order[i] = k}
  ELSE {[k \in 1..n |-> IF k = e[1] THEN e[2] ELSE IF k = e[2] THEN e[1] ELSE k] :
          e \in (1..n) \X (1..n)}

(* conflictingpolicies "deterministic without depending on iteration order", and
   of every check here: which policy reports what does not depend on the order
   the manifests were loaded in. *)
PolicyOrderIrrelevant ==
  phase = "done" =>
    \A order \in Rearrangements(Len(objects)) :
      FindingsOf([i \in DOMAIN objects |-> objects[order[i]]]) =
        {ByObject(objects, f[1], f[2], f[3]) : f \in {g \in findings : g[1] \in RelatingChecks}}

-----------------------------------------------------------------------------
(* What comments of the code say and the code does not do. *)

(* healthcheckwithoutfailover "An inherited policy is displaced entirely by one
   that names the route, so describing the inherited one's health check would
   describe config that never applies": no inherited policy is reported for a
   rule that another policy names. *)
DisplacedPolicyQuiet ==
  \A f \in findings :
    f[1] = "health-check-without-failover" /\ f[3].inherited =>
      \A b \in BackendRefsCovered(objects, f[3]) :
        ~\E p \in PoliciesIn(objects) \ {f[2]} : NamesRule(p, f[3].route, RuleOf(f[3].route, b))

=============================================================================
