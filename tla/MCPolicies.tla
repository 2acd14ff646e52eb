---------------------------- MODULE MCPolicies ----------------------------
(***************************************************************************)
(* Manifest sets for Policies.  MCCoverage lets a policy on the Gateway,   *)
(* one on a ListenerSet and one on the route compete for an FQDN-backed    *)
(* route; MCClaims lets policies name the same targets.                    *)
(***************************************************************************)
EXTENDS Policies

Named(kind, name, section) ==
  [group |-> GroupName, kind |-> kind, name |-> name, section |-> section]

Policy(ns, name, targets, selectors, healthCheck) ==
  [type |-> "BackendTrafficPolicy", version |-> "v1alpha1", ns |-> ns, name |-> name,
   targetRef |-> Absent, targetRefs |-> targets, selectors |-> selectors,
   healthCheck |-> healthCheck, retry |-> Absent]

Tier(value) == [key \in {"tier"} |-> value]

NoLabels == [key \in {} |-> Absent]

Expression(key, operator, values) == [key |-> key, operator |-> operator, values |-> values]

Selector(from, labels, expressions) ==
  [group |-> Absent, kind |-> "HTTPRoute", from |-> from,
   matchLabels |-> labels, matchExpressions |-> expressions]

To(kind, name, section) ==
  [group |-> Absent, kind |-> kind, ns |-> "infra", name |-> name, section |-> section]

BackendRef(rule) ==
  [rule |-> rule, group |-> EnvoyGroup, kind |-> "Backend", ns |-> Absent, name |-> "up"]

Route(ns, parents, backendRefs) ==
  [type |-> "HTTPRoute", version |-> "v1", ns |-> ns, name |-> "web", hostnames |-> {},
   labels |-> Tier("web"), parentRefs |-> parents, backendRefs |-> backendRefs]

Backend(ns, backendType, endpoints) ==
  [type |-> "Backend", version |-> "v1alpha1", ns |-> ns, name |-> "up",
   backendType |-> backendType, endpoints |-> endpoints]

ListenerSet(name, parent) ==
  [type |-> "ListenerSet", version |-> "v1", ns |-> "infra", name |-> name,
   listeners |-> <<>>,
   parent |-> [group |-> Absent, kind |-> Absent, ns |-> Absent, name |-> parent]]

-----------------------------------------------------------------------------
Rank == [name \in {"edge", "more", "web", "other"} |->
           CASE name = "edge" -> 1 [] name = "more" -> 2 [] name = "other" -> 3 [] OTHER -> 4]

Parents ==
  {<<To("Gateway", "gw", section)>> : section \in {Absent, "tls"}}
  \cup {<<To("ListenerSet", "more", Absent)>>,
        <<To("Gateway", "gw", Absent), To("ListenerSet", "more", Absent)>>,
        <<To("ListenerSet", "more", Absent), To("ListenerSet", "extra", Absent)>>}

Backing ==
  {<<BackendRef("read")>>, <<BackendRef(Absent)>>,
   <<BackendRef("read"), BackendRef(Absent)>>}

Backends ==
  {Backend("apps", Absent, <<"a.example">>), Backend("apps", "Endpoints", <<Absent, "a.example">>),
   Backend("apps", "DynamicResolver", <<>>)}

GatewayPolicies ==
  {<<>>} \cup {<<Policy("infra", "edge", <<Named("Gateway", "gw", section)>>, <<>>, hc)>> :
                 section \in {Absent, "plain"}, hc \in BOOLEAN}

ListenerSetPolicies ==
  {<<>>} \cup {<<Policy("infra", "more", <<Named("ListenerSet", "more", Absent)>>, <<>>, hc)>> :
                 hc \in BOOLEAN}

RoutePolicies ==
  {<<>>}
  \cup {<<Policy("apps", "web", <<Named("HTTPRoute", "web", section)>>, <<>>, hc)>> :
          section \in {Absent, "read"}, hc \in BOOLEAN}
  \cup {<<Policy("apps", "web", <<Named("HTTPRoute", "web", Absent)>>, <<>>, hc),
          Policy("apps", "other", <<Named("HTTPRoute", "web", "read")>>, <<>>, rc)>> :
          hc \in BOOLEAN, rc \in BOOLEAN}
  \cup {<<Policy("infra", "web", <<>>, <<Selector("All", Tier("web"), {})>>, TRUE)>>,
        <<Policy("apps", "web", <<Named("Service", "web", Absent)>>,
                 <<Selector(Absent, Tier("db"), {})>>, FALSE)>>}
  \cup {<<Policy("apps", "web", <<>>, <<Selector("Same", NoLabels, {e})>>, FALSE)>> :
          e \in {Expression("tier", "NotIn", {"db"}), Expression("tier", "DoesNotExist", {}),
                 Expression("app", "In", {"web"}), Expression("tier", "In", {})}}

Sets == <<ListenerSet("more", "gw"), ListenerSet("extra", "gw")>>

MCCoverage ==
  {<<Route("apps", parents, refs), backend>> \o Sets \o g \o l \o r :
     parents \in Parents, refs \in Backing, backend \in Backends,
     g \in GatewayPolicies, l \in ListenerSetPolicies, r \in RoutePolicies}

CoverageChecks == <<"fqdn-backend-cold-start", "health-check-without-failover">>

-----------------------------------------------------------------------------
(* Three policies in one namespace claim a Gateway, one of its listeners or a
   route, by targetRef or targetRefs, or name a route that is not there. *)

Claims ==
  {<<Absent, <<Named("Gateway", "gw", Absent)>> >>,
   <<Named("Gateway", "gw", Absent), <<Named("Gateway", "gw", "tls")>> >>,
   <<Absent, <<Named("HTTPRoute", "web", Absent), Named("Gateway", "gw", Absent)>> >>,
   <<Absent, <<Named("HTTPRoute", "web", Absent), Named("HTTPRoute", "web", Absent)>> >>,
   <<Absent, <<Named("HTTPRoute", "gone", Absent), Named("HTTPRoute", "web", "read")>> >>}

Retries == {Absent, [num |-> 3, timeout |-> FALSE, spaced |-> FALSE]}

Claiming(name, healthCheck) ==
  {[Policy("infra", name, claim[2], <<>>, healthCheck)
      EXCEPT !.targetRef = claim[1], !.retry = retry] : claim \in Claims, retry \in Retries}

ClaimedBackends == {Backend("infra", Absent, <<>>), Backend("infra", Absent, <<"a.example">>)}

MCClaims ==
  {<<p, q, backend, r, Route("infra", <<To("Gateway", "gw", Absent)>>, <<BackendRef("read")>>)>> :
     p \in Claiming("other", FALSE), q \in {c \in Claiming("edge", TRUE) : c.retry = Absent},
     r \in {c \in Claiming("more", FALSE) : c.retry = Absent}, backend \in ClaimedBackends}

MCManifestSets == MCCoverage \cup MCClaims

=============================================================================
