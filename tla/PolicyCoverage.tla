-------------------------- MODULE PolicyCoverage --------------------------
(***************************************************************************)
(* pkg/gatewayapi/policycoverage.go: which routes a BackendTrafficPolicy   *)
(* applies to, and when a more specific policy displaces it.               *)
(*                                                                         *)
(* Besides the fields of GatewayAPI,                                       *)
(*   a route has  labels: a function from keys to values,  backendRefs:    *)
(*     Seq([rule, group, kind, ns, name]), rule being the name of the rule *)
(*     the ref stands in;                                                  *)
(*   a ListenerSet has  parent = [group, kind, ns, name];                  *)
(*   a policy has  targetRef: Absent or a target,  targetRefs: Seq(target),*)
(*     with target = [group, kind, name, section],  selectors: Seq([group, *)
(*     kind, from, matchLabels, matchExpressions]), matchLabels a function *)
(*     from keys to values and matchExpressions a set of [key, operator,   *)
(*     values], and  healthCheck: BOOLEAN.                                 *)
(***************************************************************************)
EXTENDS GatewayAPI

IsPolicy(o) == o.type = "BackendTrafficPolicy"

PoliciesIn(objs) == {p \in DOMAIN objs : IsPolicy(objs[p])}

RoutesIn(objs) == {k \in DOMAIN objs : IsRoute(objs[k])}

FirstOf(positions) == {k \in positions : \A j \in positions : k <= j}

IsParentKind(kind) == kind \in {"Gateway", "ListenerSet"}

IsRouteKind(kind) == kind \in RouteKinds

(* The deprecated targetRef comes before the targetRefs. *)
PolicyTargets(policy) ==
  (IF policy.targetRef = Absent THEN <<>> ELSE <<policy.targetRef>>) \o policy.targetRefs

-----------------------------------------------------------------------------
(* The routes beneath a parent. *)

ParentMatches(parent, owner) == parent.group = GroupName /\ OwnerOf(parent) = owner

CoversListener(parent, listener) ==
  listener = Absent \/ parent.section \in {Absent, listener}

RoutesAttachedToParent(objs, owner, listener) ==
  {k \in RoutesIn(objs) :
     \E r \in DOMAIN objs[k].parentRefs :
       LET parent == ParentOf(objs[k], r) IN
       ParentMatches(parent, owner) /\ CoversListener(parent, listener)}

ListenerSetParent(set) ==
  ObjectRef("Gateway", Default(set.parent.ns, set.ns), set.parent.name)

ListenerSetsBelongingTo(objs, gateway) ==
  {j \in DOMAIN objs :
     /\ objs[j].type = "ListenerSet" /\ objs[j].version = "v1"
     /\ objs[j].parent.group \in {Absent, GroupName}
     /\ objs[j].parent.kind \in {Absent, "Gateway"}
     /\ ListenerSetParent(objs[j]) = gateway}

(* Mutant: only the routes of the Gateway itself are remembered as seen. *)
RoutesAttachedToGatewayAgain(objs, gateway, listener) ==
  LET direct == RoutesAttachedToParent(objs, gateway, listener)
      under(j) == RoutesAttachedToParent(objs, RefOf(objs[j]), Absent)
  IN  {<<0, k>> : k \in direct}
      \cup UNION {{<<j, k>> : k \in under(j) \ direct} :
                    j \in ListenerSetsBelongingTo(objs, gateway)}

(* The routes under a Gateway as <<via, route>>: via is 0 for those attached to
   the Gateway, else the ListenerSet a route came in by.  A route already seen
   on the Gateway or an earlier ListenerSet is skipped; the listener narrows
   the Gateway's own routes only. *)
RoutesAttachedToGateway(objs, gateway, listener) ==
  LET direct == RoutesAttachedToParent(objs, gateway, listener)
      sets == ListenerSetsBelongingTo(objs, gateway)
      under(j) == RoutesAttachedToParent(objs, RefOf(objs[j]), Absent)
      seen(j) == direct \cup UNION {under(i) : i \in {s \in sets : s < j}}
  IN  {<<0, k>> : k \in direct}
      \cup UNION {{<<j, k>> : k \in under(j) \ seen(j)} : j \in sets}

-----------------------------------------------------------------------------
(* What a policy covers. *)

RoutesTargetedBy(objs, ns, target) ==
  LET named == ObjectRef(target.kind, ns, target.name) IN
  CASE target.kind = "Gateway" -> RoutesAttachedToGateway(objs, named, target.section)
    [] target.kind = "ListenerSet" ->
         {0} \X RoutesAttachedToParent(objs, named, target.section)
    [] OTHER -> {0} \X FirstOf({k \in RoutesIn(objs) : RefOf(objs[k]) = named})

(* "Same" is the default; a namespace Selector selects nothing. *)
TargetNamespaceSelected(from, policyNs, routeNs) ==
  IF from \in {Absent, "Same"} THEN routeNs = policyNs ELSE from = "All"

(* A label selector, as metav1.LabelSelectorAsSelector makes it of the two
   fields.  It is an error for In and NotIn to list no value, for Exists and
   DoesNotExist to list one, and for any other operator; keys and values are
   taken to be written as Kubernetes admits them. *)
ParsesAsSelector(sel) ==
  \A e \in sel.matchExpressions :
    \/ e.operator \in {"In", "NotIn"} /\ e.values # {}
    \/ e.operator \in {"Exists", "DoesNotExist"} /\ e.values = {}

(* A label that is not there is in no set of values, and so outside of each. *)
Requires(labels, e) ==
  \/ e.operator = "In" /\ e.key \in DOMAIN labels /\ labels[e.key] \in e.values
  \/ e.operator = "NotIn" /\ (e.key \in DOMAIN labels => labels[e.key] \notin e.values)
  \/ e.operator = "Exists" /\ e.key \in DOMAIN labels
  \/ e.operator = "DoesNotExist" /\ e.key \notin DOMAIN labels

SelectorMatches(sel, labels) ==
  /\ \A key \in DOMAIN sel.matchLabels :
       key \in DOMAIN labels /\ labels[key] = sel.matchLabels[key]
  /\ \A e \in sel.matchExpressions : Requires(labels, e)

RoutesSelectedBy(objs, ns, sel) ==
  {k \in RoutesIn(objs) :
     /\ sel.group \in {Absent, GroupName}
     /\ ParsesAsSelector(sel)
     /\ objs[k].type = sel.kind
     /\ TargetNamespaceSelected(sel.from, ns, objs[k].ns)
     /\ SelectorMatches(sel, objs[k].labels)}

(* The covered routes, one record for each element of the Go slice.  Targets
   are numbered, the selectors after the named ones. *)
Coverage(objs, policy) ==
  LET targets == PolicyTargets(policy)
      covered(t) ==
        {[target |-> t, via |-> v[1], route |-> v[2],
          inherited |-> IsParentKind(targets[t].kind),
          section |-> IF IsParentKind(targets[t].kind) THEN Absent ELSE targets[t].section] :
           v \in RoutesTargetedBy(objs, policy.ns, targets[t])}
      selected(s) ==
        {[target |-> Len(targets) + s, via |-> 0, route |-> k, inherited |-> FALSE,
          section |-> Absent] : k \in RoutesSelectedBy(objs, policy.ns, policy.selectors[s])}
  IN  (UNION {covered(t) : t \in DOMAIN targets})
      \cup UNION {selected(s) : s \in DOMAIN policy.selectors}

SectionCoversRule(section, rule) == section = Absent \/ (rule # Absent /\ rule = section)

(* Mutant: inherited coverage displaces as well. *)
MoreSpecificOrEqualPolicyCovers(objs, route, rule, self) ==
  \E other \in PoliciesIn(objs) \ {self} :
    \E c \in Coverage(objs, objs[other]) :
      /\ RefOf(objs[c.route]) = RefOf(objs[route])
      /\ SectionCoversRule(c.section, rule)

(* Mutant: only policies with a health check displace, as for the other check. *)
MoreSpecificHealthCheckCovers(objs, route, rule, self) ==
  \E other \in PoliciesIn(objs) \ {self} :
    /\ objs[other].healthCheck
    /\ \E c \in Coverage(objs, objs[other]) :
         /\ ~c.inherited
         /\ RefOf(objs[c.route]) = RefOf(objs[route])
         /\ SectionCoversRule(c.section, rule)

MoreSpecificPolicyCovers(objs, route, rule, self) ==
  \E other \in PoliciesIn(objs) \ {self} :
    \E c \in Coverage(objs, objs[other]) :
      /\ ~c.inherited
      /\ RefOf(objs[c.route]) = RefOf(objs[route])
      /\ SectionCoversRule(c.section, rule)

=============================================================================
