---------------------------- MODULE GatewayAPI ----------------------------
(***************************************************************************)
(* pkg/gatewayapi: what the checks see of the manifest set, and how a      *)
(* route, its parentRefs and the listeners they select relate.             *)
(*                                                                         *)
(* The manifest set (the lintCtx of the code) is a sequence of objects in  *)
(* load order.  An object is a record with fields type (its kind),         *)
(* version, ns and name;                                                   *)
(*   a Gateway or ListenerSet also has  listeners: Seq(listener), with     *)
(*     listener = [name, hostname, protocol, from, kinds];                 *)
(*     from and kinds are allowedRoutes.namespaces.from and                *)
(*     allowedRoutes.kinds, Absent and {} when the field is not set;       *)
(*   a route also has  hostnames: a set,  parentRefs: Seq(ref), with       *)
(*     ref = [group, kind, ns, name, section].                             *)
(* A nil pointer in the code is Absent here.                               *)
(***************************************************************************)
EXTENDS Hostnames, FiniteSets

CONSTANT Absent

(* nil is not a value of any field. *)
ASSUME AbsentAssumption == Absent \notin {"", "All", "Selector", "DynamicResolver"}

GroupName == "gateway.networking.k8s.io"

EnvoyGroup == "gateway.envoyproxy.io"

RouteKinds == {"HTTPRoute", "GRPCRoute", "TCPRoute", "TLSRoute", "UDPRoute"}

(* The versions whose Go types AsRoute switches on. *)
RouteVersions ==
  [k \in RouteKinds |->
     CASE k = "HTTPRoute" -> {"v1", "v1beta1"}
       [] k = "TLSRoute"  -> {"v1", "v1alpha2", "v1alpha3"}
       [] OTHER           -> {"v1", "v1alpha2"}]

IsRoute(o) == o.type \in RouteKinds /\ o.version \in RouteVersions[o.type]

(* TCPRoute and UDPRoute carry no hostnames. *)
HostnamesOf(route) ==
  IF route.type \in {"TCPRoute", "UDPRoute"} THEN {} ELSE route.hostnames

Default(value, default) == IF value = Absent THEN default ELSE value

(* The r-th parentRef of a route, defaults applied. *)
ParentOf(route, r) ==
  LET ref == route.parentRefs[r] IN
  [group   |-> Default(ref.group, GroupName),
   kind    |-> Default(ref.kind, "Gateway"),
   ns      |-> Default(ref.ns, route.ns),
   name    |-> ref.name,
   section |-> ref.section]

ObjectRef(kind, ns, name) == [kind |-> kind, ns |-> ns, name |-> name]

RefOf(o) == ObjectRef(o.type, o.ns, o.name)

OwnerOf(parent) == ObjectRef(parent.kind, parent.ns, parent.name)

(* The two Go types GatewaysAndListenerSets and ListenersOf switch on; both
   are v1 only. *)
OwnsListeners(o) == o.type \in {"Gateway", "ListenerSet"} /\ o.version = "v1"

(* Mutant: the index stops at the first object it finds. *)
FirstGatewayOrListenerSet(objs) ==
  {RefOf(objs[i]) : i \in {j \in DOMAIN objs :
     OwnsListeners(objs[j]) /\ \A n \in 1..(j - 1) : ~OwnsListeners(objs[n])}}

GatewaysAndListenerSets(objs) ==
  {RefOf(objs[i]) : i \in {j \in DOMAIN objs : OwnsListeners(objs[j])}}

(* ListenersByOwner(lintCtx)[owner], as positions <<object, listener>>; their
   lexicographic order is the order of the Go slice, and an owner with no
   listener has no entry in the Go map. *)
ListenersByOwner(objs, owner) ==
  UNION {{<<i, j>> : j \in DOMAIN objs[i].listeners} :
           i \in {k \in DOMAIN objs : OwnsListeners(objs[k]) /\ RefOf(objs[k]) = owner}}

ListenerAt(objs, p) == objs[p[1]].listeners[p[2]]

Before(p, q) == p[1] < q[1] \/ (p[1] = q[1] /\ p[2] < q[2])

(* The listeners a parentRef selects: all of its owner's, or the first one of
   the name it gives. *)
ListenersFor(objs, parent) ==
  LET all == ListenersByOwner(objs, OwnerOf(parent))
      named == {p \in all : ListenerAt(objs, p).name = parent.section}
  IN  IF parent.section = Absent THEN all
      ELSE {p \in named : \A q \in named : ~Before(q, p)}

-----------------------------------------------------------------------------
(* attach.go: what one listener admits. *)

RouteKindsFor(protocol) ==
  CASE protocol \in {"HTTP", "HTTPS"} -> {"HTTPRoute", "GRPCRoute"}
    [] protocol = "TLS" -> {"TLSRoute"}
    [] protocol = "TCP" -> {"TCPRoute"}
    [] protocol = "UDP" -> {"UDPRoute"}
    [] OTHER -> {}

HasExplicitKinds(l) == l.kinds # {}

(* The route kinds a listener accepts by name.  An empty result means the Go
   slice stayed nil. *)
AcceptedKinds(l) ==
  IF HasExplicitKinds(l)
  THEN {k.kind : k \in {e \in l.kinds : e.group \in {Absent, GroupName}}}
  ELSE RouteKindsFor(l.protocol)

AcceptsKind(l, kind) == AcceptedKinds(l) = {} \/ kind \in AcceptedKinds(l)

(* "Same" is the default; a Selector, or a value gwlint does not know,
   permits. *)
AcceptsNamespace(l, ownerNs, routeNs) ==
  l.from \in {Absent, "Same"} => routeNs = ownerNs

(* The empty hostname: one empty label. *)
NoHostname == <<"">>

AnyHostname(l) == l.hostname \in {Absent, NoHostname}

HostnamesIntersect(l, hostnames) ==
  \/ AnyHostname(l)
  \/ hostnames = {}
  \/ \E h \in hostnames : HostnamesOverlap(l.hostname, h)

=============================================================================
