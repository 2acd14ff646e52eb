--------------------------- MODULE MCAttachment ---------------------------
(***************************************************************************)
(* Manifest sets for Attachment.  MCKinds varies what a listener admits    *)
(* (protocol, namespaces, kinds), up to two listeners on a Gateway;        *)
(* MCHosts varies hostnames, over a Gateway and a ListenerSet; MCVersions  *)
(* adds v1beta1 Gateways and parents without listeners.                    *)
(***************************************************************************)
EXTENDS Attachment, TLC

Ref(ns, name, section) ==
  [group |-> Absent, kind |-> Absent, ns |-> ns, name |-> name, section |-> section]

Parent(type, version, name, listeners) ==
  [type |-> type, version |-> version, ns |-> "infra", name |-> name,
   listeners |-> listeners]

Route(type, ns, hostnames, refs) ==
  [type |-> type, version |-> "v1", ns |-> ns, name |-> "web",
   hostnames |-> hostnames, parentRefs |-> refs]

Listener(name, protocol, from, kinds, hostname) ==
  [name |-> name, protocol |-> protocol, from |-> from, kinds |-> kinds,
   hostname |-> hostname]

(* Every order two, or three, objects can be loaded in. *)
Pairs(A, B) == {<<a, b>> : a \in A, b \in B} \cup {<<b, a>> : a \in A, b \in B}

Triples(A, B, C) ==
  {<<t[p[1]], t[p[2]], t[p[3]]>> : t \in A \X B \X C, p \in Permutations(1..3)}

KindOf(group, kind) == [group |-> group, kind |-> kind]

-----------------------------------------------------------------------------
KindSets ==
  {{}, {KindOf(Absent, "HTTPRoute")}, {KindOf(GroupName, "TCPRoute")},
   {KindOf("example.io", "HTTPRoute")}}

KindListeners(name) ==
  {Listener(name, protocol, from, kinds, Absent) :
     protocol \in {"HTTP", "TCP", "example.io/quic"},
     from \in {Absent, "All"}, kinds \in KindSets}

(* Next to the parentRef under test every route has one to a Gateway that is
   not there and one into another API group. *)
KindRoutes ==
  {Route(type, ns, {},
         <<Ref("infra", "gw", section), Ref(Absent, "gone", Absent),
           [group |-> "", kind |-> "Service", ns |-> Absent, name |-> "gw",
            section |-> Absent]>>) :
     type \in {"HTTPRoute", "TCPRoute"}, ns \in {"infra", "apps"},
     section \in {Absent, "one", "nine"}}

KindGateways ==
  {Parent("Gateway", "v1", "gw", <<l>>) : l \in KindListeners("one")}
  \cup {Parent("Gateway", "v1", "gw", <<l, m>>) :
          l \in KindListeners("one"), m \in KindListeners("two")}
  \cup {Parent("Gateway", "v1", "gw", <<l, l>>) : l \in KindListeners("one")}
  \cup {Parent("Gateway", "v1", "gw", <<>>)}

MCKinds ==
  {<<route>> : route \in KindRoutes}
  \cup {<<gateway, route>> : gateway \in KindGateways, route \in KindRoutes}

-----------------------------------------------------------------------------
Wild(h) == <<"*">> \o h

HostPatterns ==
  {<<"b">>, <<"a", "b">>, <<"c", "a", "b">>, Wild(<<"b">>), Wild(<<"a", "b">>),
   Wild(<<"c", "b">>)}

(* Every host of one to four labels. *)
MCHostNames == UNION {[1..n -> {"a", "b", "c"}] : n \in 1..4}

HostListener(name, hostname, kinds) == Listener(name, "HTTP", "All", kinds, hostname)

HostGateways ==
  {Parent("Gateway", "v1", "gw", <<HostListener("one", g, {}), HostListener("two", h, {})>>) :
     g \in HostPatterns, h \in {NoHostname, <<"a", "b">>, Wild(<<"b">>)}}

HostListenerSets ==
  {Parent("ListenerSet", "v1", "more", <<HostListener("one", h, {})>>) : h \in HostPatterns}

HostRoutes ==
  {Route("HTTPRoute", "apps", hostnames,
         <<Ref("infra", "gw", section),
           [group |-> GroupName, kind |-> "ListenerSet", ns |-> "infra",
            name |-> "more", section |-> Absent]>>) :
     hostnames \in {{}} \cup {{h} : h \in HostPatterns}
                   \cup {{<<"b">>, Wild(<<"c", "b">>)}},
     section \in {Absent, "one", "two"}}

MCHosts ==
  Pairs(HostRoutes, HostGateways \cup HostListenerSets)
  \cup Triples(HostRoutes, HostGateways, HostListenerSets)

-----------------------------------------------------------------------------
(* A Gateway of an older version or without listeners, next to one that is
   neither, and listeners that name kinds their protocol cannot carry. *)
VersionGateways ==
  {Parent("Gateway", "v1beta1", "gw", <<HostListener("one", Absent, {})>>),
   Parent("Gateway", "v1", "gw", <<>>),
   Parent("Gateway", "v1", "gw",
     <<HostListener("one", <<"a", "b">>, {KindOf(Absent, "TLSRoute")})>>)}

VersionRoutes ==
  {Route(type, "apps", {<<"b">>}, <<Ref("infra", "gw", section)>>) :
     type \in {"HTTPRoute", "TLSRoute"}, section \in {Absent, "one"}}

MCVersions ==
  {<<gateway, Parent("Gateway", "v1", "other", <<HostListener("one", Absent, {})>>), route>> :
     gateway \in VersionGateways, route \in VersionRoutes}

MCManifestSets == MCKinds \cup MCHosts

=============================================================================
