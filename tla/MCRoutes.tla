------------------------------ MODULE MCRoutes ------------------------------
(***************************************************************************)
(* Manifest sets for Routes.  MCHostnames: two HTTPRoutes over a Gateway   *)
(* with two listeners, hostnames and admission varied.  MCMatches: two     *)
(* routes and what they match, their age and names varied, and a third     *)
(* that competes with both.  MCRules: the rules of a single route.         *)
(***************************************************************************)
EXTENDS Routes, TLC

MCRank ==
  LET order == <<"apps", "infra", "alpha", "beta", "gamma", "gw",
                 ",", "1", ":", "Exact", "V", "v", "x-a", "x-b">> IN
  [word \in {order[i] : i \in DOMAIN order} |-> CHOOSE i \in DOMAIN order : order[i] = word]

Ref(section) ==
  [group |-> Absent, kind |-> Absent, ns |-> "infra", name |-> "gw", section |-> section]

Rule(name, matches, backendRefs, filters) ==
  [name |-> name, matches |-> matches, backendRefs |-> backendRefs, filters |-> filters]

BackendRef(weight, port) ==
  [group |-> Absent, kind |-> Absent, ns |-> Absent, name |-> "cart", weight |-> weight, port |-> port]

Route(type, ns, name, created, hostnames, refs, rules) ==
  [type |-> type, version |-> "v1", ns |-> ns, name |-> name, created |-> created,
   hostnames |-> hostnames, parentRefs |-> refs, rules |-> rules]

Listener(name, protocol, from, kinds, hostname) ==
  [name |-> name, protocol |-> protocol, from |-> from, kinds |-> kinds, hostname |-> hostname]

Gateway(listeners) ==
  [type |-> "Gateway", version |-> "v1", ns |-> "infra", name |-> "gw", listeners |-> listeners]

-----------------------------------------------------------------------------
Exact == <<"a", "z">>

Wild == <<"*", "z">>

(* Every host of one to three labels. *)
MCHostNames == UNION {[1..n -> {"a", "b", "z"}] : n \in 1..3}

Serving == <<Rule(Absent, <<>>, <<BackendRef(Absent, 80)>>, {})>>

HostnameSets == {{}, {Exact}, {Wild}, {Exact, Wild}, {Wild, <<"*", "b", "z">>}}

HostRoute(ns, name, hostnames, section) ==
  Route("HTTPRoute", ns, name, Absent, hostnames, <<Ref(section)>>, Serving)

HTTPRouteKind == {[group |-> Absent, kind |-> "HTTPRoute"]}

Gateways ==
  {Gateway(<<Listener("one", "HTTP", from, {}, g), Listener(name, "HTTPS", "All", kinds, h)>>) :
     from \in {Absent, "All"}, name \in {"one", "two"},
     kinds \in {{}, {[group |-> Absent, kind |-> "GRPCRoute"]}},
     g \in {NoHostname, Exact}, h \in {Wild, <<"b", "z">>}}
  \cup {Gateway(<<Listener("one", "TCP", "All", HTTPRouteKind, Absent),
                  Listener("two", "HTTP", "All", HTTPRouteKind, h)>>) : h \in {Absent, Wild}}

MCHostnames ==
  {<<HostRoute("apps", "alpha", g, Absent), gateway, HostRoute(ns, name, h, section)>> :
     g \in HostnameSets, h \in HostnameSets, gateway \in Gateways,
     ns \in {"apps", "infra"}, name \in {"beta"}, section \in {Absent, "one", "two"}}
  \cup {<<HostRoute("infra", "alpha", g, Absent), HostRoute("apps", "alpha", h, "two"), gateway>> :
          g \in HostnameSets, h \in HostnameSets, gateway \in Gateways}

-----------------------------------------------------------------------------
Header(type, spelled, folded, value) ==
  [type |-> type, name |-> [spelled |-> spelled, folded |-> folded], value |-> value]

Param(type, name, value) == [type |-> type, name |-> name, value |-> value]

Match(path, method, headers, params) ==
  [path |-> path, method |-> method, headers |-> headers, params |-> params]

Path(type, value) == [type |-> type, value |-> value]

One == <<"1">>

(* A value that reads like the end of one entry and a second one. *)
Two == <<"1", ",", "Exact", ":", "x-b", ":", "1">>

Cart == <<"/", "cart">>

(* A path that reads like a path and a method. *)
PathAndMethod == Cart \o <<";", "method=", "GET">>

XA == Header(Absent, "X-A", "x-a", One)

XB == Header("Exact", "x-b", "x-b", One)

MatchChoices ==
  {Match(path, Absent, <<>>, <<>>) :
     path \in {Absent, Path(Absent, Absent), Path("PathPrefix", Root), Path("Exact", Root),
               Path(Absent, Cart), Path("Exact", Cart), Path("Exact", Absent),
               Path(Absent, Cart \o Root), Path("Exact", Cart \o Root), Path(Absent, PathAndMethod)}}
  \cup {Match(Absent, "GET", <<>>, <<>>), Match(Path(Absent, Cart), "GET", <<>>, <<>>)}
  \cup {Match(Absent, Absent, headers, <<>>) :
          headers \in {<<XA>>, <<Header("Exact", "x-a", "x-a", One)>>, <<XA, XB>>, <<XB, XA>>,
                       <<Header(Absent, "x-a", "x-a", Two)>>}}
  \cup {Match(Absent, Absent, <<>>, <<Param(type, name, One)>>) :
          type \in {Absent, "Exact"}, name \in {"v", "V"}}

MCRequests ==
  [path : {Root, Cart, Cart \o Root, Cart \o <<"/", "1">>, PathAndMethod}
          \cup {<<"/", name>> : name \in {"alpha", "beta", "gamma"}},
   method : {"GET", "POST"},
   headers : {{}, {<<"x-a", One>>}, {<<"x-a", Two>>}, {<<"x-a", One>>, <<"x-b", One>>}},
   params : {{}, {<<"v", One>>}, {<<"V", One>>}}]

OneListener == Gateway(<<Listener("one", "HTTP", "All", {}, Absent)>>)

MatchRoute(type, ns, name, created, matches) ==
  Route(type, ns, name, created, {}, <<Ref(Absent)>>,
        <<Rule("first", matches, <<BackendRef(1, 80)>>, {}),
          Rule("second", <<Match(Path("Exact", <<"/", name>>), Absent, <<>>, <<>>)>>, <<BackendRef(1, 80)>>, {})>>)

MCMatches ==
  {<<MatchRoute("HTTPRoute", "infra", "alpha", created, <<m>>), OneListener,
     MatchRoute("HTTPRoute", "apps", "beta", Absent, <<>>),
     MatchRoute("HTTPRoute", "apps", name, 1, <<n>>)>> :
     m \in MatchChoices, n \in MatchChoices, created \in {Absent, 1, 2}, name \in {"alpha", "gamma"}}
  \cup {<<OneListener, MatchRoute(type, "infra", "alpha", Absent, <<>>),
          MatchRoute("HTTPRoute", "apps", "alpha", Absent, <<>>)>> : type \in {"HTTPRoute", "GRPCRoute"}}

-----------------------------------------------------------------------------
RuleChoices ==
  {Rule(name, <<>>, refs, filters) :
     name \in {Absent, "", "first"},
     refs \in {<<>>} \cup {<<BackendRef(w, Absent)>> : w \in {Absent, 0, 1}}
              \cup {<<BackendRef(0, 80), BackendRef(w, 80)>> : w \in {Absent, 0, 1}},
     filters \in {{}, {"URLRewrite"}, {"RequestRedirect"}, {"URLRewrite", "ExtensionRef"}}}

MCRules ==
  {<<Route(type, "apps", "alpha", Absent, {}, <<>>, <<first, Rule("first", <<>>, refs, {})>>)>> :
     type \in {"HTTPRoute", "GRPCRoute", "TCPRoute"}, first \in RuleChoices,
     refs \in {<<>>, <<BackendRef(0, Absent)>>}}

MCRouteSets == MCHostnames \cup MCMatches \cup MCRules

=============================================================================
