---------------------------- MODULE MCListeners ----------------------------
(***************************************************************************)
(* Manifest sets for Listeners.  MCPorts: two or three listeners of one    *)
(* Gateway or ListenerSet over ports, protocols and hostnames.  MCTLS: one *)
(* listener and its tls block.  MCIdle: a Gateway with ListenerSets and    *)
(* routes around it.                                                       *)
(***************************************************************************)
EXTENDS Listeners

Listener(name, port, protocol, hostname, tls) ==
  [name |-> name, port |-> port, protocol |-> protocol, hostname |-> hostname, tls |-> tls]

Gateway(version, ns, listeners) ==
  [type |-> "Gateway", version |-> version, ns |-> ns, name |-> "gw", listeners |-> listeners]

ParentRef(group, kind, ns, name) == [group |-> group, kind |-> kind, ns |-> ns, name |-> name]

ListenerSet(version, parent, listeners) ==
  [type |-> "ListenerSet", version |-> version, ns |-> "apps", name |-> "more", parent |-> parent,
   listeners |-> listeners]

Exact == <<"a", "z">>

Protocols == {"HTTP", "HTTPS", "TLS", "TCP", "UDP", "example.io/quic"}

PortListeners(name) ==
  {Listener(name, port, protocol, hostname, Absent) :
     port \in {80, 443}, protocol \in Protocols, hostname \in {Absent, NoHostname, Exact}}

SamePort(name) ==
  {Listener(name, 80, protocol, hostname, Absent) :
     protocol \in {"HTTP", "HTTPS", "TCP", "UDP"}, hostname \in {NoHostname, Exact}}

MCPorts ==
  {<<Gateway(version, "infra", <<l, m>>)>> :
     version \in {"v1", "v1beta1"}, l \in PortListeners("one"), m \in PortListeners("two")}
  \cup {<<ListenerSet("v1", ParentRef(Absent, Absent, Absent, "gw"), <<l, m, n>>)>> :
          l \in SamePort("one"), m \in SamePort("two"), n \in SamePort("one")}

-----------------------------------------------------------------------------
CertificateRef == [group |-> Absent, kind |-> Absent, ns |-> Absent, name |-> "tls"]

TLSBlocks ==
  {Absent} \cup [mode : {Absent, "", "Terminate", "Passthrough"},
                 certificateRefs : {<<>>, <<CertificateRef>>}, options : BOOLEAN]

MCTLS ==
  {<<Gateway(version, "infra", <<Listener("one", 443, protocol, Absent, tls)>>)>> :
     version \in {"v1", "v1beta1"}, protocol \in Protocols, tls \in TLSBlocks}

-----------------------------------------------------------------------------
Route(type, ns, refs) ==
  [type |-> type, version |-> "v1", ns |-> ns, name |-> "web", parentRefs |-> refs,
   hostnames |-> {}, labels |-> <<>>, backendRefs |-> <<>>]

RouteRef(group, kind, ns, name) ==
  [group |-> group, kind |-> kind, ns |-> ns, name |-> name, section |-> Absent]

RouteRefs ==
  {<<>>}
  \cup {<<RouteRef(group, kind, ns, name)>> :
          group \in {Absent, "example.io"}, kind \in {Absent, "ListenerSet"}, ns \in {Absent, "infra"},
          name \in {"gw", "more"}}

MCIdle ==
  {<<Gateway(version, ns, <<>>), ListenerSet(served, ParentRef(group, kind, parentNs, "gw"), <<>>),
     Route("HTTPRoute", routeNs, refs)>> :
     version \in {"v1", "v1beta1"}, ns \in {"infra", "apps"}, served \in {"v1", "v1alpha1"},
     group \in {Absent, "example.io"}, kind \in {Absent, "Gateway", "Service"},
     parentNs \in {Absent, "infra"}, routeNs \in {"infra", "apps"}, refs \in RouteRefs}
  \cup {<<Gateway("v1", "infra", <<>>)>>}

MCListenerSets == MCPorts \cup MCTLS \cup MCIdle

=============================================================================
