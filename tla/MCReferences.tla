---------------------------- MODULE MCReferences ----------------------------
(***************************************************************************)
(* Manifest sets for References.  MCBackends: a route and up to three of   *)
(* the Services, Backends and grants around its backendRefs.  MCSecrets: a *)
(* Gateway or ListenerSet and up to three of the Secrets, Certificates,    *)
(* grants, classes and Gateways it may name.  MCShared: a route and a      *)
(* Gateway that reach into one namespace.                                  *)
(***************************************************************************)
EXTENDS References, SequencesExt, FiniteSetsExt

Object(type, version, ns, name) == [type |-> type, version |-> version, ns |-> ns, name |-> name]

Ref(group, kind, ns, name) == [group |-> group, kind |-> kind, ns |-> ns, name |-> name]

From(kind, ns) == [group |-> GroupName, kind |-> kind, ns |-> ns]

To(kind, name) == [group |-> "", kind |-> kind, name |-> name]

Grant(version, ns, name, from, to) ==
  [type |-> "ReferenceGrant", version |-> version, ns |-> ns, name |-> name,
   from |-> from, to |-> to]

(* Judged objects with every choice of at most n objects around them. *)
Around(judged, pool, n) ==
  {<<o>> \o SetToSeq(others) : o \in judged, others \in UNION {kSubset(i, pool) : i \in 0..n}}

-----------------------------------------------------------------------------
Route(ns, refs) ==
  [type |-> "HTTPRoute", version |-> "v1", ns |-> ns, name |-> "web", backendRefs |-> refs,
   parentRefs |-> <<>>, hostnames |-> {}, labels |-> <<>>]

BackendRefs ==
  {Ref(Absent, Absent, ns, "cart") : ns \in {Absent, "store"}}
  \cup {Ref(EnvoyGroup, "Backend", "store", "cart"), Ref("example.io", "Backend", "store", "cart")}

Routes ==
  {Route(ns, <<ref>>) : ns \in {"", "apps", "store"}, ref \in BackendRefs}
  \cup {Route("apps", <<Ref("", "Service", "store", "cart"),
                        Ref("", "Service", "store", "stock")>>)}

Backends ==
  {Object("Service", "v1", "store", "cart"), Object("Service", "v1", "apps", "other"),
   Object("Service", "v1", "store", "other"), Object("Backend", "v1alpha1", "store", "other")}

RouteGrants ==
  {Grant("v1beta1", "store", "any", {From("HTTPRoute", "apps")}, {To("Service", Absent)}),
   Grant("v1", "store", "one", {From("HTTPRoute", "apps"), From("GRPCRoute", "apps")},
         {To("Service", "cart"), To("Secret", Absent)}),
   Grant("v1alpha2", "store", "grpc", {From("GRPCRoute", "apps")}, {To("Service", Absent)}),
   Grant("v1", "store", "core", {[group |-> "", kind |-> "HTTPRoute", ns |-> "apps"]},
         {To("Service", Absent)}),
   Grant("v1", "store", "backends", {From("HTTPRoute", "apps")},
         {[group |-> EnvoyGroup, kind |-> "Backend", name |-> Absent]}),
   Grant("v1", "apps", "elsewhere", {From("HTTPRoute", "apps")}, {To("Service", Absent)})}

MCBackends == Around(Routes, Backends \cup RouteGrants, 3)

-----------------------------------------------------------------------------
TLS(mode, refs) == [mode |-> mode, certificateRefs |-> refs, options |-> FALSE]

Listener(tls) == [name |-> "https", tls |-> tls]

Gateway(version, ns, name, class, listeners) ==
  [type |-> "Gateway", version |-> version, ns |-> ns, name |-> name, className |-> class,
   listeners |-> listeners]

ListenerSet(version, parent, listeners) ==
  [type |-> "ListenerSet", version |-> version, ns |-> "apps", name |-> "more",
   parent |-> parent, listeners |-> listeners]

Certificate(group, secretName) ==
  [type |-> "Certificate", version |-> "v1alpha2", group |-> group, ns |-> "store", name |-> "cert",
   secretName |-> secretName]

Listeners ==
  {<<Listener(TLS(mode, <<Ref(Absent, Absent, "store", "tls")>>))>> : mode \in {Absent, "Passthrough"}}
  \cup {<<Listener(Absent), Listener(TLS("Terminate", <<Ref("", "Secret", Absent, "tls"),
                                                        Ref("example.io", "Vault", "store", "tls")>>))>>}

CertificateOwners ==
  {Gateway(version, "apps", "gw", class, listeners) :
     version \in {"v1", "v1beta1"}, class \in {"", "envoy"}, listeners \in Listeners}
  \cup {ListenerSet("v1", parent, listeners) :
          parent \in {Ref(Absent, Absent, ns, "edge") : ns \in {Absent, "store"}}
                     \cup {Ref("example.io", "Mesh", Absent, "edge")},
          listeners \in Listeners}

SecretPool ==
  {Object("Secret", "v1", "store", "tls"), Object("Secret", "v1", "apps", "other"),
   Certificate("cert-manager.io", "tls"), Certificate("cert-manager.io", Absent),
   Certificate("networking.internal.knative.dev", "tls"),
   Object("GatewayClass", "v1beta1", "", "envoy"), Object("GatewayClass", "v1", "", "other"),
   Gateway("v1beta1", "store", "edge", "", <<>>)}
  \cup {Gateway("v1", ns, "other", "", <<>>) : ns \in {"apps", "store"}}

CertificateGrants ==
  {Grant("v1", "store", "set", {From("ListenerSet", "apps")}, {To("Secret", Absent)}),
   Grant("v1beta1", "store", "gateway", {From("Gateway", "apps")}, {To("Secret", "tls")}),
   Grant("v1alpha2", "store", "old", {From("Gateway", "apps")}, {To("Secret", Absent)})}

MCSecrets ==
  {set \in Around(CertificateOwners, SecretPool \cup CertificateGrants, 3) :
     \A i, j \in DOMAIN set : RefOf(set[i]) = RefOf(set[j]) => i = j}

-----------------------------------------------------------------------------
(* One namespace, a route and a Gateway that both reach into it. *)
MCShared ==
  {<<g>> \o set :
     g \in {Gateway("v1", "apps", "gw", "", <<Listener(TLS(Absent, <<Ref("", "Secret", "store", "tls")>>))>>)},
     set \in Around({Route("apps", <<Ref("", "Service", "store", "cart")>>)},
                    {Object("Secret", "v1", "store", "tls"), Object("Service", "v1", "store", "other"),
                     Grant("v1", "store", "one", {From("HTTPRoute", "apps")},
                           {To("Service", "cart"), To("Secret", Absent)}),
                     Grant("v1", "store", "two", {From("Gateway", "apps")}, {To("Service", Absent)}),
                     Grant("v1", "store", "three", {From("Gateway", "apps")}, {To("Secret", Absent)})}, 3)}

MCReferenceSets == MCBackends \cup MCSecrets \cup MCShared

(* A Gateway rendered without metadata.namespace. *)
MCUnplaced ==
  Around({Gateway("v1", ns, "gw", "", listeners) : ns \in {"", "apps", "store"}, listeners \in Listeners},
         {Object("Secret", "v1", "store", "tls"), Object("Secret", "v1", "", "tls")} \cup CertificateGrants, 3)

=============================================================================
