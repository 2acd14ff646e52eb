---------------------------- MODULE Certificates ----------------------------
(***************************************************************************)
(* pkg/gatewayapi's certificate.go, gateway.go and gatewaylistener.go: the *)
(* TLS side of a listener, and the Secrets a certificateRef can resolve    *)
(* to.                                                                     *)
(*                                                                         *)
(* A listener has  tls: Absent or [mode, certificateRefs: Seq([group,      *)
(* kind, ns, name]), options: BOOLEAN], options saying whether any is set; *)
(* a cert-manager Certificate has  group  and  secretName, Absent when     *)
(* spec.secretName is missing or no string.                                *)
(***************************************************************************)
EXTENDS GatewayAPI

(* Mutant: a type switch that lists the v1 type alone. *)
IsGatewayV1(o) == o.type = "Gateway" /\ o.version = "v1"

(* AsGateway, unlike OwnsListeners, takes both served versions. *)
IsGateway(o) == o.type = "Gateway" /\ o.version \in {"v1", "v1beta1"}

IsListenerSet(o) == o.type = "ListenerSet" /\ o.version = "v1"

(* Mutant: the default is for an omitted mode only. *)
TLSModeAsWritten(l) == IF l.tls = Absent THEN "Terminate" ELSE Default(l.tls.mode, "Terminate")

(* An omitted or empty mode is Terminate. *)
TLSMode(l) ==
  IF l.tls = Absent THEN "Terminate"
  ELSE IF l.tls.mode \in {Absent, ""} THEN "Terminate" ELSE l.tls.mode

(* The certificateRefs of a listener that terminates TLS.  An empty mode is not
   Terminate here. *)
CertificateRefsOf(l) ==
  IF l.tls = Absent THEN {}
  ELSE IF l.tls.mode \in {Absent, "Terminate"} THEN DOMAIN l.tls.certificateRefs ELSE {}

(* As positions <<listener, certificateRef>> on the object. *)
TerminatingCertificateRefs(o) ==
  IF IsGateway(o) \/ IsListenerSet(o)
  THEN UNION {{<<j, c>> : c \in CertificateRefsOf(o.listeners[j])} : j \in DOMAIN o.listeners}
  ELSE {}

CertificateRefAt(o, p) ==
  LET ref == o.listeners[p[1]].tls.certificateRefs[p[2]] IN
  [group |-> Default(ref.group, ""),
   kind  |-> Default(ref.kind, "Secret"),
   ns    |-> Default(ref.ns, o.ns),
   name  |-> ref.name]

ResolvableCertificateKind(group, kind) == group = "" /\ kind = "Secret"

(* A Certificate of any version; other groups have a kind of that name too. *)
WillPopulateSecret(o) ==
  /\ o.type = "Certificate" /\ o.group = "cert-manager.io"
  /\ o.secretName \notin {Absent, ""}

CertificateSecrets(objs) ==
  {RefOf(objs[i]) : i \in {j \in DOMAIN objs : objs[j].type = "Secret"}}
  \cup {ObjectRef("Secret", objs[i].ns, objs[i].secretName) :
          i \in {j \in DOMAIN objs : WillPopulateSecret(objs[j])}}

=============================================================================
