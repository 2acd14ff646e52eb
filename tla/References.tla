----------------------------- MODULE References -----------------------------
(***************************************************************************)
(* Tier 2, reference integrity: the six checks that resolve what a route,  *)
(* Gateway or ListenerSet names (a backend, a certificate, a class, a      *)
(* parent) and look for the ReferenceGrants that cross-namespace names     *)
(* need, run by the engine.  (The seventh, dangling-policy-target, is in   *)
(* Policies.)                                                              *)
(*                                                                         *)
(* A route has  backendRefs: Seq([group, kind, ns, name]), before          *)
(* defaults; a Gateway has  className;  a ReferenceGrant has  from: a set  *)
(* of [group, kind, ns]  and  to: a set of [group, kind, name].            *)
(*                                                                         *)
(* A finding is <<check, object, what>>: the backendRef, the position of   *)
(* the certificateRef, or 1 for the one class or parent an object names.   *)
(***************************************************************************)
EXTENDS Engine, Certificates, PolicyCoverage

(* The Go types of a Gateway and a GatewayClass exist in two versions, that of a
   ReferenceGrant in three; an object of another does not decode. *)
ASSUME ServedAssumption ==
  \A set \in ManifestSets : \A i \in DOMAIN set :
    /\ set[i].type \in {"Gateway", "GatewayClass"} => set[i].version \in {"v1", "v1beta1"}
    /\ set[i].type = "ReferenceGrant" => set[i].version \in {"v1", "v1beta1", "v1alpha2"}

(* What a ReferenceGrant lists are records of these fields. *)
ASSUME GrantAssumption ==
  \A set \in ManifestSets : \A i \in DOMAIN set :
    set[i].type = "ReferenceGrant" =>
      /\ \A f \in set[i].from : f = [group |-> f.group, kind |-> f.kind, ns |-> f.ns]
      /\ \A t \in set[i].to : t = [group |-> t.group, kind |-> t.kind, name |-> t.name]

ReferenceChecks ==
  <<"dangling-backend-ref", "dangling-certificate-ref", "dangling-gateway-class",
    "dangling-listener-set-parent", "missing-certificate-grant", "missing-reference-grant">>

-----------------------------------------------------------------------------
(* Backends.  A route's backendRefs with defaults applied. *)

BackendRefAt(route, b) ==
  LET ref == route.backendRefs[b] IN
  [group |-> Default(ref.group, ""),
   kind  |-> Default(ref.kind, "Service"),
   ns    |-> Default(ref.ns, route.ns),
   name  |-> ref.name]

BackendTargets(objs) ==
  {RefOf(objs[i]) : i \in {j \in DOMAIN objs : objs[j].type \in {"Service", "Backend"}}}

ResolvableBackendKind(group, kind) ==
  <<group, kind>> \in {<<"", "Service">>, <<EnvoyGroup, "Backend">>}

(* Mutant: any object of the kind, anywhere, makes the reference judged. *)
DanglingBackendRefsAnywhere(objs, k) ==
  LET known == BackendTargets(objs) IN
  IF ~IsRoute(objs[k]) THEN {}
  ELSE {b \in DOMAIN objs[k].backendRefs :
          LET ref == BackendRefAt(objs[k], b) IN
          /\ ResolvableBackendKind(ref.group, ref.kind)
          /\ \E other \in known : other.kind = ref.kind
          /\ ObjectRef(ref.kind, ref.ns, ref.name) \notin known}

DanglingBackendRefs(objs, k) ==
  LET known == BackendTargets(objs)
      described(kind, ns) == \E ref \in known : ref.kind = kind /\ ref.ns = ns
  IN
  IF ~IsRoute(objs[k]) THEN {}
  ELSE {b \in DOMAIN objs[k].backendRefs :
          LET ref == BackendRefAt(objs[k], b) IN
          /\ ResolvableBackendKind(ref.group, ref.kind)
          /\ described(ref.kind, ref.ns)
          /\ ObjectRef(ref.kind, ref.ns, ref.name) \notin known}

-----------------------------------------------------------------------------
(* Certificates, classes and parents. *)

DanglingCertificateRefs(objs, k) ==
  LET known == CertificateSecrets(objs) IN
  {p \in TerminatingCertificateRefs(objs[k]) :
     LET ref == CertificateRefAt(objs[k], p) IN
     /\ ResolvableCertificateKind(ref.group, ref.kind)
     /\ \E secret \in known : secret.ns = ref.ns
     /\ ObjectRef(ref.kind, ref.ns, ref.name) \notin known}

GatewayClasses(objs) ==
  {objs[i].name : i \in {j \in DOMAIN objs :
     objs[j].type = "GatewayClass" /\ objs[j].version \in {"v1", "v1beta1"}}}

DanglingGatewayClass(objs, k) ==
  LET classes == GatewayClasses(objs) IN
  IF IsGateway(objs[k])
     /\ objs[k].className # "" /\ classes # {} /\ objs[k].className \notin classes
  THEN {1} ELSE {}

Gateways(objs) == {RefOf(objs[i]) : i \in {j \in DOMAIN objs : IsGateway(objs[j])}}

DanglingListenerSetParent(objs, k) ==
  IF /\ IsListenerSet(objs[k])
     /\ objs[k].parent.group \in {Absent, GroupName}
     /\ objs[k].parent.kind \in {Absent, "Gateway"}
     /\ objs[k].parent.name # ""
     /\ LET parent == ListenerSetParent(objs[k]) IN
        /\ \E gateway \in Gateways(objs) : gateway.ns = parent.ns
        /\ parent \notin Gateways(objs)
  THEN {1} ELSE {}

-----------------------------------------------------------------------------
(* ReferenceGrants.  Both checks have an index, with a type switch over the
   versions, and a matcher of their own. *)

GrantsByNamespace(objs, ns) ==
  {i \in DOMAIN objs :
     /\ objs[i].type = "ReferenceGrant" /\ objs[i].version \in {"v1", "v1beta1", "v1alpha2"}
     /\ objs[i].ns = ns}

MatchesFrom(grant, kind, ns) ==
  \E f \in grant.from : f.group = GroupName /\ f.kind = kind /\ f.ns = ns

MatchesTo(grant, ref) ==
  \E t \in grant.to : t.group = ref.group /\ t.kind = ref.kind /\ t.name \in {Absent, ref.name}

(* Mutant: one grant may match the from side and another the to side. *)
PermitsAcross(objs, grants, route, ref) ==
  /\ \E g \in grants : MatchesFrom(objs[g], route.type, route.ns)
  /\ \E g \in grants : MatchesTo(objs[g], ref)

Permits(objs, grants, route, ref) ==
  \E g \in grants : MatchesFrom(objs[g], route.type, route.ns) /\ MatchesTo(objs[g], ref)

MissingReferenceGrants(objs, k) ==
  IF ~IsRoute(objs[k]) \/ objs[k].ns = "" THEN {}
  ELSE {b \in DOMAIN objs[k].backendRefs :
          LET ref == BackendRefAt(objs[k], b)
              grants == GrantsByNamespace(objs, ref.ns)
          IN
          /\ ref.ns # objs[k].ns
          /\ grants # {}
          /\ ~Permits(objs, grants, objs[k], ref)}

(* Mutant: the type switch lacks the oldest version. *)
IsReferenceGrantSinceBeta(o) == o.type = "ReferenceGrant" /\ o.version \in {"v1", "v1beta1"}

IsReferenceGrant(o) ==
  o.type = "ReferenceGrant" /\ o.version \in {"v1", "v1beta1", "v1alpha2"}

(* Mutant: a ListenerSet needs the grant of its Gateway. *)
GrantAllowsFromGateway(grant, owner) ==
  \E f \in grant.from : f.group = GroupName /\ f.kind = "Gateway" /\ f.ns = owner.ns

GrantAllowsFrom(grant, owner) ==
  \E f \in grant.from : f.group = GroupName /\ f.kind = owner.type /\ f.ns = owner.ns

GrantAllowsTo(grant, ref) ==
  \E t \in grant.to : t.group = ref.group /\ t.kind = ref.kind /\ t.name \in {Absent, ref.name}

Permitted(objs, owner, ref) ==
  \E g \in DOMAIN objs :
    /\ IsReferenceGrant(objs[g]) /\ objs[g].ns = ref.ns
    /\ GrantAllowsFrom(objs[g], owner) /\ GrantAllowsTo(objs[g], ref)

(* A namespace with a Secret or a grant of its own. *)
DescribedNamespaces(objs) ==
  {secret.ns : secret \in CertificateSecrets(objs)}
  \cup {objs[i].ns : i \in {j \in DOMAIN objs : IsReferenceGrant(objs[j])}}

MissingCertificateGrants(objs, k) ==
  {p \in TerminatingCertificateRefs(objs[k]) :
     LET ref == CertificateRefAt(objs[k], p) IN
     /\ ref.ns # objs[k].ns
     /\ ref.ns \in DescribedNamespaces(objs)
     /\ ~Permitted(objs, objs[k], ref)}

-----------------------------------------------------------------------------
JudgeReference(check, reported) == Judge(check, TRUE, reported)

JudgeBackendRefs ==
  JudgeReference("dangling-backend-ref", DanglingBackendRefs(objects, at[1]))

JudgeCertificateRefs ==
  JudgeReference("dangling-certificate-ref", DanglingCertificateRefs(objects, at[1]))

JudgeGatewayClass ==
  JudgeReference("dangling-gateway-class", DanglingGatewayClass(objects, at[1]))

JudgeListenerSetParent ==
  JudgeReference("dangling-listener-set-parent", DanglingListenerSetParent(objects, at[1]))

JudgeCertificateGrants ==
  JudgeReference("missing-certificate-grant", MissingCertificateGrants(objects, at[1]))

JudgeReferenceGrants ==
  JudgeReference("missing-reference-grant", MissingReferenceGrants(objects, at[1]))

Next ==
  \/ Load
  \/ JudgeBackendRefs \/ JudgeCertificateRefs \/ JudgeGatewayClass
  \/ JudgeListenerSetParent \/ JudgeCertificateGrants \/ JudgeReferenceGrants
  \/ Finish

Spec == Init /\ [][Next]_vars

-----------------------------------------------------------------------------
(* What a finding is about: the object that the judged one names. *)
Target(objs, check, k, x) ==
  CASE check \in {"dangling-backend-ref", "missing-reference-grant"} -> BackendRefAt(objs[k], x)
    [] check \in {"dangling-certificate-ref", "missing-certificate-grant"} ->
         CertificateRefAt(objs[k], x)
    [] check = "dangling-gateway-class" ->
         [group |-> GroupName, kind |-> "GatewayClass", ns |-> "", name |-> objs[k].className]
    [] OTHER ->
         [group |-> GroupName, kind |-> "Gateway", ns |-> ListenerSetParent(objs[k]).ns,
          name |-> objs[k].parent.name]

GrantChecks == {"missing-reference-grant", "missing-certificate-grant"}

DanglingChecks ==
  {"dangling-backend-ref", "dangling-certificate-ref", "dangling-gateway-class",
   "dangling-listener-set-parent"}

(* The object is there, or some other will create it. *)
Provides(o, target) ==
  \/ RefOf(o) = ObjectRef(target.kind, target.ns, target.name)
  \/ /\ target.kind = "Secret" /\ WillPopulateSecret(o)
     /\ o.ns = target.ns /\ o.secretName = target.name

(* certificate.go "treating the certificateRef as dangling there would be
   gwlint's mistake", and of every dangling-* check: what is called missing is
   nowhere in the set, in whatever version it is written, and nothing in the set
   will create it. *)
DanglingIsAbsent ==
  \A f \in findings :
    f[1] \in DanglingChecks =>
      \A i \in DOMAIN objects : ~Provides(objects[i], Target(objects, f[1], f[2], f[3]))

(* The grants of a namespace, in whatever version they are written. *)
GrantsIn(ns) == {g \in DOMAIN objects : objects[g].type = "ReferenceGrant" /\ objects[g].ns = ns}

(* Gateway API's rule for a reference across namespaces: one single grant, next
   to the target, names where it comes from and what it may reach. *)
Granted(k, target) ==
  \E g \in GrantsIn(target.ns) :
    /\ [group |-> GroupName, kind |-> objects[k].type, ns |-> objects[k].ns] \in objects[g].from
    /\ \E name \in {Absent, target.name} :
         [group |-> target.group, kind |-> target.kind, name |-> name] \in objects[g].to

(* The references the grant checks judge, as <<check, object, what>>. *)
CrossReferences ==
  LET certificateRefs(k) ==
        {<<"missing-certificate-grant", k, x>> : x \in TerminatingCertificateRefs(objects[k])}
      backendRefs(k) == {<<"missing-reference-grant", k, x>> : x \in DOMAIN objects[k].backendRefs}
  IN
  {f \in (UNION {certificateRefs(k) : k \in DOMAIN objects})
          \cup UNION {backendRefs(k) : k \in RoutesIn(objects)} :
     Target(objects, f[1], f[2], f[3]).ns # objects[f[2]].ns}

(* The two grant checks collect grants, by version, and match them with code of
   their own, and must follow the one rule: a reference they report is not granted,
   and one that is not granted is reported, if the check is enabled, as soon as its
   namespace has a grant to compare it with (and the route's own namespace is
   known). *)
GrantVerdictExact ==
  phase = "done" =>
    \A f \in CrossReferences :
      LET target == Target(objects, f[1], f[2], f[3]) IN
      /\ f \in findings => ~Granted(f[2], target)
      /\ /\ ~Granted(f[2], target)
         /\ f[1] \in Enabled
         /\ objects[f[2]].ns # ""
         /\ GrantsIn(target.ns) # {}
         => f \in findings

(* What the checks report of a manifest set, by object and target namespace. *)
Reports(check, objs, k) ==
  CASE check = "dangling-backend-ref" -> DanglingBackendRefs(objs, k)
    [] check = "dangling-certificate-ref" -> DanglingCertificateRefs(objs, k)
    [] check = "dangling-gateway-class" -> DanglingGatewayClass(objs, k)
    [] check = "dangling-listener-set-parent" -> DanglingListenerSetParent(objs, k)
    [] check = "missing-certificate-grant" -> MissingCertificateGrants(objs, k)
    [] check = "missing-reference-grant" -> MissingReferenceGrants(objs, k)

ReportsInto(objs, k, ns) ==
  UNION {{<<check, x>> : x \in {y \in Reports(check, objs, k) : Target(objs, check, k, y).ns = ns}} :
           check \in Enabled \cap (DanglingChecks \cup GrantChecks)}

(* A GatewayClass is cluster-scoped: it is in no namespace, whatever its manifest
   says. *)
LivesIn(o, ns) == IF o.type = "GatewayClass" THEN ns = "" ELSE o.ns = ns

(* danglingbackendref "Judge a reference only into a namespace the manifest set
   actually describes": what is said of a reference depends on nothing but the
   object that makes it and the objects of the namespace it leads into; whatever
   else is linted along with them changes no verdict.  The checks ask only which
   objects there are, so the set without the others keeps its positions. *)
VerdictIsLocal ==
  phase = "done" =>
    \A k \in DOMAIN objects :
      \A ns \in {objects[i].ns : i \in DOMAIN objects} \cup {""} :
        LET near == {i \in DOMAIN objects : i = k \/ LivesIn(objects[i], ns)} IN
        ReportsInto([i \in near |-> objects[i]], k, ns) =
          {<<f[1], f[3]>> : f \in {g \in findings :
             g[2] = k /\ Target(objects, g[1], k, g[3]).ns = ns}}

(* The object whose absence a finding complains about. *)
Repair(check, k, target) ==
  CASE check \in GrantChecks ->
         [type |-> "ReferenceGrant", version |-> "v1", ns |-> target.ns, name |-> "added",
          from |-> {[group |-> GroupName, kind |-> objects[k].type, ns |-> objects[k].ns]},
          to |-> {[group |-> target.group, kind |-> target.kind, name |-> target.name]}]
    [] check = "dangling-listener-set-parent" ->
         [type |-> "Gateway", version |-> "v1", ns |-> target.ns, name |-> target.name,
          className |-> "", listeners |-> <<>>]
    [] OTHER ->
         [type |-> target.kind, version |-> "v1", ns |-> target.ns, name |-> target.name]

(* What a check says of the set with an object added that it did not say before. *)
News(check, repaired, k) ==
  Reports(check, repaired, k) \ (IF k \in DOMAIN objects THEN Reports(check, objects, k) ELSE {})

(* Doing what a finding asks for settles it: with the object it misses added to
   the set the finding is gone, and no check has anything new to say; a guard that
   takes the added object for the first to describe something would send its
   reader from one finding to the next.  There is one such step, and it is the
   only one: the grant a listener lacks can be the first of its namespace, and
   then the backendRefs into that namespace, which missingreferencegrant had left
   alone, are judged too. *)
RepairSettles ==
  \A f \in findings :
    LET check == f[1]
        target == Target(objects, check, f[2], f[3])
        repaired == Append(objects, Repair(check, f[2], target))
    IN
    /\ f[3] \notin Reports(check, repaired, f[2])
    /\ \A other \in DanglingChecks \cup GrantChecks, k \in DOMAIN repaired :
         \A x \in News(other, repaired, k) :
           /\ check = "missing-certificate-grant" /\ other = "missing-reference-grant"
           /\ GrantsIn(target.ns) = {}
           /\ Target(repaired, other, k, x).ns = target.ns

-----------------------------------------------------------------------------
(* What a comment of the code says and the code does not do. *)

(* missingcertificategrant "A reference within the listener's own namespace needs
   no grant", where missingreferencegrant has "Rendered manifests very often omit
   metadata.namespace": no certificateRef is reported that is within the
   namespace its owner is, or may yet be, applied in. *)
LocalCertificateNeedsNoGrant ==
  \A f \in findings :
    f[1] = "missing-certificate-grant" =>
      objects[f[2]].ns \notin {"", Target(objects, f[1], f[2], f[3]).ns}

=============================================================================
