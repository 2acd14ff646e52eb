-------------------------- MODULE ReferencesProofs --------------------------
(***************************************************************************)
(* What the reference checks report is right for every manifest set and    *)
(* every choice of enabled checks: safety of References, for all values of *)
(* its constants.                                                          *)
(***************************************************************************)
EXTENDS References, EngineProofs, SequenceTheorems

Names == DanglingChecks \cup GrantChecks

(* Everything the check functions return of the loaded set. *)
Due ==
  UNION {UNION {{<<check, k, x>> : x \in Reports(check, objects, k)} : k \in DOMAIN objects} :
           check \in Names}

(* Inductive: what has been recorded is exactly what is due so far. *)
IInv == LoopInv /\ findings = DueSoFar(Due)

-----------------------------------------------------------------------------
LEMMA DueIff ==
  /\ \A check, k, x :
       <<check, k, x>> \in Due <=>
         check \in Names /\ k \in DOMAIN objects /\ x \in Reports(check, objects, k)
  /\ \A f \in Due : f = <<f[1], f[2], f[3]>> /\ f[2] \in DOMAIN objects
  BY DEF Due

LEMMA JudgePreserves ==
  ASSUME IInv, NEW check \in Names, JudgeReference(check, Reports(check, objects, at[1]))
  PROVE  IInv'
<1> DEFINE refs == Reports(check, objects, at[1])
<1>1. Judge(check, TRUE, refs) /\ at[1] \in DOMAIN objects /\ objects' = objects
  BY DEF JudgeReference, Judge
<1>2. \A x : <<check, at[1], x>> \in Due <=> x \in refs
  BY <1>1, DueIff
<1>3. LoopInv /\ findings = DueSoFar(Due)
  BY DEF IInv
<1> HIDE DEF refs
<1>4. findings' = {f \in Due : Called(f[1], f[2])'}
  BY <1>1, <1>2, <1>3, DueIff, JudgeRecords
<1>5. Due' = Due
  BY <1>1 DEF Due
<1>6. DueSoFar(Due)' = {f \in Due' : Called(f[1], f[2])'}
  BY DEF DueSoFar
<1>7. LoopInv'
  BY <1>1, <1>3, JudgeLoop
<1> QED BY <1>4, <1>5, <1>6, <1>7 DEF IInv

LEMMA LoadPreserves == ASSUME IInv, Load PROVE IInv'
<1>1. LoopInv /\ LoopInv'
  BY LoadLoop DEF IInv
<1>2. \A f \in Due' : f[2] \in DOMAIN objects'
  BY DEF Due
<1>3. findings' = {f \in Due' : Called(f[1], f[2])'}
  BY <1>1, <1>2, LoadRecords
<1>4. DueSoFar(Due)' = {f \in Due' : Called(f[1], f[2])'}
  BY DEF DueSoFar
<1> QED BY <1>1, <1>3, <1>4 DEF IInv

LEMMA Invariance == Spec => []IInv
<1>1. Init => IInv
  <2> SUFFICES ASSUME Init PROVE IInv
    OBVIOUS
  <2>1. LoopInv
    BY InitLoop
  <2>2. Due = {} /\ findings = {}
    BY DEF Init, Due
  <2> QED BY <2>1, <2>2 DEF IInv, DueSoFar
<1>2. IInv /\ [Next]_vars => IInv'
  <2> SUFFICES ASSUME IInv, [Next]_vars PROVE IInv'
    OBVIOUS
  <2>1. CASE Load
    BY <2>1, LoadPreserves
  <2>2. ASSUME NEW check \in Names, JudgeReference(check, Reports(check, objects, at[1]))
        PROVE  IInv'
    BY <2>2, JudgePreserves
  <2>3. CASE JudgeBackendRefs
    BY <2>2, <2>3 DEF JudgeBackendRefs, Reports, Names, DanglingChecks
  <2>4. CASE JudgeCertificateRefs
    BY <2>2, <2>4 DEF JudgeCertificateRefs, Reports, Names, DanglingChecks
  <2>5. CASE JudgeGatewayClass
    BY <2>2, <2>5 DEF JudgeGatewayClass, Reports, Names, DanglingChecks
  <2>6. CASE JudgeListenerSetParent
    BY <2>2, <2>6 DEF JudgeListenerSetParent, Reports, Names, DanglingChecks
  <2>7. CASE JudgeCertificateGrants
    BY <2>2, <2>7 DEF JudgeCertificateGrants, Reports, Names, GrantChecks
  <2>8. CASE JudgeReferenceGrants
    BY <2>2, <2>8 DEF JudgeReferenceGrants, Reports, Names, GrantChecks
  <2>9. CASE Finish
    <3>1. LoopInv'
      BY <2>9, FinishLoop DEF IInv
    <3> QED BY <2>9, <3>1 DEF Finish, IInv, DueSoFar, Due, Called
  <2>10. CASE UNCHANGED vars
    <3>1. LoopInv'
      BY <2>10, StutterLoop DEF IInv
    <3> QED BY <2>10, <3>1 DEF vars, IInv, DueSoFar, Due, Called
  <2> QED
    BY <2>1, <2>3, <2>4, <2>5, <2>6, <2>7, <2>8, <2>9, <2>10 DEF Next
<1> QED BY <1>1, <1>2, PTL DEF Spec

(* A finished run has reported exactly what the enabled check functions return of
   every object: the loop of kube-linter's run.Run misses none and repeats none. *)
LEMMA FinishedRun ==
  ASSUME IInv, phase = "done"
  PROVE  \A f \in Due : f[1] \in Enabled => f \in findings
<1> SUFFICES ASSUME NEW f \in Due, f[1] \in Enabled PROVE f \in findings
  OBVIOUS
<1>1. f[2] \in DOMAIN objects
  BY DueIff
<1>2. PICK c \in DOMAIN Checks : Checks[c] = f[1]
  BY DEF Enabled
<1>3. Called(f[1], f[2])
  BY <1>1, <1>2, AllCalled DEF IInv
<1> QED BY <1>3 DEF IInv, DueSoFar

LEMMA FindingIsDue ==
  ASSUME IInv, NEW f \in findings
  PROVE  /\ f \in Due /\ f = <<f[1], f[2], f[3]>>
         /\ f[1] \in Names /\ f[2] \in DOMAIN objects
         /\ f[3] \in Reports(f[1], objects, f[2])
         /\ objects \in ManifestSets
<1>1. f \in Due
  BY DEF IInv, DueSoFar
<1>2. f = <<f[1], f[2], f[3]>> /\ f[2] \in DOMAIN objects
  BY <1>1, DueIff
<1>3. f[1] \in Names /\ f[3] \in Reports(f[1], objects, f[2])
  BY <1>1, <1>2, DueIff
<1>4. phase # "load"
  BY <1>1, <1>2 DEF IInv, LoopInv, TypeOK
<1> QED BY <1>1, <1>2, <1>3, <1>4 DEF IInv, LoopInv

-----------------------------------------------------------------------------
(* What each dangling-* check calls missing is nowhere in the set. *)

LEMMA BackendAbsent ==
  ASSUME NEW objs, NEW k, NEW b \in DanglingBackendRefs(objs, k), NEW i \in DOMAIN objs
  PROVE  ~Provides(objs[i], BackendRefAt(objs[k], b))
<1> DEFINE ref == BackendRefAt(objs[k], b)
<1>1. /\ ResolvableBackendKind(ref.group, ref.kind)
      /\ ObjectRef(ref.kind, ref.ns, ref.name) \notin BackendTargets(objs)
  BY DEF DanglingBackendRefs
<1> HIDE DEF ref
<1>2. ref.kind \in {"Service", "Backend"}
  BY <1>1 DEF ResolvableBackendKind
<1>3. objs[i].type \in {"Service", "Backend"} => RefOf(objs[i]) \in BackendTargets(objs)
  BY DEF BackendTargets
<1>4. RefOf(objs[i]) = ObjectRef(ref.kind, ref.ns, ref.name) => objs[i].type = ref.kind
  BY DEF RefOf, ObjectRef
<1>5. ~Provides(objs[i], ref)
  BY <1>1, <1>2, <1>3, <1>4 DEF Provides
<1> QED BY <1>5 DEF ref

LEMMA CertificateAbsent ==
  ASSUME NEW objs, NEW k, NEW p \in DanglingCertificateRefs(objs, k), NEW i \in DOMAIN objs
  PROVE  ~Provides(objs[i], CertificateRefAt(objs[k], p))
<1> DEFINE ref == CertificateRefAt(objs[k], p)
<1>1. /\ ref.kind = "Secret"
      /\ ObjectRef("Secret", ref.ns, ref.name) \notin CertificateSecrets(objs)
  BY DEF DanglingCertificateRefs, ResolvableCertificateKind
<1> HIDE DEF ref
<1>2. objs[i].type = "Secret" => RefOf(objs[i]) \in CertificateSecrets(objs)
  BY DEF CertificateSecrets
<1>3. WillPopulateSecret(objs[i]) =>
        ObjectRef("Secret", objs[i].ns, objs[i].secretName) \in CertificateSecrets(objs)
  BY DEF CertificateSecrets
<1>4. RefOf(objs[i]) = ObjectRef("Secret", ref.ns, ref.name) => objs[i].type = "Secret"
  BY DEF RefOf, ObjectRef
<1>5. ~Provides(objs[i], ref)
  BY <1>1, <1>2, <1>3, <1>4 DEF Provides
<1> QED BY <1>5 DEF ref

LEMMA ClassAbsent ==
  ASSUME NEW objs \in ManifestSets, NEW k, NEW x \in DanglingGatewayClass(objs, k),
         NEW i \in DOMAIN objs
  PROVE  ~Provides(objs[i], Target(objs, "dangling-gateway-class", k, x))
<1> DEFINE target == [group |-> GroupName, kind |-> "GatewayClass", ns |-> "",
                      name |-> objs[k].className]
<1>1. Target(objs, "dangling-gateway-class", k, x) = target
  BY DEF Target
<1>2. objs[k].className \notin GatewayClasses(objs)
  BY DEF DanglingGatewayClass
<1>3. objs[i].type = "GatewayClass" => objs[i].name \in GatewayClasses(objs)
  BY ServedAssumption DEF GatewayClasses
<1>4. RefOf(objs[i]) = ObjectRef("GatewayClass", "", objs[k].className) =>
        objs[i].type = "GatewayClass" /\ objs[i].name = objs[k].className
  BY DEF RefOf, ObjectRef
<1>5. target.kind = "GatewayClass" /\ target.ns = "" /\ target.name = objs[k].className
  OBVIOUS
<1> HIDE DEF target
<1> QED BY <1>1, <1>2, <1>3, <1>4, <1>5 DEF Provides

LEMMA ParentAbsent ==
  ASSUME NEW objs \in ManifestSets, NEW k, NEW x \in DanglingListenerSetParent(objs, k),
         NEW i \in DOMAIN objs
  PROVE  ~Provides(objs[i], Target(objs, "dangling-listener-set-parent", k, x))
<1> DEFINE parent == ListenerSetParent(objs[k])
           target == [group |-> GroupName, kind |-> "Gateway", ns |-> parent.ns,
                      name |-> objs[k].parent.name]
<1>1. Target(objs, "dangling-listener-set-parent", k, x) = target
  BY DEF Target
<1>2. parent \notin Gateways(objs)
  BY DEF DanglingListenerSetParent
<1>3. objs[i].type = "Gateway" => RefOf(objs[i]) \in Gateways(objs)
  BY ServedAssumption DEF Gateways, IsGateway
<1>4. ObjectRef(target.kind, target.ns, target.name) = parent
  BY DEF ListenerSetParent, ObjectRef
<1>5. RefOf(objs[i]) = parent => objs[i].type = "Gateway"
  BY DEF RefOf, ListenerSetParent, ObjectRef
<1>6. target.kind = "Gateway"
  OBVIOUS
<1> HIDE DEF target, parent
<1> QED BY <1>1, <1>2, <1>3, <1>4, <1>5, <1>6 DEF Provides

(* What a dangling-* check calls missing is nowhere in the manifest set, in
   whatever version it is written, and nothing in the set will create it. *)
THEOREM MissingIsAbsent == Spec => []DanglingIsAbsent
<1>1. IInv => DanglingIsAbsent
  <2> SUFFICES ASSUME IInv, NEW f \in findings, f[1] \in DanglingChecks, NEW i \in DOMAIN objects
               PROVE  ~Provides(objects[i], Target(objects, f[1], f[2], f[3]))
    BY DEF DanglingIsAbsent
  <2> DEFINE k == f[2]
             x == f[3]
  <2>1. x \in Reports(f[1], objects, k) /\ objects \in ManifestSets
    BY FindingIsDue
  <2> HIDE DEF k, x
  <2>2. CASE f[1] = "dangling-backend-ref"
    <3>1. x \in DanglingBackendRefs(objects, k)
      BY <2>1, <2>2 DEF Reports
    <3>2. Target(objects, f[1], k, x) = BackendRefAt(objects[k], x)
      BY <2>2 DEF Target
    <3> QED BY <3>1, <3>2, BackendAbsent DEF k, x
  <2>3. CASE f[1] = "dangling-certificate-ref"
    <3>1. x \in DanglingCertificateRefs(objects, k)
      BY <2>1, <2>3 DEF Reports
    <3>2. Target(objects, f[1], k, x) = CertificateRefAt(objects[k], x)
      BY <2>3 DEF Target
    <3> QED BY <3>1, <3>2, CertificateAbsent DEF k, x
  <2>4. CASE f[1] = "dangling-gateway-class"
    <3>1. x \in DanglingGatewayClass(objects, k)
      BY <2>1, <2>4 DEF Reports
    <3> QED BY <2>1, <2>4, <3>1, ClassAbsent DEF k, x
  <2>5. CASE f[1] = "dangling-listener-set-parent"
    <3>1. x \in DanglingListenerSetParent(objects, k)
      BY <2>1, <2>5 DEF Reports
    <3> QED BY <2>1, <2>5, <3>1, ParentAbsent DEF k, x
  <2> QED BY <2>2, <2>3, <2>4, <2>5 DEF DanglingChecks
<1> QED BY <1>1, Invariance, PTL

-----------------------------------------------------------------------------
(* The two matchers follow the one rule. *)

LEMMA FromIsMember ==
  ASSUME NEW grant, NEW kind, NEW ns,
         \A f \in grant.from : f = [group |-> f.group, kind |-> f.kind, ns |-> f.ns]
  PROVE  [group |-> GroupName, kind |-> kind, ns |-> ns] \in grant.from <=>
           \E f \in grant.from : f.group = GroupName /\ f.kind = kind /\ f.ns = ns
  OBVIOUS

LEMMA ToIsMember ==
  ASSUME NEW grant, NEW ref,
         \A t \in grant.to : t = [group |-> t.group, kind |-> t.kind, name |-> t.name]
  PROVE  (\E name \in {Absent, ref.name} :
            [group |-> ref.group, kind |-> ref.kind, name |-> name] \in grant.to) <=>
           \E t \in grant.to :
             t.group = ref.group /\ t.kind = ref.kind /\ t.name \in {Absent, ref.name}
  OBVIOUS

(* The index of missing-reference-grant has every grant, in each version. *)
LEMMA GrantsIndexed ==
  ASSUME objects \in ManifestSets, NEW ns
  PROVE  GrantsByNamespace(objects, ns) = GrantsIn(ns)
  BY ServedAssumption DEF GrantsByNamespace, GrantsIn

LEMMA MatchersAgree ==
  ASSUME objects \in ManifestSets, NEW k \in DOMAIN objects, NEW ref
  PROVE  /\ Granted(k, ref) <=> Permitted(objects, objects[k], ref)
         /\ Granted(k, ref) <=>
              Permits(objects, GrantsByNamespace(objects, ref.ns), objects[k], ref)
<1>1. \A g \in GrantsIn(ref.ns) :
        /\ \A f \in objects[g].from : f = [group |-> f.group, kind |-> f.kind, ns |-> f.ns]
        /\ \A t \in objects[g].to : t = [group |-> t.group, kind |-> t.kind, name |-> t.name]
  BY GrantAssumption DEF GrantsIn
<1> DEFINE From(g) == [group |-> GroupName, kind |-> objects[k].type, ns |-> objects[k].ns]
                        \in objects[g].from
           To(g) == \E name \in {Absent, ref.name} :
                      [group |-> ref.group, kind |-> ref.kind, name |-> name] \in objects[g].to
<1>2. ASSUME NEW g \in GrantsIn(ref.ns)
      PROVE  /\ From(g) <=> GrantAllowsFrom(objects[g], objects[k])
             /\ From(g) <=> MatchesFrom(objects[g], objects[k].type, objects[k].ns)
             /\ To(g) <=> GrantAllowsTo(objects[g], ref)
             /\ To(g) <=> MatchesTo(objects[g], ref)
  BY <1>1, FromIsMember, ToIsMember DEF GrantAllowsFrom, MatchesFrom, GrantAllowsTo, MatchesTo
<1>3. Granted(k, ref) <=> \E g \in GrantsIn(ref.ns) : From(g) /\ To(g)
  BY DEF Granted
<1>4. \A g : g \in GrantsIn(ref.ns) <=>
               g \in DOMAIN objects /\ IsReferenceGrant(objects[g]) /\ objects[g].ns = ref.ns
  BY ServedAssumption DEF GrantsIn, IsReferenceGrant
<1> HIDE DEF From, To
<1>5. Permitted(objects, objects[k], ref) <=> \E g \in GrantsIn(ref.ns) : From(g) /\ To(g)
  BY <1>2, <1>4 DEF Permitted
<1>6. Permits(objects, GrantsByNamespace(objects, ref.ns), objects[k], ref) <=>
        \E g \in GrantsIn(ref.ns) : From(g) /\ To(g)
  BY <1>2, GrantsIndexed DEF Permits
<1> QED BY <1>3, <1>5, <1>6

LEMMA CrossReference ==
  ASSUME NEW f \in CrossReferences
  PROVE  /\ Target(objects, f[1], f[2], f[3]).ns # objects[f[2]].ns
         /\ \/ \E n \in DOMAIN objects : \E y \in TerminatingCertificateRefs(objects[n]) :
                 f = <<"missing-certificate-grant", n, y>>
            \/ \E n \in RoutesIn(objects) : \E y \in DOMAIN objects[n].backendRefs :
                 f = <<"missing-reference-grant", n, y>>
<1> DEFINE certificateRefs(k) ==
             {<<"missing-certificate-grant", k, x>> : x \in TerminatingCertificateRefs(objects[k])}
           backendRefs(k) ==
             {<<"missing-reference-grant", k, x>> : x \in DOMAIN objects[k].backendRefs}
<1>1. /\ Target(objects, f[1], f[2], f[3]).ns # objects[f[2]].ns
      /\ \/ f \in UNION {certificateRefs(k) : k \in DOMAIN objects}
         \/ f \in UNION {backendRefs(k) : k \in RoutesIn(objects)}
  BY DEF CrossReferences
<1>2. ASSUME f \in UNION {certificateRefs(k) : k \in DOMAIN objects}
      PROVE  \E n \in DOMAIN objects : \E y \in TerminatingCertificateRefs(objects[n]) :
               f = <<"missing-certificate-grant", n, y>>
  BY <1>2
<1>3. ASSUME f \in UNION {backendRefs(k) : k \in RoutesIn(objects)}
      PROVE  \E n \in RoutesIn(objects) : \E y \in DOMAIN objects[n].backendRefs :
               f = <<"missing-reference-grant", n, y>>
  BY <1>3
<1> HIDE DEF certificateRefs, backendRefs
<1> QED BY <1>1, <1>2, <1>3

(* The two grant checks follow Gateway API's one rule exactly, within the
   namespaces a grant describes. *)
THEOREM GrantsJudgedExactly == Spec => []GrantVerdictExact
<1>1. IInv => GrantVerdictExact
  <2> SUFFICES ASSUME IInv, phase = "done", NEW f \in CrossReferences
               PROVE  LET target == Target(objects, f[1], f[2], f[3]) IN
                      /\ f \in findings => ~Granted(f[2], target)
                      /\ /\ ~Granted(f[2], target)
                         /\ f[1] \in Enabled
                         /\ objects[f[2]].ns # ""
                         /\ GrantsIn(target.ns) # {}
                         => f \in findings
    BY DEF GrantVerdictExact
  <2> DEFINE k == f[2]
             x == f[3]
             target == Target(objects, f[1], k, x)
             described == GrantsIn(target.ns) # {}
  <2>1. objects \in ManifestSets
    BY DEF IInv, LoopInv
  <2>2. /\ f = <<f[1], k, x>> /\ k \in DOMAIN objects /\ target.ns # objects[k].ns
        /\ \/ f[1] = "missing-certificate-grant" /\ x \in TerminatingCertificateRefs(objects[k])
           \/ /\ f[1] = "missing-reference-grant" /\ x \in DOMAIN objects[k].backendRefs
              /\ IsRoute(objects[k])
    BY CrossReference DEF RoutesIn
  <2>3. ASSUME f[1] = "missing-certificate-grant"
        PROVE  x \in MissingCertificateGrants(objects, k) <=>
                 target.ns \in DescribedNamespaces(objects) /\ ~Granted(k, target)
    <3>1. target = CertificateRefAt(objects[k], x)
      BY <2>3 DEF Target
    <3> HIDE DEF target, k, x
    <3> QED BY <2>1, <2>2, <2>3, <3>1, MatchersAgree DEF MissingCertificateGrants
  <2>4. ASSUME f[1] = "missing-reference-grant"
        PROVE  x \in MissingReferenceGrants(objects, k) <=>
                 objects[k].ns # "" /\ described /\ ~Granted(k, target)
    <3>1. target = BackendRefAt(objects[k], x)
      BY <2>4 DEF Target
    <3>2. GrantsByNamespace(objects, target.ns) # {} <=> described
      BY <2>1, GrantsIndexed
    <3> HIDE DEF target, k, x, described
    <3> QED BY <2>1, <2>2, <2>4, <3>1, <3>2, MatchersAgree DEF MissingReferenceGrants
  <2>5. described => target.ns \in DescribedNamespaces(objects)
    BY <2>1, ServedAssumption DEF DescribedNamespaces, GrantsIn, IsReferenceGrant
  <2>6. f[1] \in Names /\ (f \in Due <=> x \in Reports(f[1], objects, k))
    BY <2>2, DueIff DEF Names, GrantChecks
  <2>7. f \in findings => f \in Due
    BY FindingIsDue
  <2>8. f \in Due /\ f[1] \in Enabled => f \in findings
    BY FinishedRun
  <2>9. CASE f[1] = "missing-certificate-grant"
    <3>1. Reports(f[1], objects, k) = MissingCertificateGrants(objects, k)
      BY <2>9 DEF Reports
    <3> HIDE DEF target, k, x, described
    <3>2. /\ f \in findings => ~Granted(k, target)
          /\ ~Granted(k, target) /\ f[1] \in Enabled /\ objects[k].ns # "" /\ described
               => f \in findings
      BY <2>3, <2>5, <2>6, <2>7, <2>8, <2>9, <3>1
    <3> QED BY <3>2 DEF target, k, x, described
  <2>10. CASE f[1] = "missing-reference-grant"
    <3>1. Reports(f[1], objects, k) = MissingReferenceGrants(objects, k)
      BY <2>10 DEF Reports
    <3> HIDE DEF target, k, x, described
    <3>2. /\ f \in findings => ~Granted(k, target)
          /\ ~Granted(k, target) /\ f[1] \in Enabled /\ objects[k].ns # "" /\ described
               => f \in findings
      BY <2>4, <2>6, <2>7, <2>8, <2>10, <3>1
    <3> QED BY <3>2 DEF target, k, x, described
  <2> QED BY <2>2, <2>9, <2>10
<1> QED BY <1>1, Invariance, PTL

-----------------------------------------------------------------------------
(* Doing what a finding asks for settles it. *)

(* rep is objs with the object r at a position n of its own. *)
Grown(objs, rep, n, r) ==
  /\ n \notin DOMAIN objs /\ DOMAIN rep = DOMAIN objs \cup {n}
  /\ rep[n] = r /\ \A i \in DOMAIN objs : rep[i] = objs[i]

(* An object that refers to nothing itself. *)
Inert(r) ==
  /\ ~IsRoute(r) /\ ~IsListenerSet(r) /\ ~WillPopulateSecret(r)
  /\ TerminatingCertificateRefs(r) = {}
  /\ IsGateway(r) => r.className = ""

(* What r describes, by the guards of the checks, objs describes already; that r
   may be the first grant of its namespace is left open. *)
Foreseen(objs, r) ==
  /\ r.type \in {"Service", "Backend"} => \E t \in BackendTargets(objs) : t.kind = r.type /\ t.ns = r.ns
  /\ r.type = "Secret" => \E secret \in CertificateSecrets(objs) : secret.ns = r.ns
  /\ r.type = "GatewayClass" => GatewayClasses(objs) # {}
  /\ IsGateway(r) => \E gateway \in Gateways(objs) : gateway.ns = r.ns
  /\ r.type \in {"Secret", "ReferenceGrant"} => r.ns \in DescribedNamespaces(objs)

LEMMA AppendGrows ==
  ASSUME NEW objs \in ManifestSets, NEW r
  PROVE  \E n : Grown(objs, Append(objs, r), n, r)
<1> DEFINE T == {objs[i] : i \in DOMAIN objs} \cup {r}
<1>1. objs \in Seq(T)
  <2>1. objs \in Seq({objs[i] : i \in DOMAIN objs})
    BY LoadOrderAssumption
  <2>2. \A i \in 1..Len(objs) : objs[i] \in T
    BY <2>1
  <2> HIDE DEF T
  <2> QED BY <2>1, <2>2
<1>2. r \in T
  OBVIOUS
<1> HIDE DEF T
<1>3. Grown(objs, Append(objs, r), Len(objs) + 1, r)
  BY <1>1, <1>2 DEF Grown
<1> QED BY <1>3

(* The checks, one by one, when such an object is added. *)

LEMMA BackendsKept ==
  ASSUME NEW objs, NEW rep, NEW n, NEW r, Grown(objs, rep, n, r), Inert(r), Foreseen(objs, r)
  PROVE  /\ DanglingBackendRefs(rep, n) = {}
         /\ \A j \in DOMAIN objs : DanglingBackendRefs(rep, j) \subseteq DanglingBackendRefs(objs, j)
<1> DEFINE described(known, kind, ns) == \E t \in known : t.kind = kind /\ t.ns = ns
<1>1. BackendTargets(rep) =
        BackendTargets(objs) \cup (IF r.type \in {"Service", "Backend"} THEN {RefOf(r)} ELSE {})
  BY DEF Grown, BackendTargets
<1>2. RefOf(r).kind = r.type /\ RefOf(r).ns = r.ns
  BY DEF RefOf, ObjectRef
<1>3. \A kind, ns : described(BackendTargets(rep), kind, ns) => described(BackendTargets(objs), kind, ns)
  BY <1>1, <1>2 DEF Foreseen
<1>4. BackendTargets(objs) \subseteq BackendTargets(rep)
  BY <1>1
<1>5. rep[n] = r /\ \A j \in DOMAIN objs : rep[j] = objs[j]
  BY DEF Grown
<1>6. DanglingBackendRefs(rep, n) = {}
  BY <1>5 DEF DanglingBackendRefs, Inert
<1>7. ASSUME NEW j \in DOMAIN objs, NEW b \in DanglingBackendRefs(rep, j)
      PROVE  b \in DanglingBackendRefs(objs, j)
  BY <1>3, <1>4, <1>5 DEF DanglingBackendRefs
<1> QED BY <1>6, <1>7

LEMMA SecretsGrow ==
  ASSUME NEW objs, NEW rep, NEW n, NEW r, Grown(objs, rep, n, r), Inert(r)
  PROVE  CertificateSecrets(rep) =
           CertificateSecrets(objs) \cup (IF r.type = "Secret" THEN {RefOf(r)} ELSE {})
<1>1. ~WillPopulateSecret(r)
  BY DEF Inert
<1>2. rep[n] = r /\ DOMAIN rep = DOMAIN objs \cup {n} /\ \A j \in DOMAIN objs : rep[j] = objs[j]
  BY DEF Grown
<1>3. \A set : \A secret : secret \in CertificateSecrets(set) <=>
        \E i \in DOMAIN set :
          \/ set[i].type = "Secret" /\ secret = RefOf(set[i])
          \/ WillPopulateSecret(set[i]) /\ secret = ObjectRef("Secret", set[i].ns, set[i].secretName)
  BY DEF CertificateSecrets
<1>4. ASSUME NEW secret
      PROVE  secret \in CertificateSecrets(rep) <=>
               secret \in CertificateSecrets(objs) \/ (r.type = "Secret" /\ secret = RefOf(r))
  <2>1. ASSUME secret \in CertificateSecrets(rep)
        PROVE  secret \in CertificateSecrets(objs) \/ (r.type = "Secret" /\ secret = RefOf(r))
    BY <1>1, <1>2, <1>3, <2>1
  <2>2. ASSUME secret \in CertificateSecrets(objs) PROVE secret \in CertificateSecrets(rep)
    BY <1>2, <1>3, <2>2
  <2>3. ASSUME r.type = "Secret", secret = RefOf(r) PROVE secret \in CertificateSecrets(rep)
    BY <1>2, <1>3, <2>3
  <2> QED BY <2>1, <2>2, <2>3
<1> QED BY <1>4

LEMMA CertificatesKept ==
  ASSUME NEW objs, NEW rep, NEW n, NEW r, Grown(objs, rep, n, r), Inert(r), Foreseen(objs, r)
  PROVE  /\ DanglingCertificateRefs(rep, n) = {}
         /\ \A j \in DOMAIN objs :
              DanglingCertificateRefs(rep, j) \subseteq DanglingCertificateRefs(objs, j)
<1> DEFINE described(known, ns) == \E secret \in known : secret.ns = ns
<1>1. CertificateSecrets(objs) \subseteq CertificateSecrets(rep)
  BY SecretsGrow
<1>2. \A ns : described(CertificateSecrets(rep), ns) => described(CertificateSecrets(objs), ns)
  <2>1. RefOf(r).ns = r.ns
    BY DEF RefOf, ObjectRef
  <2> QED BY <2>1, SecretsGrow DEF Foreseen
<1>3. rep[n] = r /\ \A j \in DOMAIN objs : rep[j] = objs[j]
  BY DEF Grown
<1>4. DanglingCertificateRefs(rep, n) = {}
  BY <1>3 DEF DanglingCertificateRefs, Inert
<1>5. ASSUME NEW j \in DOMAIN objs, NEW b \in DanglingCertificateRefs(rep, j)
      PROVE  b \in DanglingCertificateRefs(objs, j)
  BY <1>1, <1>2, <1>3 DEF DanglingCertificateRefs
<1> QED BY <1>4, <1>5

LEMMA ClassesKept ==
  ASSUME NEW objs, NEW rep, NEW n, NEW r, Grown(objs, rep, n, r), Inert(r), Foreseen(objs, r)
  PROVE  /\ DanglingGatewayClass(rep, n) = {}
         /\ \A j \in DOMAIN objs : DanglingGatewayClass(rep, j) \subseteq DanglingGatewayClass(objs, j)
<1>1. /\ GatewayClasses(objs) \subseteq GatewayClasses(rep)
      /\ r.type # "GatewayClass" => GatewayClasses(rep) = GatewayClasses(objs)
  BY DEF Grown, GatewayClasses
<1>2. GatewayClasses(rep) # {} => GatewayClasses(objs) # {}
  BY <1>1 DEF Foreseen
<1>3. rep[n] = r /\ \A j \in DOMAIN objs : rep[j] = objs[j]
  BY DEF Grown
<1>4. DanglingGatewayClass(rep, n) = {}
  BY <1>3 DEF DanglingGatewayClass, Inert
<1>5. ASSUME NEW j \in DOMAIN objs, NEW x \in DanglingGatewayClass(rep, j)
      PROVE  x \in DanglingGatewayClass(objs, j)
  BY <1>1, <1>2, <1>3 DEF DanglingGatewayClass
<1> QED BY <1>4, <1>5

LEMMA ParentsKept ==
  ASSUME NEW objs, NEW rep, NEW n, NEW r, Grown(objs, rep, n, r), Inert(r), Foreseen(objs, r)
  PROVE  /\ DanglingListenerSetParent(rep, n) = {}
         /\ \A j \in DOMAIN objs :
              DanglingListenerSetParent(rep, j) \subseteq DanglingListenerSetParent(objs, j)
<1> DEFINE described(known, ns) == \E gateway \in known : gateway.ns = ns
<1>1. Gateways(rep) = Gateways(objs) \cup (IF IsGateway(r) THEN {RefOf(r)} ELSE {})
  BY DEF Grown, Gateways
<1>2. Gateways(objs) \subseteq Gateways(rep)
  BY <1>1
<1>3. \A ns : described(Gateways(rep), ns) => described(Gateways(objs), ns)
  <2>1. RefOf(r).ns = r.ns
    BY DEF RefOf, ObjectRef
  <2> QED BY <1>1, <2>1 DEF Foreseen
<1>4. rep[n] = r /\ \A j \in DOMAIN objs : rep[j] = objs[j]
  BY DEF Grown
<1>5. DanglingListenerSetParent(rep, n) = {}
  BY <1>4 DEF DanglingListenerSetParent, Inert
<1>6. ASSUME NEW j \in DOMAIN objs, NEW b \in DanglingListenerSetParent(rep, j)
      PROVE  b \in DanglingListenerSetParent(objs, j)
  BY <1>2, <1>3, <1>4 DEF DanglingListenerSetParent
<1> QED BY <1>5, <1>6

(* The first grant of a namespace lets the backendRefs into it be judged. *)
LEMMA ReferenceGrantsKept ==
  ASSUME NEW objs, NEW rep, NEW n, NEW r, Grown(objs, rep, n, r), Inert(r)
  PROVE  /\ MissingReferenceGrants(rep, n) = {}
         /\ \A j \in DOMAIN objs : \A b \in MissingReferenceGrants(rep, j) :
              \/ b \in MissingReferenceGrants(objs, j)
              \/ /\ r.type = "ReferenceGrant" /\ BackendRefAt(objs[j], b).ns = r.ns
                 /\ GrantsByNamespace(objs, r.ns) = {}
<1>1. \A ns : /\ GrantsByNamespace(objs, ns) \subseteq GrantsByNamespace(rep, ns)
              /\ GrantsByNamespace(objs, ns) \subseteq DOMAIN objs
              /\ r.type # "ReferenceGrant" \/ ns # r.ns =>
                   GrantsByNamespace(rep, ns) = GrantsByNamespace(objs, ns)
  BY DEF Grown, GrantsByNamespace
<1>2. rep[n] = r /\ \A j \in DOMAIN objs : rep[j] = objs[j]
  BY DEF Grown
<1>3. \A ns, route, to :
        Permits(objs, GrantsByNamespace(objs, ns), route, to) =>
          Permits(rep, GrantsByNamespace(rep, ns), route, to)
  BY <1>1, <1>2 DEF Permits
<1>4. MissingReferenceGrants(rep, n) = {}
  BY <1>2 DEF MissingReferenceGrants, Inert
<1>5. ASSUME NEW j \in DOMAIN objs, NEW b \in MissingReferenceGrants(rep, j),
             b \notin MissingReferenceGrants(objs, j)
      PROVE  /\ r.type = "ReferenceGrant" /\ BackendRefAt(objs[j], b).ns = r.ns
             /\ GrantsByNamespace(objs, r.ns) = {}
  <2> DEFINE ref == BackendRefAt(objs[j], b)
  <2>1. /\ GrantsByNamespace(rep, ref.ns) # {}
        /\ ~Permits(rep, GrantsByNamespace(rep, ref.ns), objs[j], ref)
    BY <1>2, <1>5 DEF MissingReferenceGrants
  <2>2. GrantsByNamespace(objs, ref.ns) = {}
    BY <1>2, <1>3, <1>5, <2>1 DEF MissingReferenceGrants
  <2> QED BY <1>1, <2>1, <2>2
<1> QED BY <1>4, <1>5

LEMMA CertificateGrantsKept ==
  ASSUME NEW objs, NEW rep, NEW n, NEW r, Grown(objs, rep, n, r), Inert(r), Foreseen(objs, r)
  PROVE  /\ MissingCertificateGrants(rep, n) = {}
         /\ \A j \in DOMAIN objs :
              MissingCertificateGrants(rep, j) \subseteq MissingCertificateGrants(objs, j)
<1>1. rep[n] = r /\ DOMAIN rep = DOMAIN objs \cup {n} /\ \A j \in DOMAIN objs : rep[j] = objs[j]
  BY DEF Grown
<1>2. \A ns : ns \in DescribedNamespaces(rep) => ns \in DescribedNamespaces(objs)
  <2> SUFFICES ASSUME NEW ns \in DescribedNamespaces(rep) PROVE ns \in DescribedNamespaces(objs)
    OBVIOUS
  <2>1. \A set : ns \in DescribedNamespaces(set) <=>
                 \/ \E secret \in CertificateSecrets(set) : secret.ns = ns
                 \/ \E i \in DOMAIN set : IsReferenceGrant(set[i]) /\ set[i].ns = ns
    BY DEF DescribedNamespaces
  <2>2. RefOf(r).ns = r.ns
    BY DEF RefOf, ObjectRef
  <2>3. CASE \E secret \in CertificateSecrets(rep) : secret.ns = ns
    BY <2>1, <2>2, <2>3, SecretsGrow DEF Foreseen
  <2>4. CASE \E i \in DOMAIN rep : IsReferenceGrant(rep[i]) /\ rep[i].ns = ns
    <3>1. PICK i \in DOMAIN rep : IsReferenceGrant(rep[i]) /\ rep[i].ns = ns
      BY <2>4
    <3>2. CASE i \in DOMAIN objs
      BY <1>1, <2>1, <3>1, <3>2
    <3>3. CASE i = n
      BY <1>1, <3>1, <3>3 DEF IsReferenceGrant, Foreseen
    <3> QED BY <1>1, <3>1, <3>2, <3>3
  <2> QED BY <2>1, <2>3, <2>4
<1>3. \A owner, to : Permitted(objs, owner, to) => Permitted(rep, owner, to)
  BY <1>1 DEF Permitted
<1>4. MissingCertificateGrants(rep, n) = {}
  BY <1>1 DEF MissingCertificateGrants, Inert
<1>5. ASSUME NEW j \in DOMAIN objs, NEW b \in MissingCertificateGrants(rep, j)
      PROVE  b \in MissingCertificateGrants(objs, j)
  BY <1>1, <1>2, <1>3 DEF MissingCertificateGrants
<1> QED BY <1>4, <1>5

(* Taken together: nothing is said of the grown set that was not said before, but
   for backendRefs into a namespace that r is the first grant of. *)
LEMMA NothingNew ==
  ASSUME NEW objs, NEW rep, NEW n, NEW r, Grown(objs, rep, n, r), Inert(r), Foreseen(objs, r),
         NEW other \in Names, NEW j \in DOMAIN rep, NEW x \in Reports(other, rep, j)
  PROVE  /\ j \in DOMAIN objs
         /\ \/ x \in Reports(other, objs, j)
            \/ /\ other = "missing-reference-grant" /\ r.type = "ReferenceGrant"
               /\ BackendRefAt(objs[j], x).ns = r.ns /\ GrantsByNamespace(objs, r.ns) = {}
<1>1. j \in DOMAIN objs \/ j = n
  BY DEF Grown
<1>2. CASE other = "dangling-backend-ref"
  BY <1>1, <1>2, BackendsKept DEF Reports
<1>3. CASE other = "dangling-certificate-ref"
  BY <1>1, <1>3, CertificatesKept DEF Reports
<1>4. CASE other = "dangling-gateway-class"
  BY <1>1, <1>4, ClassesKept DEF Reports
<1>5. CASE other = "dangling-listener-set-parent"
  BY <1>1, <1>5, ParentsKept DEF Reports
<1>6. CASE other = "missing-certificate-grant"
  BY <1>1, <1>6, CertificateGrantsKept DEF Reports
<1>7. CASE other = "missing-reference-grant"
  BY <1>1, <1>7, ReferenceGrantsKept DEF Reports
<1> QED BY <1>2, <1>3, <1>4, <1>5, <1>6, <1>7 DEF Names, DanglingChecks, GrantChecks

(* What a finding asks for: an inert object that describes nothing new. *)

LEMMA NoIndex ==
  ASSUME NEW s, s = <<>>
  PROVE  DOMAIN s = {}
<1>1. <<>> \in Seq({}) /\ Len(<<>>) = 0
  BY EmptySeq
<1>2. DOMAIN s = 1 .. Len(s)
  BY <1>1, LenProperties
<1> QED BY <1>1, <1>2

LEMMA RepairIsInert ==
  ASSUME NEW r, \/ r.type \in {"Service", "Backend", "Secret", "GatewayClass", "ReferenceGrant"}
                \/ r.type = "Gateway" /\ r.className = "" /\ r.listeners = <<>>
  PROVE  Inert(r)
<1>1. ~IsRoute(r) /\ ~IsListenerSet(r) /\ ~WillPopulateSecret(r)
  BY DEF IsRoute, RouteKinds, IsListenerSet, WillPopulateSecret
<1>2. IsGateway(r) => r.className = "" /\ r.listeners = <<>>
  BY DEF IsGateway
<1>3. r.listeners = <<>> => DOMAIN r.listeners = {}
  BY NoIndex
<1>4. TerminatingCertificateRefs(r) = {}
  BY <1>1, <1>2, <1>3 DEF TerminatingCertificateRefs
<1> QED BY <1>1, <1>2, <1>4 DEF Inert

(* The finding about x of the k-th object is gone, and r fits in. *)
Settled(check, objs, rep, k, x, r) ==
  /\ x \notin Reports(check, rep, k)
  /\ Inert(r) /\ Foreseen(objs, r) /\ r.ns = Target(objs, check, k, x).ns
  /\ r.type = "ReferenceGrant" /\ check # "missing-certificate-grant" =>
       GrantsByNamespace(objs, r.ns) # {}

LEMMA BackendRepair ==
  ASSUME NEW objs, NEW rep, NEW n, NEW r, Grown(objs, rep, n, r),
         NEW k \in DOMAIN objs, NEW x \in DanglingBackendRefs(objs, k),
         NEW ref, ref = BackendRefAt(objs[k], x),
         r.type = ref.kind, r.ns = ref.ns, r.name = ref.name
  PROVE  /\ x \notin DanglingBackendRefs(rep, k)
         /\ Inert(r) /\ Foreseen(objs, r) /\ r.type # "ReferenceGrant"
<1>1. r.type \in {"Service", "Backend"}
  BY DEF DanglingBackendRefs, ResolvableBackendKind
<1>2. ObjectRef(ref.kind, ref.ns, ref.name) \in BackendTargets(rep)
  BY <1>1 DEF Grown, BackendTargets, RefOf
<1>3. x \notin DanglingBackendRefs(rep, k)
  BY <1>2 DEF DanglingBackendRefs, Grown
<1>4. \E t \in BackendTargets(objs) : t.kind = r.type /\ t.ns = r.ns
  BY DEF DanglingBackendRefs
<1>5. Foreseen(objs, r)
  BY <1>1, <1>4 DEF Foreseen, IsGateway
<1>6. Inert(r)
  BY <1>1, RepairIsInert
<1> QED BY <1>1, <1>3, <1>5, <1>6

LEMMA CertificateRepair ==
  ASSUME NEW objs, NEW rep, NEW n, NEW r, Grown(objs, rep, n, r),
         NEW k \in DOMAIN objs, NEW x \in DanglingCertificateRefs(objs, k),
         NEW ref, ref = CertificateRefAt(objs[k], x),
         r.type = ref.kind, r.ns = ref.ns, r.name = ref.name
  PROVE  /\ x \notin DanglingCertificateRefs(rep, k)
         /\ Inert(r) /\ Foreseen(objs, r) /\ r.type # "ReferenceGrant"
<1>1. r.type = "Secret"
  BY DEF DanglingCertificateRefs, ResolvableCertificateKind
<1>2. Inert(r)
  BY <1>1, RepairIsInert
<1>3. ObjectRef(ref.kind, ref.ns, ref.name) \in CertificateSecrets(rep)
  BY <1>1, <1>2, SecretsGrow DEF RefOf
<1>4. x \notin DanglingCertificateRefs(rep, k)
  BY <1>3 DEF DanglingCertificateRefs, Grown
<1>5. \E secret \in CertificateSecrets(objs) : secret.ns = r.ns
  BY DEF DanglingCertificateRefs
<1>6. Foreseen(objs, r)
  <2>1. r.ns \in DescribedNamespaces(objs)
    BY <1>5 DEF DescribedNamespaces
  <2> QED BY <1>1, <1>5, <2>1 DEF Foreseen, IsGateway
<1> QED BY <1>1, <1>2, <1>4, <1>6

LEMMA ClassRepair ==
  ASSUME NEW objs, NEW rep, NEW n, NEW r, Grown(objs, rep, n, r),
         NEW k \in DOMAIN objs, NEW x \in DanglingGatewayClass(objs, k),
         r.type = "GatewayClass", r.version = "v1", r.name = objs[k].className
  PROVE  /\ x \notin DanglingGatewayClass(rep, k)
         /\ Inert(r) /\ Foreseen(objs, r)
<1>1. r.name \in GatewayClasses(rep)
  BY DEF Grown, GatewayClasses
<1>2. x \notin DanglingGatewayClass(rep, k)
  BY <1>1 DEF DanglingGatewayClass, Grown
<1>3. GatewayClasses(objs) # {}
  BY DEF DanglingGatewayClass
<1>4. Foreseen(objs, r)
  BY <1>3 DEF Foreseen, IsGateway
<1> QED BY <1>2, <1>4, RepairIsInert

LEMMA ParentRepair ==
  ASSUME NEW objs, NEW rep, NEW n, NEW r, Grown(objs, rep, n, r),
         NEW k \in DOMAIN objs, NEW x \in DanglingListenerSetParent(objs, k),
         r.type = "Gateway", r.version = "v1", r.className = "", r.listeners = <<>>,
         RefOf(r) = ListenerSetParent(objs[k])
  PROVE  /\ x \notin DanglingListenerSetParent(rep, k)
         /\ Inert(r) /\ Foreseen(objs, r)
<1>1. RefOf(r) \in Gateways(rep)
  BY DEF Grown, Gateways, IsGateway
<1>2. x \notin DanglingListenerSetParent(rep, k)
  BY <1>1 DEF DanglingListenerSetParent, Grown
<1>3. RefOf(r).ns = r.ns
  BY DEF RefOf, ObjectRef
<1>4. \E gateway \in Gateways(objs) : gateway.ns = r.ns
  BY <1>3 DEF DanglingListenerSetParent
<1>5. Foreseen(objs, r)
  BY <1>4 DEF Foreseen
<1> QED BY <1>2, <1>5, RepairIsInert

LEMMA ReferenceGrantRepair ==
  ASSUME NEW objs, NEW rep, NEW n, NEW r, Grown(objs, rep, n, r),
         NEW k \in DOMAIN objs, NEW x \in MissingReferenceGrants(objs, k),
         NEW ref, ref = BackendRefAt(objs[k], x),
         r.type = "ReferenceGrant", r.version = "v1", r.ns = ref.ns,
         MatchesFrom(r, objs[k].type, objs[k].ns), MatchesTo(r, ref)
  PROVE  /\ x \notin MissingReferenceGrants(rep, k)
         /\ Inert(r) /\ Foreseen(objs, r)
         /\ GrantsByNamespace(objs, r.ns) # {}
<1>1. n \in GrantsByNamespace(rep, ref.ns) /\ rep[n] = r /\ rep[k] = objs[k]
  BY DEF GrantsByNamespace, Grown
<1>2. x \notin MissingReferenceGrants(rep, k)
  BY <1>1 DEF MissingReferenceGrants, Permits
<1>3. GrantsByNamespace(objs, r.ns) # {}
  BY DEF MissingReferenceGrants
<1>4. r.ns \in DescribedNamespaces(objs)
  BY <1>3 DEF GrantsByNamespace, DescribedNamespaces, IsReferenceGrant
<1>5. Foreseen(objs, r)
  BY <1>4 DEF Foreseen, IsGateway
<1> QED BY <1>2, <1>3, <1>5, RepairIsInert

LEMMA CertificateGrantRepair ==
  ASSUME NEW objs, NEW rep, NEW n, NEW r, Grown(objs, rep, n, r),
         NEW k \in DOMAIN objs, NEW x \in MissingCertificateGrants(objs, k),
         NEW ref, ref = CertificateRefAt(objs[k], x),
         r.type = "ReferenceGrant", r.version = "v1", r.ns = ref.ns,
         GrantAllowsFrom(r, objs[k]), GrantAllowsTo(r, ref)
  PROVE  /\ x \notin MissingCertificateGrants(rep, k)
         /\ Inert(r) /\ Foreseen(objs, r)
<1>1. n \in DOMAIN rep /\ rep[n] = r /\ rep[k] = objs[k] /\ IsReferenceGrant(r)
  BY DEF Grown, IsReferenceGrant
<1>2. Permitted(rep, objs[k], ref)
  BY <1>1 DEF Permitted
<1>3. x \notin MissingCertificateGrants(rep, k)
  BY <1>1, <1>2 DEF MissingCertificateGrants
<1>4. r.ns \in DescribedNamespaces(objs)
  BY DEF MissingCertificateGrants
<1>5. Foreseen(objs, r)
  BY <1>4 DEF Foreseen, IsGateway
<1> QED BY <1>3, <1>5, RepairIsInert

LEMMA RepairsFit ==
  ASSUME NEW objs, NEW rep, NEW n, NEW check \in Names, NEW k \in DOMAIN objs,
         NEW x \in Reports(check, objs, k),
         NEW r, r = Repair(check, k, Target(objs, check, k, x)),
         Grown(objs, rep, n, r), objs = objects
  PROVE  Settled(check, objs, rep, k, x, r)
<1> DEFINE target == Target(objs, check, k, x)
<1>1. CASE check = "dangling-backend-ref"
  <2>1. target = BackendRefAt(objs[k], x)
    BY <1>1 DEF Target
  <2>2. r.type = target.kind /\ r.ns = target.ns /\ r.name = target.name
    BY <1>1 DEF Repair, GrantChecks
  <2> HIDE DEF target
  <2>3. \A set, j : Reports(check, set, j) = DanglingBackendRefs(set, j)
    BY <1>1 DEF Reports
  <2> QED BY <2>1, <2>2, <2>3, BackendRepair DEF Settled, target
<1>2. CASE check = "dangling-certificate-ref"
  <2>1. target = CertificateRefAt(objs[k], x)
    BY <1>2 DEF Target
  <2>2. r.type = target.kind /\ r.ns = target.ns /\ r.name = target.name
    BY <1>2 DEF Repair, GrantChecks
  <2> HIDE DEF target
  <2>3. \A set, j : Reports(check, set, j) = DanglingCertificateRefs(set, j)
    BY <1>2 DEF Reports
  <2> QED BY <2>1, <2>2, <2>3, CertificateRepair DEF Settled, target
<1>3. CASE check = "dangling-gateway-class"
  <2>1. target.kind = "GatewayClass" /\ target.name = objs[k].className
    BY <1>3 DEF Target
  <2>2. r.type = "GatewayClass" /\ r.version = "v1" /\ r.name = objs[k].className /\ r.ns = target.ns
    BY <1>3, <2>1 DEF Repair, GrantChecks
  <2> HIDE DEF target
  <2>3. \A set, j : Reports(check, set, j) = DanglingGatewayClass(set, j)
    BY <1>3 DEF Reports
  <2> QED BY <2>2, <2>3, ClassRepair DEF Settled, target
<1>4. CASE check = "dangling-listener-set-parent"
  <2>1. ListenerSetParent(objs[k]) = ObjectRef("Gateway", target.ns, target.name)
    BY <1>4 DEF Target, ListenerSetParent, ObjectRef
  <2>2. /\ r.type = "Gateway" /\ r.version = "v1" /\ r.className = "" /\ r.listeners = <<>>
        /\ r.ns = target.ns /\ r.name = target.name
    BY <1>4 DEF Repair, GrantChecks
  <2> HIDE DEF target
  <2>3. RefOf(r) = ListenerSetParent(objs[k])
    BY <2>1, <2>2 DEF RefOf
  <2>4. \A set, j : Reports(check, set, j) = DanglingListenerSetParent(set, j)
    BY <1>4 DEF Reports
  <2>5. x \notin DanglingListenerSetParent(rep, k) /\ Inert(r) /\ Foreseen(objs, r)
    <3>1. x \in DanglingListenerSetParent(objs, k)
      BY <2>4
    <3> QED BY <2>2, <2>3, <3>1, ParentRepair
  <2> QED BY <2>2, <2>4, <2>5 DEF Settled, target
<1>5. CASE check = "missing-reference-grant"
  <2>1. target = BackendRefAt(objs[k], x)
    BY <1>5 DEF Target
  <2>2. /\ r.type = "ReferenceGrant" /\ r.version = "v1" /\ r.ns = target.ns
        /\ MatchesFrom(r, objs[k].type, objs[k].ns) /\ MatchesTo(r, target)
    BY <1>5 DEF Repair, GrantChecks, MatchesFrom, MatchesTo
  <2> HIDE DEF target
  <2>3. \A set, j : Reports(check, set, j) = MissingReferenceGrants(set, j)
    BY <1>5 DEF Reports
  <2> QED BY <2>1, <2>2, <2>3, ReferenceGrantRepair DEF Settled, target
<1>6. CASE check = "missing-certificate-grant"
  <2>1. target = CertificateRefAt(objs[k], x)
    BY <1>6 DEF Target
  <2>2. /\ r.type = "ReferenceGrant" /\ r.version = "v1" /\ r.ns = target.ns
        /\ GrantAllowsFrom(r, objs[k]) /\ GrantAllowsTo(r, target)
    BY <1>6 DEF Repair, GrantChecks, GrantAllowsFrom, GrantAllowsTo
  <2> HIDE DEF target
  <2>3. \A set, j : Reports(check, set, j) = MissingCertificateGrants(set, j)
    BY <1>6 DEF Reports
  <2> QED BY <1>6, <2>1, <2>2, <2>3, CertificateGrantRepair DEF Settled, target
<1> QED BY <1>1, <1>2, <1>3, <1>4, <1>5, <1>6 DEF Names, DanglingChecks, GrantChecks

(* With the object a finding misses added to the manifest set, the finding is
   gone and no check has anything new to say, but for missing-reference-grant of
   a namespace that had no grant. *)
THEOREM AdviceSettles == Spec => []RepairSettles
<1>1. IInv => RepairSettles
  <2> SUFFICES ASSUME IInv, NEW f \in findings
               PROVE  LET check == f[1]
                          target == Target(objects, check, f[2], f[3])
                          repaired == Append(objects, Repair(check, f[2], target))
                      IN
                      /\ f[3] \notin Reports(check, repaired, f[2])
                      /\ \A other \in DanglingChecks \cup GrantChecks, k \in DOMAIN repaired :
                           \A x \in News(other, repaired, k) :
                             /\ check = "missing-certificate-grant"
                             /\ other = "missing-reference-grant"
                             /\ GrantsIn(target.ns) = {}
                             /\ Target(repaired, other, k, x).ns = target.ns
    BY DEF RepairSettles
  <2> DEFINE check == f[1]
             target == Target(objects, check, f[2], f[3])
             r == Repair(check, f[2], target)
             repaired == Append(objects, r)
  <2>1. /\ check \in Names /\ f[2] \in DOMAIN objects /\ f[3] \in Reports(check, objects, f[2])
        /\ objects \in ManifestSets
    BY FindingIsDue
  <2>2. PICK n : Grown(objects, repaired, n, r)
    BY <2>1, AppendGrows
  <2>3. Settled(check, objects, repaired, f[2], f[3], r)
    BY <2>1, <2>2, RepairsFit
  <2>4. r.ns = target.ns
    BY <2>3 DEF Settled
  <2> HIDE DEF r, repaired
  <2>5. ASSUME NEW other \in Names, NEW k \in DOMAIN repaired, NEW x \in News(other, repaired, k)
        PROVE  /\ check = "missing-certificate-grant" /\ other = "missing-reference-grant"
               /\ GrantsIn(target.ns) = {}
               /\ Target(repaired, other, k, x).ns = target.ns
    <3>1. /\ x \in Reports(other, repaired, k)
          /\ k \in DOMAIN objects => x \notin Reports(other, objects, k)
      BY <2>5 DEF News
    <3>2. Inert(r) /\ Foreseen(objects, r)
      BY <2>3 DEF Settled
    <3>3. k \in DOMAIN objects
      BY <2>2, <3>1, <3>2, NothingNew
    <3>4. /\ other = "missing-reference-grant" /\ r.type = "ReferenceGrant"
          /\ BackendRefAt(objects[k], x).ns = r.ns /\ GrantsByNamespace(objects, r.ns) = {}
      BY <2>2, <3>1, <3>2, <3>3, NothingNew
    <3>5. check = "missing-certificate-grant"
      BY <2>3, <3>4 DEF Settled
    <3>6. GrantsIn(target.ns) = {}
      BY <2>1, <2>4, <3>4, GrantsIndexed
    <3>7. repaired[k] = objects[k]
      BY <2>2, <3>3 DEF Grown
    <3>8. Target(repaired, other, k, x).ns = target.ns
      BY <2>4, <3>4, <3>7 DEF Target
    <3> QED BY <3>4, <3>5, <3>6, <3>8
  <2>6. f[3] \notin Reports(check, repaired, f[2])
    BY <2>3 DEF Settled
  <2> HIDE DEF target, check
  <2> QED BY <2>5, <2>6 DEF Names, r, repaired, target, check
<1> QED BY <1>1, Invariance, PTL

-----------------------------------------------------------------------------
(* Linting a set without the objects of other namespaces. *)

(* Of objs some objects are left: the k-th, and all that live in ns. *)
Near(objs, part, k, ns) ==
  /\ part[k] = objs[k]
  /\ \A i \in DOMAIN part : i \in DOMAIN objs /\ part[i] = objs[i]
  /\ \A i \in DOMAIN objs : objs[i].ns = ns /\ objs[i].type # "GatewayClass" => i \in DOMAIN part
  /\ \A i \in DOMAIN objs : ns = "" /\ objs[i].type = "GatewayClass" => i \in DOMAIN part

LEMMA BackendTargetIff ==
  ASSUME NEW objs, NEW target
  PROVE  target \in BackendTargets(objs) <=>
           \E i \in DOMAIN objs : objs[i].type \in {"Service", "Backend"} /\ target = RefOf(objs[i])
  BY DEF BackendTargets

LEMMA NearBackends ==
  ASSUME NEW objs, NEW part, NEW k, NEW ns, Near(objs, part, k, ns),
         NEW target, target.ns = ns
  PROVE  target \in BackendTargets(part) <=> target \in BackendTargets(objs)
<1>1. \A i : target = RefOf(objs[i]) => objs[i].ns = ns
  BY DEF RefOf, ObjectRef
<1>2. ASSUME NEW i \in DOMAIN objs, objs[i].type \in {"Service", "Backend"}, target = RefOf(objs[i])
      PROVE  i \in DOMAIN part /\ part[i] = objs[i]
  BY <1>1, <1>2 DEF Near
<1>3. \A i \in DOMAIN part : i \in DOMAIN objs /\ part[i] = objs[i]
  BY DEF Near
<1>4. target \in BackendTargets(objs) => target \in BackendTargets(part)
  BY <1>2, BackendTargetIff
<1>5. target \in BackendTargets(part) => target \in BackendTargets(objs)
  BY <1>3, BackendTargetIff
<1> QED BY <1>4, <1>5

LEMMA NearBackendRefs ==
  ASSUME NEW objs, NEW part, NEW k, NEW ns, Near(objs, part, k, ns),
         NEW b, BackendRefAt(objs[k], b).ns = ns
  PROVE  b \in DanglingBackendRefs(part, k) <=> b \in DanglingBackendRefs(objs, k)
<1> DEFINE ref == BackendRefAt(objs[k], b)
           described(set) == \E target \in BackendTargets(set) : target.kind = ref.kind /\ target.ns = ref.ns
           found(set) == ObjectRef(ref.kind, ref.ns, ref.name) \in BackendTargets(set)
<1>1. part[k] = objs[k]
  BY DEF Near
<1>2. ASSUME NEW set \in {objs, part}
      PROVE  b \in DanglingBackendRefs(set, k) <=>
               /\ IsRoute(objs[k]) /\ b \in DOMAIN objs[k].backendRefs
               /\ ResolvableBackendKind(ref.group, ref.kind) /\ described(set) /\ ~found(set)
  BY <1>1 DEF DanglingBackendRefs
<1>3. ref.ns = ns
  OBVIOUS
<1> HIDE DEF ref
<1>4. described(part) <=> described(objs)
  BY <1>3, NearBackends
<1>5. found(part) <=> found(objs)
  BY <1>3, NearBackends DEF ObjectRef
<1> QED BY <1>2, <1>4, <1>5

LEMMA SecretIff ==
  ASSUME NEW objs, NEW target
  PROVE  target \in CertificateSecrets(objs) <=>
           \E i \in DOMAIN objs :
             \/ objs[i].type = "Secret" /\ target = RefOf(objs[i])
             \/ /\ WillPopulateSecret(objs[i])
                /\ target = ObjectRef("Secret", objs[i].ns, objs[i].secretName)
  BY DEF CertificateSecrets

LEMMA NearSecrets ==
  ASSUME NEW objs, NEW part, NEW k, NEW ns, Near(objs, part, k, ns),
         NEW target, target.ns = ns
  PROVE  target \in CertificateSecrets(part) <=> target \in CertificateSecrets(objs)
<1>1. \A i : target = RefOf(objs[i]) => objs[i].ns = ns
  BY DEF RefOf, ObjectRef
<1>2. \A i : target = ObjectRef("Secret", objs[i].ns, objs[i].secretName) => objs[i].ns = ns
  BY DEF ObjectRef
<1>3. \A i : WillPopulateSecret(objs[i]) => objs[i].type # "GatewayClass"
  BY DEF WillPopulateSecret
<1> DEFINE Makes(o) == \/ o.type = "Secret" /\ target = RefOf(o)
                       \/ /\ WillPopulateSecret(o)
                          /\ target = ObjectRef("Secret", o.ns, o.secretName)
<1>4. ASSUME NEW i \in DOMAIN objs, Makes(objs[i])
      PROVE  i \in DOMAIN part /\ part[i] = objs[i]
  BY <1>1, <1>2, <1>3, <1>4 DEF Near
<1>5. \A i \in DOMAIN part : i \in DOMAIN objs /\ part[i] = objs[i]
  BY DEF Near
<1>6. \A set : target \in CertificateSecrets(set) <=> \E i \in DOMAIN set : Makes(set[i])
  BY SecretIff
<1> HIDE DEF Makes
<1>7. target \in CertificateSecrets(objs) => target \in CertificateSecrets(part)
  BY <1>4, <1>6
<1>8. target \in CertificateSecrets(part) => target \in CertificateSecrets(objs)
  BY <1>5, <1>6
<1> QED BY <1>7, <1>8

LEMMA NearCertificateRefs ==
  ASSUME NEW objs, NEW part, NEW k, NEW ns, Near(objs, part, k, ns),
         NEW p, CertificateRefAt(objs[k], p).ns = ns
  PROVE  p \in DanglingCertificateRefs(part, k) <=> p \in DanglingCertificateRefs(objs, k)
<1> DEFINE ref == CertificateRefAt(objs[k], p)
           described(set) == \E secret \in CertificateSecrets(set) : secret.ns = ref.ns
           found(set) == ObjectRef(ref.kind, ref.ns, ref.name) \in CertificateSecrets(set)
<1>1. part[k] = objs[k]
  BY DEF Near
<1>2. ASSUME NEW set \in {objs, part}
      PROVE  p \in DanglingCertificateRefs(set, k) <=>
               /\ p \in TerminatingCertificateRefs(objs[k])
               /\ ResolvableCertificateKind(ref.group, ref.kind) /\ described(set) /\ ~found(set)
  BY <1>1 DEF DanglingCertificateRefs
<1>3. ref.ns = ns
  OBVIOUS
<1> HIDE DEF ref
<1>4. described(part) <=> described(objs)
  BY <1>3, NearSecrets
<1>5. found(part) <=> found(objs)
  BY <1>3, NearSecrets DEF ObjectRef
<1> QED BY <1>2, <1>4, <1>5

LEMMA NearClasses ==
  ASSUME NEW objs, NEW part, NEW k, Near(objs, part, k, ""), NEW x
  PROVE  x \in DanglingGatewayClass(part, k) <=> x \in DanglingGatewayClass(objs, k)
<1>1. GatewayClasses(part) = GatewayClasses(objs)
  BY DEF Near, GatewayClasses
<1>2. part[k] = objs[k]
  BY DEF Near
<1>3. ASSUME NEW set \in {objs, part}
      PROVE  DanglingGatewayClass(set, k) =
               IF /\ IsGateway(objs[k]) /\ objs[k].className # "" /\ GatewayClasses(objs) # {}
                  /\ objs[k].className \notin GatewayClasses(objs)
               THEN {1} ELSE {}
  BY <1>1, <1>2 DEF DanglingGatewayClass
<1> QED BY <1>3

LEMMA NearParents ==
  ASSUME NEW objs, NEW part, NEW k, NEW ns, Near(objs, part, k, ns),
         ListenerSetParent(objs[k]).ns = ns, NEW x
  PROVE  x \in DanglingListenerSetParent(part, k) <=> x \in DanglingListenerSetParent(objs, k)
<1> DEFINE parent == ListenerSetParent(objs[k])
<1>1. \A gateway : gateway.ns = ns => (gateway \in Gateways(part) <=> gateway \in Gateways(objs))
  <2>1. \A set, gateway : gateway \in Gateways(set) <=>
          \E i \in DOMAIN set : IsGateway(set[i]) /\ gateway = RefOf(set[i])
    BY DEF Gateways
  <2>2. \A i : IsGateway(objs[i]) => objs[i].type # "GatewayClass"
    BY DEF IsGateway
  <2>3. \A i : RefOf(objs[i]).ns = objs[i].ns
    BY DEF RefOf, ObjectRef
  <2> SUFFICES ASSUME NEW gateway, gateway.ns = ns
               PROVE  gateway \in Gateways(part) <=> gateway \in Gateways(objs)
    OBVIOUS
  <2>4. ASSUME NEW i \in DOMAIN objs, IsGateway(objs[i]), gateway = RefOf(objs[i])
        PROVE  i \in DOMAIN part /\ part[i] = objs[i]
    BY <2>2, <2>3, <2>4 DEF Near
  <2>5. \A i \in DOMAIN part : i \in DOMAIN objs /\ part[i] = objs[i]
    BY DEF Near
  <2>6. gateway \in Gateways(objs) => gateway \in Gateways(part)
    BY <2>1, <2>4
  <2>7. gateway \in Gateways(part) => gateway \in Gateways(objs)
    BY <2>1, <2>5
  <2> QED BY <2>6, <2>7
<1>2. parent.ns = ns /\ part[k] = objs[k]
  BY DEF Near
<1>3. (\E gateway \in Gateways(part) : gateway.ns = parent.ns)
        <=> \E gateway \in Gateways(objs) : gateway.ns = parent.ns
  BY <1>1, <1>2
<1>4. parent \notin Gateways(part) <=> parent \notin Gateways(objs)
  BY <1>1, <1>2
<1> QED BY <1>2, <1>3, <1>4 DEF DanglingListenerSetParent

LEMMA NearGrants ==
  ASSUME NEW objs, NEW part, NEW k, NEW ns, Near(objs, part, k, ns)
  PROVE  /\ GrantsByNamespace(part, ns) = GrantsByNamespace(objs, ns)
         /\ \A i \in GrantsByNamespace(objs, ns) : part[i] = objs[i]
<1>1. \A i : IsReferenceGrant(objs[i]) => objs[i].type # "GatewayClass"
  BY DEF IsReferenceGrant
<1> QED BY <1>1 DEF Near, GrantsByNamespace

LEMMA NearReferenceGrants ==
  ASSUME NEW objs, NEW part, NEW k, NEW ns, Near(objs, part, k, ns),
         NEW b, BackendRefAt(objs[k], b).ns = ns
  PROVE  b \in MissingReferenceGrants(part, k) <=> b \in MissingReferenceGrants(objs, k)
<1> DEFINE ref == BackendRefAt(objs[k], b)
           grants == GrantsByNamespace(objs, ns)
<1>1. part[k] = objs[k] /\ ref.ns = ns
  BY DEF Near
<1>3. GrantsByNamespace(part, ns) = grants
  BY NearGrants
<1>2. Permits(part, grants, objs[k], ref) <=> Permits(objs, grants, objs[k], ref)
  BY NearGrants DEF Permits
<1> QED BY <1>1, <1>2, <1>3 DEF MissingReferenceGrants

LEMMA NearCertificateGrants ==
  ASSUME NEW objs, NEW part, NEW k, NEW ns, Near(objs, part, k, ns),
         NEW p, CertificateRefAt(objs[k], p).ns = ns
  PROVE  p \in MissingCertificateGrants(part, k) <=> p \in MissingCertificateGrants(objs, k)
<1> DEFINE ref == CertificateRefAt(objs[k], p)
<1>1. part[k] = objs[k] /\ ref.ns = ns
  BY DEF Near
<1>2. \A set : ns \in DescribedNamespaces(set) <=>
               \/ \E secret \in CertificateSecrets(set) : secret.ns = ns
               \/ GrantsByNamespace(set, ns) # {}
  BY DEF DescribedNamespaces, GrantsByNamespace, IsReferenceGrant
<1>3. ns \in DescribedNamespaces(part) <=> ns \in DescribedNamespaces(objs)
  BY <1>2, NearSecrets, NearGrants
<1> HIDE DEF ref
<1>4. \A set : Permitted(set, objs[k], ref) <=>
        \E g \in GrantsByNamespace(set, ns) :
          GrantAllowsFrom(set[g], objs[k]) /\ GrantAllowsTo(set[g], ref)
  BY <1>1 DEF Permitted, GrantsByNamespace, IsReferenceGrant
<1>5. Permitted(part, objs[k], ref) <=> Permitted(objs, objs[k], ref)
  BY <1>4, NearGrants
<1> QED BY <1>1, <1>3, <1>5 DEF MissingCertificateGrants, ref

LEMMA NearReports ==
  ASSUME NEW objs, NEW part, NEW k, NEW ns, Near(objs, part, k, ns),
         NEW check \in Names, NEW x
  PROVE  LET into(set) == x \in Reports(check, set, k) /\ Target(set, check, k, x).ns = ns
         IN  into(part) <=> into(objs)
<1>1. Target(part, check, k, x) = Target(objs, check, k, x)
  BY DEF Near, Target
<1>2. ASSUME Target(objs, check, k, x).ns = ns
      PROVE  x \in Reports(check, part, k) <=> x \in Reports(check, objs, k)
  <2>1. CASE check = "dangling-backend-ref"
    BY <1>2, <2>1, NearBackendRefs DEF Target, Reports
  <2>2. CASE check = "dangling-certificate-ref"
    BY <1>2, <2>2, NearCertificateRefs DEF Target, Reports
  <2>3. CASE check = "dangling-gateway-class"
    BY <1>2, <2>3, NearClasses DEF Target, Reports
  <2>4. CASE check = "dangling-listener-set-parent"
    BY <1>2, <2>4, NearParents DEF Target, Reports
  <2>5. CASE check = "missing-reference-grant"
    BY <1>2, <2>5, NearReferenceGrants DEF Target, Reports
  <2>6. CASE check = "missing-certificate-grant"
    BY <1>2, <2>6, NearCertificateGrants DEF Target, Reports
  <2> QED BY <2>1, <2>2, <2>3, <2>4, <2>5, <2>6 DEF Names, DanglingChecks, GrantChecks
<1> QED BY <1>1, <1>2

(* What is said of a reference is decided by the object that makes it and the
   objects of the namespace it leads into, for every manifest set. *)
THEOREM VerdictsAreLocal == Spec => []VerdictIsLocal
<1>1. IInv => VerdictIsLocal
  <2> SUFFICES ASSUME IInv, phase = "done", NEW k \in DOMAIN objects, NEW ns
               PROVE  LET near == {i \in DOMAIN objects : i = k \/ LivesIn(objects[i], ns)} IN
                      ReportsInto([i \in near |-> objects[i]], k, ns) =
                        {<<f[1], f[3]>> : f \in {g \in findings :
                           g[2] = k /\ Target(objects, g[1], k, g[3]).ns = ns}}
    BY DEF VerdictIsLocal
  <2> DEFINE near == {i \in DOMAIN objects : i = k \/ LivesIn(objects[i], ns)}
             part == [i \in near |-> objects[i]]
             here == {g \in findings : g[2] = k /\ Target(objects, g[1], k, g[3]).ns = ns}
  <2>1. Near(objects, part, k, ns)
    BY DEF Near, LivesIn
  <2> HIDE DEF part
  <2>2. ASSUME NEW r
        PROVE  r \in ReportsInto(part, k, ns) <=>
                 \E check \in Enabled \cap Names : \E x \in Reports(check, part, k) :
                   Target(part, check, k, x).ns = ns /\ r = <<check, x>>
    BY DEF ReportsInto, Names
  <2>3. ASSUME NEW r
        PROVE  r \in {<<f[1], f[3]>> : f \in here} <=>
                 \E check \in Enabled \cap Names : \E x \in Reports(check, objects, k) :
                   Target(objects, check, k, x).ns = ns /\ r = <<check, x>>
    <3>1. ASSUME NEW f \in here, r = <<f[1], f[3]>>
          PROVE  \E check \in Enabled \cap Names : \E x \in Reports(check, objects, k) :
                   Target(objects, check, k, x).ns = ns /\ r = <<check, x>>
      <4>1. f[1] \in Names /\ f[2] = k /\ f[3] \in Reports(f[1], objects, k)
        BY FindingIsDue
      <4>2. f[1] \in Enabled
        BY DEF IInv, LoopInv, TypeOK
      <4> QED BY <3>1, <4>1, <4>2
    <3>2. ASSUME NEW check \in Enabled \cap Names, NEW x \in Reports(check, objects, k),
                 Target(objects, check, k, x).ns = ns, r = <<check, x>>
          PROVE  r \in {<<f[1], f[3]>> : f \in here}
      <4> DEFINE f == <<check, k, x>>
      <4>1. f \in findings
        BY DueIff, FinishedRun
      <4>2. f \in here /\ r = <<f[1], f[3]>>
        BY <3>2, <4>1
      <4> QED BY <4>2
    <3> QED BY <3>1, <3>2
  <2>4. \A check \in Enabled \cap Names : \A x :
          (x \in Reports(check, part, k) /\ Target(part, check, k, x).ns = ns) <=>
            (x \in Reports(check, objects, k) /\ Target(objects, check, k, x).ns = ns)
    BY <2>1, NearReports
  <2>5. ReportsInto(part, k, ns) = {<<f[1], f[3]>> : f \in here}
    <3>1. \A r : r \in ReportsInto(part, k, ns) <=> r \in {<<f[1], f[3]>> : f \in here}
      BY <2>2, <2>3, <2>4
    <3> HIDE DEF here
    <3>2. \A r : r \in ReportsInto(part, k, ns) => r \in {<<f[1], f[3]>> : f \in here}
      BY <3>1
    <3> QED BY <3>1, Zenon DEF ReportsInto
  <2> QED BY <2>5 DEF part
<1> QED BY <1>1, Invariance, PTL

=============================================================================
