-------------------------- MODULE PoliciesProofs --------------------------
(***************************************************************************)
(* What the policy checks report is right for every manifest set and every *)
(* choice of enabled checks: safety of Policies, for all values of its     *)
(* constants.                                                              *)
(***************************************************************************)
EXTENDS Policies, EngineProofs, FiniteSetTheorems, SequenceTheorems

(* What a check function returns of the k-th object of the loaded set. *)
Returns(check, k) ==
  CASE check = "backend-without-endpoints" ->
         IF IsBackend(objects[k]) /\ WithoutEndpoints(objects[k]) THEN {1} ELSE {}
    [] check = "conflicting-policies" ->
         IF IsPolicy(objects[k]) THEN Conflicts(objects, k) ELSE {}
    [] check = "dangling-policy-target" ->
         IF IsPolicy(objects[k]) THEN DanglingTargets(objects, k) ELSE {}
    [] check = "fqdn-backend-cold-start" ->
         IF IsPolicy(objects[k]) THEN ColdStarts(objects, k) ELSE {}
    [] check = "health-check-without-failover" ->
         IF IsPolicy(objects[k]) THEN WithoutFailover(objects, k) ELSE {}
    [] check = "retry-without-budget" ->
         IF IsPolicy(objects[k]) /\ RetryWithoutBudget(objects[k]) THEN {1} ELSE {}

Names ==
  {"backend-without-endpoints", "conflicting-policies", "dangling-policy-target",
   "fqdn-backend-cold-start", "health-check-without-failover", "retry-without-budget"}

Due ==
  UNION {UNION {{<<check, k, x>> : x \in Returns(check, k)} : k \in DOMAIN objects} :
           check \in Names}

(* Inductive: what has been recorded is exactly what is due so far. *)
IInv == LoopInv /\ findings = DueSoFar(Due)

-----------------------------------------------------------------------------
LEMMA DueIff ==
  /\ \A check, k, x :
       <<check, k, x>> \in Due <=>
         check \in Names /\ k \in DOMAIN objects /\ x \in Returns(check, k)
  /\ \A f \in Due : f = <<f[1], f[2], f[3]>> /\ f[2] \in DOMAIN objects
  BY DEF Due

LEMMA JudgePreserves ==
  ASSUME IInv, NEW check \in Names, NEW applies, NEW refs, Judge(check, applies, refs),
         \A x : x \in Returns(check, at[1]) <=> applies /\ x \in refs
  PROVE  IInv'
<1>1. at[1] \in DOMAIN objects /\ objects' = objects
  BY DEF Judge
<1>2. \A x : <<check, at[1], x>> \in Due <=> applies /\ x \in refs
  BY <1>1, DueIff
<1>3. LoopInv /\ findings = DueSoFar(Due)
  BY DEF IInv
<1>4. findings' = {f \in Due : Called(f[1], f[2])'}
  BY <1>1, <1>2, <1>3, DueIff, JudgeRecords
<1>5. Due' = Due
  BY <1>1 DEF Due, Returns
<1>6. DueSoFar(Due)' = {f \in Due' : Called(f[1], f[2])'}
  BY DEF DueSoFar
<1>7. LoopInv'
  BY <1>3, JudgeLoop
<1> QED BY <1>4, <1>5, <1>6, <1>7 DEF IInv

LEMMA LoadPreserves == ASSUME IInv, Load PROVE IInv'
<1>1. LoopInv /\ LoopInv'
  BY LoadLoop DEF IInv
<1>2. \A f \in Due' : f[2] \in DOMAIN objects'
  BY DEF Due
<1>3. findings' = {f \in Due' : Called(f[1], f[2])'}
  BY <1>1, <1>2, LoadRecords
<1>4. DueSoFar(Due)' = {f \in Due' : Called(f[1], f[2])'}
  BY DEF DueSoFar
<1> QED BY <1>1, <1>3, <1>4 DEF IInv

LEMMA Invariance == Spec => []IInv
<1>1. Init => IInv
  <2> SUFFICES ASSUME Init PROVE IInv
    OBVIOUS
  <2>1. LoopInv
    BY InitLoop
  <2>2. Due = {} /\ findings = {}
    BY DEF Init, Due
  <2> QED BY <2>1, <2>2 DEF IInv, DueSoFar
<1>2. IInv /\ [Next]_vars => IInv'
  <2> SUFFICES ASSUME IInv, [Next]_vars PROVE IInv'
    OBVIOUS
  <2>1. CASE Load
    BY <2>1, LoadPreserves
  <2>2. CASE JudgeBackendWithoutEndpoints
    <3>1. Judge("backend-without-endpoints",
                IsBackend(objects[at[1]]) /\ WithoutEndpoints(objects[at[1]]), {1})
      BY <2>2 DEF JudgeBackendWithoutEndpoints, Current
    <3>2. \A x : x \in Returns("backend-without-endpoints", at[1]) <=>
                   (IsBackend(objects[at[1]]) /\ WithoutEndpoints(objects[at[1]])) /\ x \in {1}
      BY DEF Returns
    <3> QED BY <3>1, <3>2, JudgePreserves DEF Names
  <2>3. CASE JudgeConflictingPolicies
    BY <2>3, JudgePreserves DEF JudgeConflictingPolicies, JudgePolicy, Current, Returns, Names
  <2>4. CASE JudgeDanglingPolicyTarget
    BY <2>4, JudgePreserves DEF JudgeDanglingPolicyTarget, JudgePolicy, Current, Returns, Names
  <2>5. CASE JudgeColdStart
    BY <2>5, JudgePreserves DEF JudgeColdStart, JudgePolicy, Current, Returns, Names
  <2>6. CASE JudgeWithoutFailover
    BY <2>6, JudgePreserves DEF JudgeWithoutFailover, JudgePolicy, Current, Returns, Names
  <2>7. CASE JudgeRetryWithoutBudget
    <3>1. Judge("retry-without-budget", IsPolicy(objects[at[1]]),
                IF RetryWithoutBudget(objects[at[1]]) THEN {1} ELSE {})
      BY <2>7 DEF JudgeRetryWithoutBudget, JudgePolicy, Current
    <3>2. \A x : x \in Returns("retry-without-budget", at[1]) <=>
                   IsPolicy(objects[at[1]])
                     /\ x \in IF RetryWithoutBudget(objects[at[1]]) THEN {1} ELSE {}
      BY DEF Returns
    <3> QED BY <3>1, <3>2, JudgePreserves DEF Names
  <2>8. CASE Finish
    <3>1. LoopInv'
      BY <2>8, FinishLoop DEF IInv
    <3> QED BY <2>8, <3>1 DEF Finish, IInv, DueSoFar, Due, Returns, Called
  <2>9. CASE UNCHANGED vars
    <3>1. LoopInv'
      BY <2>9, StutterLoop DEF IInv
    <3> QED BY <2>9, <3>1 DEF vars, IInv, DueSoFar, Due, Returns, Called
  <2> QED BY <2>1, <2>2, <2>3, <2>4, <2>5, <2>6, <2>7, <2>8, <2>9 DEF Next
<1> QED BY <1>1, <1>2, PTL DEF Spec

(* A finished run has reported exactly what the enabled check functions return of
   every object. *)
LEMMA FinishedRun ==
  ASSUME IInv, phase = "done", NEW check \in Names, check \in Enabled,
         NEW k \in DOMAIN objects, NEW x
  PROVE  <<check, k, x>> \in findings <=> x \in Returns(check, k)
<1>1. PICK c \in DOMAIN Checks : Checks[c] = check
  BY DEF Enabled
<1>2. Called(check, k)
  BY <1>1, AllCalled DEF IInv
<1>3. <<check, k, x>> \in findings <=> <<check, k, x>> \in Due
  BY <1>2 DEF IInv, DueSoFar
<1> QED BY <1>3, DueIff

LEMMA PolicyLoaded ==
  ASSUME IInv, NEW p \in PoliciesIn(objects)
  PROVE  /\ objects \in ManifestSets
         /\ p \in DOMAIN objects /\ IsPolicy(objects[p])
         /\ \A i, j \in DOMAIN objects : RefOf(objects[i]) = RefOf(objects[j]) => i = j
<1>1. p \in DOMAIN objects /\ IsPolicy(objects[p])
  BY DEF PoliciesIn
<1>2. objects # <<>>
  BY <1>1
<1>3. objects \in ManifestSets
  BY <1>2 DEF IInv, LoopInv, TypeOK
<1> QED BY <1>1, <1>3, IdentityAssumption

-----------------------------------------------------------------------------
(* The routes below a Gateway. *)

LEMMA AttachedIff ==
  ASSUME NEW objs, NEW gateway, NEW listener, NEW v
  PROVE  LET direct == RoutesAttachedToParent(objs, gateway, listener)
             sets == ListenerSetsBelongingTo(objs, gateway)
             under(j) == RoutesAttachedToParent(objs, RefOf(objs[j]), Absent)
         IN
         v \in RoutesAttachedToGateway(objs, gateway, listener) <=>
           \/ \E k \in direct : v = <<0, k>>
           \/ \E j \in sets : \E k \in under(j) :
                /\ v = <<j, k>>
                /\ k \notin direct
                /\ \A i \in sets : i < j => k \notin under(i)
<1> DEFINE direct == RoutesAttachedToParent(objs, gateway, listener)
           sets == ListenerSetsBelongingTo(objs, gateway)
           under(j) == RoutesAttachedToParent(objs, RefOf(objs[j]), Absent)
           seen(j) == direct \cup UNION {under(i) : i \in {s \in sets : s < j}}
           own == {<<0, k>> : k \in direct}
           of(j) == {<<j, k>> : k \in under(j) \ seen(j)}
<1>1. RoutesAttachedToGateway(objs, gateway, listener) = own \cup UNION {of(j) : j \in sets}
  BY DEF RoutesAttachedToGateway
<1> HIDE DEF direct, sets, under
<1>2. v \in own <=> \E k \in direct : v = <<0, k>>
  OBVIOUS
<1>3. \A j, k : k \notin seen(j) <=> k \notin direct /\ \A i \in sets : i < j => k \notin under(i)
  OBVIOUS
<1> HIDE DEF seen
<1>4. \A j : v \in of(j) <=> \E k \in under(j) : v = <<j, k>> /\ k \notin seen(j)
  OBVIOUS
<1> HIDE DEF own, of
<1>5. v \in UNION {of(j) : j \in sets} <=> \E j \in sets : v \in of(j)
  OBVIOUS
<1>6. v \in RoutesAttachedToGateway(objs, gateway, listener) <=>
        \/ \E k \in direct : v = <<0, k>>
        \/ \E j \in sets : \E k \in under(j) :
             /\ v = <<j, k>>
             /\ k \notin direct
             /\ \A i \in sets : i < j => k \notin under(i)
  BY <1>1, <1>2, <1>3, <1>4, <1>5
<1> QED BY <1>6 DEF direct, sets, under

(* Skipping the routes already seen loses none. *)
LEMMA BelowGateway ==
  ASSUME NEW objs, DOMAIN objs \subseteq Nat, NEW gateway, NEW listener, NEW k
  PROVE  (\E v \in RoutesAttachedToGateway(objs, gateway, listener) : v[2] = k) <=>
           \/ k \in RoutesAttachedToParent(objs, gateway, listener)
           \/ \E j \in ListenerSetsBelongingTo(objs, gateway) :
                k \in RoutesAttachedToParent(objs, RefOf(objs[j]), Absent)
<1> DEFINE direct == RoutesAttachedToParent(objs, gateway, listener)
           sets == ListenerSetsBelongingTo(objs, gateway)
           under(j) == RoutesAttachedToParent(objs, RefOf(objs[j]), Absent)
           attached == RoutesAttachedToGateway(objs, gateway, listener)
<1>1. \A v : v \in attached <=>
        \/ \E n \in direct : v = <<0, n>>
        \/ \E j \in sets : \E n \in under(j) :
             v = <<j, n>> /\ n \notin direct /\ \A i \in sets : i < j => n \notin under(i)
  BY AttachedIff
<1>2. sets \subseteq Nat
  BY DEF ListenerSetsBelongingTo
<1> HIDE DEF direct, sets, under, attached
<1>3. ASSUME NEW v \in attached, v[2] = k
      PROVE  k \in direct \/ \E j \in sets : k \in under(j)
  BY <1>1, <1>3
<1>4. ASSUME k \in direct
      PROVE  \E v \in attached : v[2] = k
  <2>1. <<0, k>> \in attached /\ <<0, k>>[2] = k
    BY <1>1, <1>4
  <2> QED BY <2>1
<1>5. ASSUME k \notin direct, NEW m \in sets, k \in under(m)
      PROVE  \E v \in attached : v[2] = k
  <2> DEFINE T == {j \in sets : k \in under(j)}
  <2>1. T \in SUBSET Nat /\ T # {}
    BY <1>2, <1>5
  <2>2. PICK j \in T : \A i \in T : ~(i < j)
    BY <2>1, Least
  <2>3. <<j, k>> \in attached /\ <<j, k>>[2] = k
    BY <1>1, <1>5, <2>2
  <2> QED BY <2>3
<1>6. (\E v \in attached : v[2] = k) <=> k \in direct \/ \E j \in sets : k \in under(j)
  BY <1>3, <1>4, <1>5
<1> QED BY <1>6 DEF direct, sets, under, attached

(* Each is reached in one way. *)
LEMMA OneWayDown ==
  ASSUME NEW objs, DOMAIN objs \subseteq Nat, NEW gateway, NEW listener,
         NEW v \in RoutesAttachedToGateway(objs, gateway, listener),
         NEW w \in RoutesAttachedToGateway(objs, gateway, listener),
         v[2] = w[2]
  PROVE  v = w
<1> DEFINE direct == RoutesAttachedToParent(objs, gateway, listener)
           sets == ListenerSetsBelongingTo(objs, gateway)
           under(j) == RoutesAttachedToParent(objs, RefOf(objs[j]), Absent)
           entry(x) == \/ \E n \in direct : x = <<0, n>>
                       \/ \E j \in sets : \E n \in under(j) :
                            /\ x = <<j, n>> /\ n \notin direct
                            /\ \A i \in sets : i < j => n \notin under(i)
<1>1. entry(v) /\ entry(w)
  BY AttachedIff
<1>2. sets \subseteq Nat
  BY DEF ListenerSetsBelongingTo
<1> HIDE DEF direct, sets, under
<1>3. \A i, j \in sets : i < j \/ j < i \/ i = j
  BY <1>2
<1> QED BY <1>1, <1>3

-----------------------------------------------------------------------------
(* What a policy covers. *)

LEMMA ByGateway ==
  ASSUME NEW objs, DOMAIN objs \subseteq Nat, NEW ns, NEW target, target.kind = "Gateway", NEW k
  PROVE  LET named == ObjectRef(target.kind, ns, target.name) IN
         (\E v \in RoutesTargetedBy(objs, ns, target) : v[2] = k) <=>
           \/ k \in RoutesAttachedToParent(objs, named, target.section)
           \/ \E j \in ListenerSetsBelongingTo(objs, named) :
                k \in RoutesAttachedToParent(objs, RefOf(objs[j]), Absent)
<1> DEFINE named == ObjectRef(target.kind, ns, target.name)
<1>1. RoutesTargetedBy(objs, ns, target) = RoutesAttachedToGateway(objs, named, target.section)
  BY DEF RoutesTargetedBy
<1> HIDE DEF named
<1>2. (\E v \in RoutesAttachedToGateway(objs, named, target.section) : v[2] = k) <=>
        \/ k \in RoutesAttachedToParent(objs, named, target.section)
        \/ \E j \in ListenerSetsBelongingTo(objs, named) :
             k \in RoutesAttachedToParent(objs, RefOf(objs[j]), Absent)
  BY BelowGateway
<1> QED BY <1>1, <1>2 DEF named

LEMMA NoVia ==
  ASSUME NEW S, NEW k
  PROVE  (\E v \in {0} \X S : v[2] = k) <=> k \in S
<1>1. ASSUME k \in S PROVE \E v \in {0} \X S : v[2] = k
  <2>1. <<0, k>> \in {0} \X S /\ <<0, k>>[2] = k
    BY <1>1
  <2> QED BY <2>1
<1> QED BY <1>1

(* How a target leads to a route, whatever it comes in by. *)
LeadsTo(objs, ns, target, k) ==
  LET named == ObjectRef(target.kind, ns, target.name) IN
  \/ IsParentKind(target.kind) /\ k \in RoutesAttachedToParent(objs, named, target.section)
  \/ /\ target.kind = "Gateway"
     /\ \E s \in ListenerSetsBelongingTo(objs, named) :
          k \in RoutesAttachedToParent(objs, RefOf(objs[s]), Absent)
  \/ ~IsParentKind(target.kind) /\ k \in RoutesIn(objs) /\ RefOf(objs[k]) = named

LEMMA TargetedIff ==
  ASSUME NEW objs, DOMAIN objs \subseteq Nat,
         \A i, j \in DOMAIN objs : RefOf(objs[i]) = RefOf(objs[j]) => i = j,
         NEW ns, NEW target, NEW k
  PROVE  (\E v \in RoutesTargetedBy(objs, ns, target) : v[2] = k) <=> LeadsTo(objs, ns, target, k)
<1> DEFINE named == ObjectRef(target.kind, ns, target.name)
<1>1. CASE target.kind = "Gateway"
  <2>1. (\E v \in RoutesTargetedBy(objs, ns, target) : v[2] = k) <=>
          \/ k \in RoutesAttachedToParent(objs, named, target.section)
          \/ \E j \in ListenerSetsBelongingTo(objs, named) :
               k \in RoutesAttachedToParent(objs, RefOf(objs[j]), Absent)
    BY <1>1, ByGateway
  <2> HIDE DEF named
  <2> QED BY <1>1, <2>1 DEF IsParentKind, LeadsTo, named
<1>2. CASE target.kind = "ListenerSet"
  <2>1. RoutesTargetedBy(objs, ns, target) =
          {0} \X RoutesAttachedToParent(objs, named, target.section)
    BY <1>2 DEF RoutesTargetedBy
  <2> HIDE DEF named
  <2>2. (\E v \in RoutesTargetedBy(objs, ns, target) : v[2] = k) <=>
          k \in RoutesAttachedToParent(objs, named, target.section)
    BY <2>1, NoVia
  <2> QED BY <1>2, <2>2 DEF IsParentKind, LeadsTo, named
<1>3. CASE target.kind \notin {"Gateway", "ListenerSet"}
  <2> DEFINE isNamed == {n \in RoutesIn(objs) : RefOf(objs[n]) = named}
  <2>1. RoutesTargetedBy(objs, ns, target) = {0} \X FirstOf(isNamed)
    BY <1>3 DEF RoutesTargetedBy
  <2>2. FirstOf(isNamed) = isNamed
    <3>1. \A m, n \in isNamed : m = n /\ n \in Nat
      BY DEF RoutesIn
    <3> HIDE DEF isNamed
    <3> QED BY <3>1 DEF FirstOf
  <2>3. (\E v \in RoutesTargetedBy(objs, ns, target) : v[2] = k) <=> k \in isNamed
    <3> HIDE DEF isNamed
    <3> QED BY <2>1, <2>2, NoVia
  <2>4. LeadsTo(objs, ns, target, k) <=> k \in isNamed
    BY <1>3 DEF IsParentKind, LeadsTo
  <2> QED BY <2>3, <2>4
<1> QED BY <1>1, <1>2, <1>3

LEMMA ByName ==
  ASSUME NEW objs, DOMAIN objs \subseteq Nat,
         \A i, j \in DOMAIN objs : RefOf(objs[i]) = RefOf(objs[j]) => i = j,
         NEW ns, NEW target, ~IsParentKind(target.kind), NEW k \in RoutesIn(objs)
  PROVE  (\E v \in RoutesTargetedBy(objs, ns, target) : v[2] = k)
           <=> RefOf(objs[k]) = ObjectRef(target.kind, ns, target.name)
<1>1. target.kind # "Gateway"
  BY DEF IsParentKind
<1>2. (\E v \in RoutesTargetedBy(objs, ns, target) : v[2] = k) <=> LeadsTo(objs, ns, target, k)
  BY TargetedIff
<1> QED BY <1>1, <1>2 DEF LeadsTo

LEMMA ByParent ==
  ASSUME NEW objs, DOMAIN objs \subseteq Nat,
         \A i, j \in DOMAIN objs : RefOf(objs[i]) = RefOf(objs[j]) => i = j,
         NEW ns, NEW target, IsParentKind(target.kind), NEW k
  PROVE  LET named == ObjectRef(target.kind, ns, target.name) IN
         (\E v \in RoutesTargetedBy(objs, ns, target) : v[2] = k) <=>
           \/ /\ IsParentKind(target.kind)
              /\ k \in RoutesAttachedToParent(objs, named, target.section)
           \/ /\ target.kind = "Gateway"
              /\ \E j \in ListenerSetsBelongingTo(objs, named) :
                   k \in RoutesAttachedToParent(objs, RefOf(objs[j]), Absent)
<1>1. (\E v \in RoutesTargetedBy(objs, ns, target) : v[2] = k) <=> LeadsTo(objs, ns, target, k)
  BY TargetedIff
<1> QED BY <1>1 DEF LeadsTo

(* A target leads to a route in one way. *)
LEMMA TargetedOnce ==
  ASSUME NEW objs, DOMAIN objs \subseteq Nat, NEW ns, NEW target,
         NEW v \in RoutesTargetedBy(objs, ns, target),
         NEW w \in RoutesTargetedBy(objs, ns, target),
         v[2] = w[2]
  PROVE  v = w
<1> DEFINE named == ObjectRef(target.kind, ns, target.name)
<1>1. CASE target.kind = "Gateway"
  <2>1. RoutesTargetedBy(objs, ns, target) = RoutesAttachedToGateway(objs, named, target.section)
    BY <1>1 DEF RoutesTargetedBy
  <2> HIDE DEF named
  <2> QED BY <2>1, OneWayDown
<1>2. CASE target.kind # "Gateway"
  <2>1. \E S : RoutesTargetedBy(objs, ns, target) = {0} \X S
    BY <1>2 DEF RoutesTargetedBy
  <2> QED BY <2>1
<1> QED BY <1>1, <1>2

LEMMA TargetList ==
  ASSUME objects \in ManifestSets, NEW p \in PoliciesIn(objects)
  PROVE  LET targets == PolicyTargets(objects[p]) IN
         Len(targets) \in Nat /\ DOMAIN targets = 1..Len(targets)
<1> DEFINE policy == objects[p]
           T == {policy.targetRefs[t] : t \in DOMAIN policy.targetRefs} \cup {policy.targetRef}
           first == IF policy.targetRef = Absent THEN <<>> ELSE <<policy.targetRef>>
<1>1. policy.targetRefs \in Seq({policy.targetRefs[t] : t \in DOMAIN policy.targetRefs})
  BY ListsAssumption DEF PoliciesIn
<1>2. policy.targetRefs \in Seq(T)
  BY <1>1
<1>3. first \in Seq(T)
  <2>1. policy.targetRef \in T
    OBVIOUS
  <2> HIDE DEF T
  <2> QED BY <2>1
<1> HIDE DEF T, first
<1>4. first \o policy.targetRefs \in Seq(T)
  BY <1>2, <1>3
<1>5. PolicyTargets(policy) = first \o policy.targetRefs
  BY DEF PolicyTargets, first
<1> QED BY <1>4, <1>5

(* The records Coverage consists of. *)
CoveredBy(policy, t, v) ==
  LET target == PolicyTargets(policy)[t] IN
  [target |-> t, via |-> v[1], route |-> v[2], inherited |-> IsParentKind(target.kind),
   section |-> IF IsParentKind(target.kind) THEN Absent ELSE target.section]

SelectedBy(policy, n, k) ==
  [target |-> Len(PolicyTargets(policy)) + n, via |-> 0, route |-> k, inherited |-> FALSE,
   section |-> Absent]

LEMMA CoverageIff ==
  ASSUME NEW objs, NEW policy, NEW c
  PROVE  c \in Coverage(objs, policy) <=>
           \/ \E t \in DOMAIN PolicyTargets(policy) :
              \E v \in RoutesTargetedBy(objs, policy.ns, PolicyTargets(policy)[t]) :
                c = CoveredBy(policy, t, v)
           \/ \E n \in DOMAIN policy.selectors :
              \E k \in RoutesSelectedBy(objs, policy.ns, policy.selectors[n]) :
                c = SelectedBy(policy, n, k)
<1> DEFINE targets == PolicyTargets(policy)
           covered(t) ==
             {CoveredBy(policy, t, v) : v \in RoutesTargetedBy(objs, policy.ns, targets[t])}
           selected(n) ==
             {SelectedBy(policy, n, k) :
                k \in RoutesSelectedBy(objs, policy.ns, policy.selectors[n])}
<1>1. Coverage(objs, policy) =
        (UNION {covered(t) : t \in DOMAIN targets})
          \cup UNION {selected(n) : n \in DOMAIN policy.selectors}
  BY DEF Coverage, CoveredBy, SelectedBy
<1> HIDE DEF targets
<1>2. \A t : c \in covered(t) <=>
        \E v \in RoutesTargetedBy(objs, policy.ns, targets[t]) : c = CoveredBy(policy, t, v)
  OBVIOUS
<1>3. \A n : c \in selected(n) <=>
        \E k \in RoutesSelectedBy(objs, policy.ns, policy.selectors[n]) :
          c = SelectedBy(policy, n, k)
  OBVIOUS
<1> HIDE DEF covered, selected
<1>4. c \in Coverage(objs, policy) <=>
        \/ \E t \in DOMAIN targets : c \in covered(t)
        \/ \E n \in DOMAIN policy.selectors : c \in selected(n)
  BY <1>1
<1> QED BY <1>2, <1>3, <1>4 DEF targets

(* Every target or selector covers a route at most once. *)
LEMMA CoveredOnce ==
  ASSUME IInv, NEW p \in PoliciesIn(objects),
         NEW c \in Coverage(objects, objects[p]), NEW d \in Coverage(objects, objects[p]),
         c.target = d.target, c.route = d.route
  PROVE  c = d
<1> DEFINE policy == objects[p]
           targets == PolicyTargets(policy)
           named(x) == \E t \in DOMAIN targets :
                       \E v \in RoutesTargetedBy(objects, policy.ns, targets[t]) :
                         x = CoveredBy(policy, t, v)
           selected(x) == \E n \in DOMAIN policy.selectors :
                          \E k \in RoutesSelectedBy(objects, policy.ns, policy.selectors[n]) :
                            x = SelectedBy(policy, n, k)
<1>1. (named(c) \/ selected(c)) /\ (named(d) \/ selected(d))
  BY CoverageIff
<1>2. Len(targets) \in Nat /\ DOMAIN targets = 1..Len(targets)
  BY PolicyLoaded, TargetList
<1>3. DOMAIN policy.selectors \subseteq Nat \ {0}
  BY PolicyLoaded, ListsAssumption
<1>4. DOMAIN objects \subseteq Nat
  BY LoadedSet DEF IInv
<1>5. /\ \A t, v : CoveredBy(policy, t, v).target = t /\ CoveredBy(policy, t, v).route = v[2]
      /\ \A n, k : SelectedBy(policy, n, k).target = Len(targets) + n
                     /\ SelectedBy(policy, n, k).route = k
  BY DEF CoveredBy, SelectedBy
<1> HIDE DEF targets, policy
<1>6. ASSUME named(c), named(d) PROVE c = d
  BY <1>4, <1>5, <1>6, TargetedOnce
<1>7. ASSUME selected(c), selected(d) PROVE c = d
  <2>1. PICK n \in DOMAIN policy.selectors : \E k : c = SelectedBy(policy, n, k)
    BY <1>7
  <2>2. PICK m \in DOMAIN policy.selectors : \E k : d = SelectedBy(policy, m, k)
    BY <1>7
  <2>3. Len(targets) + n = Len(targets) + m
    BY <1>5, <2>1, <2>2
  <2>4. n = m
    BY <1>2, <1>3, <2>3
  <2> QED BY <1>5, <2>1, <2>2, <2>4
<1>8. ASSUME NEW x, NEW y, named(x), selected(y) PROVE x.target # y.target
  <2>1. x.target \in 1..Len(targets)
    BY <1>2, <1>5, <1>8
  <2>2. PICK n \in Nat \ {0} : y.target = Len(targets) + n
    BY <1>3, <1>5, <1>8
  <2> QED BY <1>2, <2>1, <2>2
<1> QED BY <1>1, <1>6, <1>7, <1>8

-----------------------------------------------------------------------------
(* Coverage read off the policy against coverage read off the route. *)

LEMMA TargetingIff ==
  ASSUME NEW p, NEW kind, NEW name, NEW ns, NEW t \in DOMAIN PolicyTargets(objects[p])
  PROVE  t \in Targeting(p, kind, name, ns) <=>
           LET target == PolicyTargets(objects[p])[t] IN
           ObjectRef(target.kind, objects[p].ns, target.name) = ObjectRef(kind, ns, name)
  BY DEF Targeting, ObjectRef

(* The policy applies to the route without the detour over a parent. *)
LEMMA DirectScope ==
  ASSUME IInv, NEW p \in PoliciesIn(objects), NEW k \in RoutesIn(objects), NEW scope
  PROVE  (\E c \in Coverage(objects, objects[p]) :
            ~c.inherited /\ c.route = k /\ c.section = scope)
           <=> scope \in NamedScopes(p, k)
<1> DEFINE policy == objects[p]
           targets == PolicyTargets(policy)
           cov == Coverage(objects, policy)
           fits(c) == ~c.inherited /\ c.route = k /\ c.section = scope
           named(t) == ObjectRef(targets[t].kind, policy.ns, targets[t].name)
           byTarget == \E t \in DOMAIN targets :
                         named(t) = RefOf(objects[k]) /\ targets[t].section = scope
           bySelector == scope = Absent /\ \E n \in DOMAIN policy.selectors :
                           k \in RoutesSelectedBy(objects, policy.ns, policy.selectors[n])
<1>1. k \in DOMAIN objects /\ objects[k].type \in RouteKinds /\ ~IsParentKind(objects[k].type)
  BY DEF RoutesIn, IsRoute, IsParentKind, RouteKinds
<1>2. /\ DOMAIN objects \subseteq Nat
      /\ \A i, j \in DOMAIN objects : RefOf(objects[i]) = RefOf(objects[j]) => i = j
  BY LoadedSet, PolicyLoaded DEF IInv
<1>3. \A t : named(t) = RefOf(objects[k]) => ~IsParentKind(targets[t].kind)
  BY <1>1 DEF ObjectRef, RefOf
<1>4. \A t : ~IsParentKind(targets[t].kind) =>
        ((\E v \in RoutesTargetedBy(objects, policy.ns, targets[t]) : v[2] = k)
           <=> RefOf(objects[k]) = named(t))
  BY <1>2, ByName
<1>5. scope \in NamedScopes(p, k) <=> byTarget \/ bySelector
  <2>1. (\E t \in Targeting(p, objects[k].type, objects[k].name, objects[k].ns) :
           targets[t].section = scope) <=> byTarget
    <3>1. Targeting(p, objects[k].type, objects[k].name, objects[k].ns) \subseteq DOMAIN targets
      BY DEF Targeting
    <3> QED BY <3>1, TargetingIff DEF RefOf
  <2> HIDE DEF byTarget, bySelector
  <2> QED BY <2>1 DEF NamedScopes, bySelector
<1>6. \A t, v : /\ CoveredBy(policy, t, v).route = v[2]
                /\ CoveredBy(policy, t, v).inherited <=> IsParentKind(targets[t].kind)
                /\ ~IsParentKind(targets[t].kind) =>
                     CoveredBy(policy, t, v).section = targets[t].section
  BY DEF CoveredBy
<1>7. \A n, m : /\ SelectedBy(policy, n, m).route = m
                /\ ~SelectedBy(policy, n, m).inherited
                /\ SelectedBy(policy, n, m).section = Absent
  BY DEF SelectedBy
<1>8. \A c : c \in cov <=>
        \/ \E t \in DOMAIN targets :
           \E v \in RoutesTargetedBy(objects, policy.ns, targets[t]) : c = CoveredBy(policy, t, v)
        \/ \E n \in DOMAIN policy.selectors :
           \E m \in RoutesSelectedBy(objects, policy.ns, policy.selectors[n]) :
             c = SelectedBy(policy, n, m)
  BY CoverageIff
<1> HIDE DEF targets, policy, cov, named
<1>9. ASSUME NEW c \in cov, fits(c) PROVE byTarget \/ bySelector
  <2>1. CASE \E t \in DOMAIN targets :
             \E v \in RoutesTargetedBy(objects, policy.ns, targets[t]) : c = CoveredBy(policy, t, v)
    <3>1. PICK t \in DOMAIN targets :
          \E v \in RoutesTargetedBy(objects, policy.ns, targets[t]) : c = CoveredBy(policy, t, v)
      BY <2>1
    <3>2. PICK v \in RoutesTargetedBy(objects, policy.ns, targets[t]) : c = CoveredBy(policy, t, v)
      BY <3>1
    <3>3. ~IsParentKind(targets[t].kind) /\ v[2] = k /\ targets[t].section = scope
      BY <1>6, <1>9, <3>2
    <3> QED BY <1>4, <3>3
  <2>2. CASE \E n \in DOMAIN policy.selectors :
             \E m \in RoutesSelectedBy(objects, policy.ns, policy.selectors[n]) :
               c = SelectedBy(policy, n, m)
    BY <1>7, <1>9, <2>2
  <2> QED BY <1>8, <2>1, <2>2
<1>10. ASSUME byTarget PROVE \E c \in cov : fits(c)
  <2>1. PICK t \in DOMAIN targets :
          named(t) = RefOf(objects[k]) /\ targets[t].section = scope
    BY <1>10
  <2>2. PICK v \in RoutesTargetedBy(objects, policy.ns, targets[t]) : v[2] = k
    BY <1>3, <1>4, <2>1
  <2>3. CoveredBy(policy, t, v) \in cov /\ fits(CoveredBy(policy, t, v))
    BY <1>3, <1>6, <1>8, <2>1, <2>2
  <2> QED BY <2>3
<1>11. ASSUME bySelector PROVE \E c \in cov : fits(c)
  <2>1. PICK n \in DOMAIN policy.selectors :
          k \in RoutesSelectedBy(objects, policy.ns, policy.selectors[n])
    BY <1>11
  <2>2. SelectedBy(policy, n, k) \in cov /\ fits(SelectedBy(policy, n, k))
    BY <1>7, <1>8, <1>11, <2>1
  <2> QED BY <2>2
<1>12. (\E c \in cov : fits(c)) <=> scope \in NamedScopes(p, k)
  BY <1>5, <1>9, <1>10, <1>11
<1> QED BY <1>12 DEF cov, policy

LEMMA DirectCoverage ==
  ASSUME IInv, NEW p \in PoliciesIn(objects), NEW k \in RoutesIn(objects), NEW rule
  PROVE  (\E c \in Coverage(objects, objects[p]) :
            ~c.inherited /\ c.route = k /\ SectionCoversRule(c.section, rule))
           <=> NamesRule(p, k, rule)
<1>1. \A section : SectionCoversRule(section, rule) <=> section \in {Absent, rule}
  BY DEF SectionCoversRule
<1>2. \A scope : (\E c \in Coverage(objects, objects[p]) :
                     ~c.inherited /\ c.route = k /\ c.section = scope)
                    <=> scope \in NamedScopes(p, k)
  BY DirectScope
<1> QED BY <1>1, <1>2 DEF NamesRule

LEMMA UnderIff ==
  ASSUME NEW objs, NEW owner, NEW listener, NEW k \in RoutesIn(objs)
  PROVE  k \in RoutesAttachedToParent(objs, owner, listener) <=>
           \E r \in DOMAIN objs[k].parentRefs :
             LET parent == ParentOf(objs[k], r) IN
             /\ parent.group = GroupName /\ OwnerOf(parent) = owner
             /\ listener = Absent \/ parent.section = Absent \/ parent.section = listener
  BY DEF RoutesAttachedToParent, ParentMatches, CoversListener

LEMMA SetsBelow ==
  ASSUME NEW gateway, NEW j \in DOMAIN objects
  PROVE  j \in ListenerSetsBelongingTo(objects, gateway) <=>
           /\ objects[j].type = "ListenerSet" /\ OwnsListeners(objects[j])
           /\ objects[j].parent.group \in {Absent, GroupName}
           /\ objects[j].parent.kind \in {Absent, "Gateway"}
           /\ ListenerSetParent(objects[j]) = gateway
  BY DEF ListenerSetsBelongingTo, OwnsListeners

(* Which targets name the Gateway a ListenerSet belongs to. *)
LEMMA TargetsGateway ==
  ASSUME NEW p, NEW j
  PROVE  LET gateway == ListenerSetParent(objects[j])
             targets == PolicyTargets(objects[p])
         IN
         Targeting(p, "Gateway", gateway.name, gateway.ns) # {} <=>
           \E t \in DOMAIN targets :
             ObjectRef(targets[t].kind, objects[p].ns, targets[t].name) = gateway
<1> DEFINE gateway == ListenerSetParent(objects[j])
           targets == PolicyTargets(objects[p])
           named(t) == ObjectRef(targets[t].kind, objects[p].ns, targets[t].name)
           targeting == Targeting(p, "Gateway", gateway.name, gateway.ns)
<1>1. gateway = ObjectRef("Gateway", gateway.ns, gateway.name)
  BY DEF ListenerSetParent, ObjectRef
<1>2. \A t \in DOMAIN targets : t \in targeting <=> named(t) = gateway
  <2> HIDE DEF gateway
  <2> QED BY <1>1, TargetingIff
<1>3. targeting \subseteq DOMAIN targets
  BY DEF Targeting
<1> HIDE DEF targeting, gateway
<1>4. targeting # {} <=> \E t \in DOMAIN targets : named(t) = gateway
  BY <1>2, <1>3
<1> QED BY <1>4 DEF targeting, gateway

LEMMA ReachesIff ==
  ASSUME NEW p, NEW k \in RoutesIn(objects)
  PROVE  LET targets == PolicyTargets(objects[p])
             named(t) == ObjectRef(targets[t].kind, objects[p].ns, targets[t].name)
         IN
         ReachesFromAbove(p, k) <=>
           \E t \in DOMAIN targets :
             \/ /\ IsParentKind(targets[t].kind)
                /\ k \in RoutesAttachedToParent(objects, named(t), targets[t].section)
             \/ /\ targets[t].kind = "Gateway"
                /\ \E j \in ListenerSetsBelongingTo(objects, named(t)) :
                     k \in RoutesAttachedToParent(objects, RefOf(objects[j]), Absent)
<1> DEFINE targets == PolicyTargets(objects[p])
           named(t) == ObjectRef(targets[t].kind, objects[p].ns, targets[t].name)
           refs == DOMAIN objects[k].parentRefs
           parent(r) == ParentOf(objects[k], r)
           below(j) == /\ objects[j].type = "ListenerSet" /\ OwnsListeners(objects[j])
                       /\ objects[j].parent.group \in {Absent, GroupName}
                       /\ objects[j].parent.kind \in {Absent, "Gateway"}
           through(t, r) == /\ IsParentKind(targets[t].kind)
                            /\ named(t) = OwnerOf(parent(r))
                            /\ \/ targets[t].section = Absent \/ parent(r).section = Absent
                               \/ parent(r).section = targets[t].section
           via(t, r, j) == /\ below(j) /\ RefOf(objects[j]) = OwnerOf(parent(r))
                           /\ named(t) = ListenerSetParent(objects[j])
<1>1. ReachesFromAbove(p, k) <=>
        \E r \in refs :
          /\ parent(r).group = GroupName
          /\ \/ \E t \in DOMAIN targets : through(t, r)
             \/ \E j \in DOMAIN objects : \E t \in DOMAIN targets : via(t, r, j)
  <2> DEFINE targeting(r) == Targeting(p, parent(r).kind, parent(r).name, parent(r).ns)
             fits(t, r) == \/ Absent \in {targets[t].section, parent(r).section}
                           \/ targets[t].section = parent(r).section
             up(j) == ListenerSetParent(objects[j])
  <2>1. ReachesFromAbove(p, k) <=>
          \E r \in refs :
            /\ parent(r).group = GroupName
            /\ \/ IsParentKind(parent(r).kind) /\ \E t \in targeting(r) : fits(t, r)
               \/ \E j \in DOMAIN objects :
                    /\ below(j) /\ RefOf(objects[j]) = OwnerOf(parent(r))
                    /\ Targeting(p, "Gateway", up(j).name, up(j).ns) # {}
    BY DEF ReachesFromAbove
  <2>2. ASSUME NEW r \in refs
        PROVE  /\ IsParentKind(parent(r).kind) /\ (\E t \in targeting(r) : fits(t, r))
                    <=> \E t \in DOMAIN targets : through(t, r)
               /\ \A j : Targeting(p, "Gateway", up(j).name, up(j).ns) # {}
                    <=> \E t \in DOMAIN targets : named(t) = up(j)
    <3>1. \A t : named(t) = OwnerOf(parent(r)) => targets[t].kind = parent(r).kind
      <4> HIDE DEF parent
      <4> QED BY DEF OwnerOf, ObjectRef
    <3>2. \A j : Targeting(p, "Gateway", up(j).name, up(j).ns) # {}
                    <=> \E t \in DOMAIN targets : named(t) = up(j)
      BY TargetsGateway
    <3> HIDE DEF parent, up
    <3>3. targeting(r) \subseteq DOMAIN targets
      BY DEF Targeting
    <3>4. \A t \in DOMAIN targets : t \in targeting(r) <=> named(t) = OwnerOf(parent(r))
      BY TargetingIff DEF OwnerOf
    <3> HIDE DEF targeting, named, targets
    <3> QED BY <3>1, <3>2, <3>3, <3>4
  <2> HIDE DEF targeting, fits, up, named, parent, targets, refs, below
  <2>3. \A r \in refs : \A j :
          (/\ below(j) /\ RefOf(objects[j]) = OwnerOf(parent(r))
           /\ Targeting(p, "Gateway", up(j).name, up(j).ns) # {})
            <=> \E t \in DOMAIN targets : via(t, r, j)
    BY <2>2 DEF up
  <2> HIDE DEF through, via
  <2> QED BY <2>1, <2>2, <2>3
<1>2. ASSUME NEW t \in DOMAIN targets
      PROVE  IsParentKind(targets[t].kind)
               /\ k \in RoutesAttachedToParent(objects, named(t), targets[t].section)
               <=> \E r \in refs : parent(r).group = GroupName /\ through(t, r)
  <2>1. k \in RoutesAttachedToParent(objects, named(t), targets[t].section) <=>
          \E r \in refs :
            /\ parent(r).group = GroupName /\ OwnerOf(parent(r)) = named(t)
            /\ \/ targets[t].section = Absent \/ parent(r).section = Absent
               \/ parent(r).section = targets[t].section
    BY UnderIff
  <2> HIDE DEF refs, parent, named, targets
  <2> QED BY <2>1
<1>3. ASSUME NEW t \in DOMAIN targets
      PROVE  targets[t].kind = "Gateway"
               /\ (\E j \in ListenerSetsBelongingTo(objects, named(t)) :
                     k \in RoutesAttachedToParent(objects, RefOf(objects[j]), Absent))
               <=> \E r \in refs : parent(r).group = GroupName
                     /\ \E j \in DOMAIN objects : via(t, r, j)
  <2>1. \A j : k \in RoutesAttachedToParent(objects, RefOf(objects[j]), Absent) <=>
          \E r \in refs : parent(r).group = GroupName /\ OwnerOf(parent(r)) = RefOf(objects[j])
    BY UnderIff
  <2>2. \A j \in DOMAIN objects :
          j \in ListenerSetsBelongingTo(objects, named(t))
            <=> below(j) /\ named(t) = ListenerSetParent(objects[j])
    BY SetsBelow
  <2>3. ListenerSetsBelongingTo(objects, named(t)) \subseteq DOMAIN objects
    BY DEF ListenerSetsBelongingTo
  <2>4. \A j : named(t) = ListenerSetParent(objects[j]) => targets[t].kind = "Gateway"
    BY DEF ListenerSetParent, ObjectRef
  <2> HIDE DEF refs, parent, named, targets, below
  <2> QED BY <2>1, <2>2, <2>3, <2>4
<1> HIDE DEF refs, parent, through, via
<1>4. ReachesFromAbove(p, k) <=>
        \E t \in DOMAIN targets :
          \/ \E r \in refs : parent(r).group = GroupName /\ through(t, r)
          \/ \E r \in refs : parent(r).group = GroupName /\ \E j \in DOMAIN objects : via(t, r, j)
  BY <1>1
<1> HIDE DEF named
<1>5. ReachesFromAbove(p, k) <=>
        \E t \in DOMAIN targets :
          \/ /\ IsParentKind(targets[t].kind)
             /\ k \in RoutesAttachedToParent(objects, named(t), targets[t].section)
          \/ /\ targets[t].kind = "Gateway"
             /\ \E j \in ListenerSetsBelongingTo(objects, named(t)) :
                  k \in RoutesAttachedToParent(objects, RefOf(objects[j]), Absent)
  BY <1>2, <1>3, <1>4
<1> QED BY <1>5 DEF named

(* The policy applies to the route through a Gateway or ListenerSet. *)
LEMMA CoverageFromAbove ==
  ASSUME IInv, NEW p \in PoliciesIn(objects), NEW k \in RoutesIn(objects)
  PROVE  /\ (\E c \in Coverage(objects, objects[p]) : c.inherited /\ c.route = k)
              <=> ReachesFromAbove(p, k)
         /\ \A c \in Coverage(objects, objects[p]) : c.inherited => c.section = Absent
<1> DEFINE policy == objects[p]
           targets == PolicyTargets(policy)
           cov == Coverage(objects, policy)
           named(t) == ObjectRef(targets[t].kind, policy.ns, targets[t].name)
           from(t) ==
             \/ /\ IsParentKind(targets[t].kind)
                /\ k \in RoutesAttachedToParent(objects, named(t), targets[t].section)
             \/ /\ targets[t].kind = "Gateway"
                /\ \E j \in ListenerSetsBelongingTo(objects, named(t)) :
                     k \in RoutesAttachedToParent(objects, RefOf(objects[j]), Absent)
           leads(t) == \E v \in RoutesTargetedBy(objects, policy.ns, targets[t]) : v[2] = k
<1>1. /\ DOMAIN objects \subseteq Nat
      /\ \A i, j \in DOMAIN objects : RefOf(objects[i]) = RefOf(objects[j]) => i = j
  BY LoadedSet, PolicyLoaded DEF IInv
<1>2. ReachesFromAbove(p, k) <=> \E t \in DOMAIN targets : from(t)
  BY ReachesIff
<1>3. \A t : IsParentKind(targets[t].kind) => (leads(t) <=> from(t))
  BY <1>1, ByParent
<1>4. \A t : from(t) => IsParentKind(targets[t].kind)
  BY DEF IsParentKind
<1>5. \A t, v : /\ CoveredBy(policy, t, v).route = v[2]
                /\ CoveredBy(policy, t, v).inherited <=> IsParentKind(targets[t].kind)
                /\ IsParentKind(targets[t].kind) => CoveredBy(policy, t, v).section = Absent
  BY DEF CoveredBy
<1>6. \A n, m : ~SelectedBy(policy, n, m).inherited
  BY DEF SelectedBy
<1>7. \A c : c \in cov <=>
        \/ \E t \in DOMAIN targets :
           \E v \in RoutesTargetedBy(objects, policy.ns, targets[t]) : c = CoveredBy(policy, t, v)
        \/ \E n \in DOMAIN policy.selectors :
           \E m \in RoutesSelectedBy(objects, policy.ns, policy.selectors[n]) :
             c = SelectedBy(policy, n, m)
  BY CoverageIff
<1> HIDE DEF targets, policy, cov, named, from
<1>8. ASSUME NEW c \in cov, c.inherited
      PROVE  c.section = Absent /\ (c.route = k => \E t \in DOMAIN targets : from(t))
  <2>1. PICK t \in DOMAIN targets :
        \E v \in RoutesTargetedBy(objects, policy.ns, targets[t]) : c = CoveredBy(policy, t, v)
    BY <1>6, <1>7, <1>8
  <2>2. PICK v \in RoutesTargetedBy(objects, policy.ns, targets[t]) : c = CoveredBy(policy, t, v)
    BY <2>1
  <2>3. IsParentKind(targets[t].kind) /\ c.section = Absent /\ (c.route = k => leads(t))
    BY <1>5, <1>8, <2>2
  <2> QED BY <1>3, <2>3
<1>9. ASSUME NEW t \in DOMAIN targets, from(t)
      PROVE  \E c \in cov : c.inherited /\ c.route = k
  <2>1. PICK v \in RoutesTargetedBy(objects, policy.ns, targets[t]) : v[2] = k
    BY <1>3, <1>4, <1>9
  <2>2. CoveredBy(policy, t, v) \in cov
    BY <1>7
  <2>3. CoveredBy(policy, t, v).inherited /\ CoveredBy(policy, t, v).route = k
    BY <1>4, <1>5, <1>9, <2>1
  <2> QED BY <2>2, <2>3
<1>10. /\ (\E c \in cov : c.inherited /\ c.route = k) <=> ReachesFromAbove(p, k)
       /\ \A c \in cov : c.inherited => c.section = Absent
  BY <1>2, <1>8, <1>9
<1> QED BY <1>10 DEF cov, policy

LEMMA RoutesCovered ==
  ASSUME NEW objs, NEW policy, NEW c \in Coverage(objs, policy)
  PROVE  c.route \in RoutesIn(objs)
<1>1. \A target : \A v \in RoutesTargetedBy(objs, policy.ns, target) : v[2] \in RoutesIn(objs)
  <2> SUFFICES ASSUME NEW target, NEW v \in RoutesTargetedBy(objs, policy.ns, target)
               PROVE  v[2] \in RoutesIn(objs)
    OBVIOUS
  <2> DEFINE named == ObjectRef(target.kind, policy.ns, target.name)
  <2>1. \A owner, listener : RoutesAttachedToParent(objs, owner, listener) \subseteq RoutesIn(objs)
    BY DEF RoutesAttachedToParent
  <2>2. CASE target.kind = "Gateway"
    <3>1. v \in RoutesAttachedToGateway(objs, named, target.section)
      BY <2>2 DEF RoutesTargetedBy
    <3>2. \/ \E k \in RoutesAttachedToParent(objs, named, target.section) : v = <<0, k>>
          \/ \E j : \E k \in RoutesAttachedToParent(objs, RefOf(objs[j]), Absent) : v = <<j, k>>
      <4> HIDE DEF named
      <4> QED BY <3>1, AttachedIff
    <3> QED BY <2>1, <3>2
  <2>3. CASE target.kind = "ListenerSet"
    BY <2>1, <2>3 DEF RoutesTargetedBy
  <2>4. CASE target.kind \notin {"Gateway", "ListenerSet"}
    BY <2>4 DEF RoutesTargetedBy, FirstOf
  <2> QED BY <2>2, <2>3, <2>4
<1>2. \A sel : RoutesSelectedBy(objs, policy.ns, sel) \subseteq RoutesIn(objs)
  BY DEF RoutesSelectedBy
<1>3. /\ \A t, v : CoveredBy(policy, t, v).route = v[2]
      /\ \A n, m : SelectedBy(policy, n, m).route = m
  BY DEF CoveredBy, SelectedBy
<1> QED BY <1>1, <1>2, <1>3, CoverageIff

-----------------------------------------------------------------------------
(* fqdn-backend-cold-start. *)

(* What ColdStarts asks of one element of the coverage and one backendRef. *)
StartsCold(objs, p, c, b) ==
  LET ref == objs[c.route].backendRefs[b] IN
  /\ ~objs[p].healthCheck
  /\ c \in Coverage(objs, objs[p])
  /\ b \in DOMAIN objs[c.route].backendRefs
  /\ SectionCoversRule(c.section, ref.rule)
  /\ ~(c.inherited /\ IsOverridden(objs, c.route, ref.rule, p))
  /\ IsEnvoyGatewayBackendRef(ref)
  /\ \E backend \in BackendsOf(objs, c.route, ref) : FqdnHostnames(backend) # {}

LEMMA ColdStartsIff ==
  ASSUME NEW objs, NEW p
  PROVE  /\ \A c, b : <<c, b>> \in ColdStarts(objs, p) <=> StartsCold(objs, p, c, b)
         /\ \A x \in ColdStarts(objs, p) :
              /\ x = <<x[1], x[2]>>
              /\ x[1] \in Coverage(objs, objs[p])
<1> DEFINE cov == Coverage(objs, objs[p])
           reported(c) ==
             {b \in DOMAIN objs[c.route].backendRefs :
                LET ref == objs[c.route].backendRefs[b] IN
                /\ SectionCoversRule(c.section, ref.rule)
                /\ IsEnvoyGatewayBackendRef(ref)
                /\ ~(c.inherited /\ IsOverridden(objs, c.route, ref.rule, p))
                /\ \E backend \in BackendsOf(objs, c.route, ref) : FqdnHostnames(backend) # {}}
           cold == UNION {{<<c, b>> : b \in reported(c)} : c \in cov}
<1>1. ColdStarts(objs, p) = IF objs[p].healthCheck THEN {} ELSE cold
  BY DEF ColdStarts, ColdStartCoverage
<1>2. \A c, b : StartsCold(objs, p, c, b) <=> ~objs[p].healthCheck /\ c \in cov /\ b \in reported(c)
  BY DEF StartsCold
<1> HIDE DEF cov, reported
<1>3. \A c, b : <<c, b>> \in cold <=> c \in cov /\ b \in reported(c)
  OBVIOUS
<1>4. \A x \in cold : x = <<x[1], x[2]>> /\ x[1] \in cov
  OBVIOUS
<1> QED BY <1>1, <1>2, <1>3, <1>4 DEF cov

LEMMA SameRoute ==
  ASSUME IInv, NEW q \in PoliciesIn(objects), NEW c \in Coverage(objects, objects[q]),
         NEW k \in RoutesIn(objects)
  PROVE  RefOf(objects[c.route]) = RefOf(objects[k]) <=> c.route = k
<1>1. c.route \in DOMAIN objects /\ k \in DOMAIN objects
  BY RoutesCovered DEF RoutesIn
<1> QED BY <1>1, PolicyLoaded

LEMMA OverriddenIff ==
  ASSUME IInv, NEW p, NEW k \in RoutesIn(objects), NEW rule
  PROVE  IsOverridden(objects, k, rule, p) <=>
           \E q \in PoliciesIn(objects) \ {p} : objects[q].healthCheck /\ NamesRule(q, k, rule)
<1>1. \A q \in PoliciesIn(objects) :
        (\E c \in Coverage(objects, objects[q]) :
           /\ ~c.inherited
           /\ RefOf(objects[c.route]) = RefOf(objects[k])
           /\ SectionCoversRule(c.section, rule))
          <=> NamesRule(q, k, rule)
  BY SameRoute, DirectCoverage
<1> QED BY <1>1 DEF IsOverridden, ColdStartCoverage

LEMMA ColdStartReportedIff ==
  ASSUME IInv, phase = "done", "fqdn-backend-cold-start" \in Enabled, NEW k, NEW b
  PROVE  ColdStartReported(k, b) <=>
           \E p \in PoliciesIn(objects) : \E c : c.route = k /\ StartsCold(objects, p, c, b)
<1> DEFINE check == "fqdn-backend-cold-start"
<1>1. \A p \in PoliciesIn(objects) : \A c :
        <<check, p, <<c, b>>>> \in findings <=> StartsCold(objects, p, c, b)
  <2> SUFFICES ASSUME NEW p \in PoliciesIn(objects), NEW c
               PROVE  <<check, p, <<c, b>>>> \in findings <=> StartsCold(objects, p, c, b)
    OBVIOUS
  <2>1. p \in DOMAIN objects /\ IsPolicy(objects[p])
    BY DEF PoliciesIn
  <2>2. Returns(check, p) = ColdStarts(objects, p)
    BY <2>1 DEF Returns
  <2>3. check \in Names
    BY DEF Names
  <2> QED BY <2>1, <2>2, <2>3, FinishedRun, ColdStartsIff
<1>2. ASSUME NEW f \in findings, f[1] = check
      PROVE  /\ f[2] \in PoliciesIn(objects)
             /\ f = <<check, f[2], <<f[3][1], f[3][2]>>>>
  <2>1. f \in Due
    BY <1>2 DEF IInv, DueSoFar
  <2>2. f = <<f[1], f[2], f[3]>> /\ f[2] \in DOMAIN objects
    BY <2>1, DueIff
  <2>3. f[3] \in Returns(check, f[2])
    BY <1>2, <2>1, <2>2, DueIff
  <2>4. IsPolicy(objects[f[2]]) /\ f[3] \in ColdStarts(objects, f[2])
    BY <2>3 DEF Returns
  <2>5. f[3] = <<f[3][1], f[3][2]>>
    BY <2>4, ColdStartsIff
  <2> QED BY <1>2, <2>2, <2>4, <2>5 DEF PoliciesIn
<1>3. ASSUME NEW f \in findings, f[1] = check, f[3][1].route = k, f[3][2] = b
      PROVE  \E p \in PoliciesIn(objects) : \E c : c.route = k /\ StartsCold(objects, p, c, b)
  <2>1. f[2] \in PoliciesIn(objects) /\ <<check, f[2], <<f[3][1], b>>>> \in findings
    BY <1>2, <1>3
  <2> QED BY <1>1, <1>3, <2>1
<1>4. ASSUME NEW p \in PoliciesIn(objects), NEW c, c.route = k, StartsCold(objects, p, c, b)
      PROVE  ColdStartReported(k, b)
  <2> DEFINE f == <<check, p, <<c, b>>>>
  <2>1. f \in findings /\ f[1] = check /\ f[3][1].route = k /\ f[3][2] = b
    BY <1>1, <1>4
  <2> HIDE DEF f
  <2> QED BY <2>1 DEF ColdStartReported
<1> QED BY <1>3, <1>4 DEF ColdStartReported

(* A policy without a health check starts a backendRef cold exactly if it is
   in effect for the rule, or displaced by such policies only. *)
LEMMA StartsColdIff ==
  ASSUME IInv, NEW p \in PoliciesIn(objects), NEW k \in RoutesIn(objects),
         NEW b \in DOMAIN objects[k].backendRefs, NEW rule, rule = RuleOf(k, b)
  PROVE  (\E c : c.route = k /\ StartsCold(objects, p, c, b)) <=>
           /\ ~objects[p].healthCheck
           /\ \E backend \in EnvoyBackends(k, b) : FqdnHostnames(backend) # {}
           /\ \/ NamesRule(p, k, rule)
              \/ /\ ReachesFromAbove(p, k)
                 /\ ~\E q \in PoliciesIn(objects) \ {p} :
                       objects[q].healthCheck /\ NamesRule(q, k, rule)
<1> DEFINE cov == Coverage(objects, objects[p])
           overridden == IsOverridden(objects, k, rule, p)
           fqdn == \E backend \in EnvoyBackends(k, b) : FqdnHostnames(backend) # {}
           covers(c) == SectionCoversRule(c.section, rule)
<1>1. \A c : c.route = k /\ StartsCold(objects, p, c, b) <=>
        /\ ~objects[p].healthCheck /\ fqdn
        /\ c.route = k /\ c \in cov /\ covers(c) /\ ~(c.inherited /\ overridden)
  BY DEF StartsCold, RuleOf, EnvoyBackends
<1>2. (\E c \in cov : ~c.inherited /\ c.route = k /\ covers(c)) <=> NamesRule(p, k, rule)
  BY DirectCoverage
<1>3. (\E c \in cov : c.inherited /\ c.route = k) <=> ReachesFromAbove(p, k)
  BY CoverageFromAbove
<1>4. \A c \in cov : c.inherited => covers(c)
  BY CoverageFromAbove DEF SectionCoversRule
<1>5. overridden <=>
        \E q \in PoliciesIn(objects) \ {p} : objects[q].healthCheck /\ NamesRule(q, k, rule)
  BY OverriddenIff
<1> HIDE DEF cov, overridden, fqdn, covers
<1>6. (\E c : c.route = k /\ StartsCold(objects, p, c, b)) <=>
        /\ ~objects[p].healthCheck /\ fqdn
        /\ \/ NamesRule(p, k, rule)
           \/ ReachesFromAbove(p, k) /\ ~overridden
  BY <1>1, <1>2, <1>3, <1>4
<1> QED BY <1>5, <1>6 DEF fqdn

(* A backendRef is reported cold exactly when a policy without a health check is
   in effect for its rule and an FQDN resolves it. *)
THEOREM ColdStartsExact == Spec => []ColdStartExact
<1>1. IInv => ColdStartExact
  <2> SUFFICES ASSUME IInv, phase = "done", "fqdn-backend-cold-start" \in Enabled,
                      NEW ref \in LoadedBackendRefs
               PROVE  ColdStartReported(ref[1], ref[2]) <=>
                        /\ \E backend \in EnvoyBackends(ref[1], ref[2]) :
                             FqdnHostnames(backend) # {}
                        /\ \E p \in InEffect(ref[1], RuleOf(ref[1], ref[2])) :
                             ~objects[p].healthCheck
    BY DEF ColdStartExact
  <2>1. PICK k \in RoutesIn(objects) : ref \in {<<k, b>> : b \in DOMAIN objects[k].backendRefs}
    BY DEF LoadedBackendRefs
  <2>2. PICK b \in DOMAIN objects[k].backendRefs : ref = <<k, b>>
    BY <2>1
  <2> DEFINE rule == RuleOf(k, b)
             fqdn == \E backend \in EnvoyBackends(k, b) : FqdnHostnames(backend) # {}
             pols == PoliciesIn(objects)
             hc(p) == objects[p].healthCheck
             names(p) == NamesRule(p, k, rule)
             above(p) == ReachesFromAbove(p, k)
  <2>3. ColdStartReported(k, b) <=>
          \E p \in pols : \E c : c.route = k /\ StartsCold(objects, p, c, b)
    BY ColdStartReportedIff
  <2>4. \A p \in pols : (\E c : c.route = k /\ StartsCold(objects, p, c, b)) <=>
          /\ ~hc(p) /\ fqdn
          /\ names(p) \/ (above(p) /\ ~\E q \in pols \ {p} : hc(q) /\ names(q))
    BY StartsColdIff
  <2>5. \A p : p \in InEffect(k, rule) <=>
          /\ p \in pols
          /\ names(p) \/ (above(p) /\ ~\E q \in pols : names(q))
    <3> DEFINE direct == {p \in pols : names(p)}
    <3>1. InEffect(k, rule) = IF direct # {} THEN direct ELSE {p \in pols : above(p)}
      BY DEF InEffect
    <3> HIDE DEF names, above, pols
    <3> QED BY <3>1
  <2> HIDE DEF rule, fqdn, pols, hc, names, above
  <2>6. ColdStartReported(k, b) <=> fqdn /\ \E p \in InEffect(k, rule) : ~hc(p)
    BY <2>3, <2>4, <2>5
  <2> QED BY <2>2, <2>6 DEF fqdn, rule, hc
<1> QED BY <1>1, Invariance, PTL

(* However many ways lead from a target of a policy to a route, every gap there
   is reported once. *)
THEOREM GapsReportedOnce == Spec => []GapReportedOnce
<1> DEFINE check == "fqdn-backend-cold-start"
<1>1. ASSUME IInv, NEW f \in findings, f[1] = check
      PROVE  /\ f = <<check, f[2], <<f[3][1], f[3][2]>>>>
             /\ f[2] \in PoliciesIn(objects)
             /\ f[3][1] \in Coverage(objects, objects[f[2]])
  <2>1. f \in Due
    BY <1>1 DEF IInv, DueSoFar
  <2>2. f = <<f[1], f[2], f[3]>> /\ f[2] \in DOMAIN objects
    BY <2>1, DueIff
  <2>3. f[3] \in Returns(check, f[2])
    BY <1>1, <2>1, <2>2, DueIff
  <2>4. IsPolicy(objects[f[2]]) /\ f[3] \in ColdStarts(objects, f[2])
    BY <2>3 DEF Returns
  <2>5. f[3] = <<f[3][1], f[3][2]>> /\ f[3][1] \in Coverage(objects, objects[f[2]])
    BY <2>4, ColdStartsIff
  <2> QED BY <1>1, <2>2, <2>4, <2>5 DEF PoliciesIn
<1>2. ASSUME IInv, NEW f \in findings, NEW g \in findings,
             f[1] = check, g[1] = check, f[2] = g[2],
             f[3][1].target = g[3][1].target, f[3][1].route = g[3][1].route,
             f[3][2] = g[3][2]
      PROVE  f = g
  <2>1. f[3][1] = g[3][1]
    BY <1>1, <1>2, CoveredOnce
  <2> QED BY <1>1, <1>2, <2>1
<1>3. IInv => GapReportedOnce
  BY <1>2 DEF GapReportedOnce
<1> QED BY <1>3, Invariance, PTL

-----------------------------------------------------------------------------
(* health-check-without-failover, where it meets fqdn-backend-cold-start. *)

LEMMA OnlyBackendRef ==
  ASSUME objects \in ManifestSets, NEW k \in RoutesIn(objects), NEW b \in DOMAIN objects[k].backendRefs,
         Len(objects[k].backendRefs) = 1
  PROVE  DOMAIN objects[k].backendRefs = {b}
<1> DEFINE refs == objects[k].backendRefs
<1>1. refs \in Seq({refs[n] : n \in DOMAIN refs})
  BY ListsAssumption DEF RoutesIn
<1>2. DOMAIN refs = 1..1
  BY <1>1
<1> QED BY <1>2

(* A policy in effect for the rule covers it, and nothing displaces it. *)
LEMMA InEffectCovers ==
  ASSUME IInv, NEW k \in RoutesIn(objects), NEW rule, NEW p \in InEffect(k, rule)
  PROVE  /\ p \in PoliciesIn(objects)
         /\ \E c \in Coverage(objects, objects[p]) :
              /\ c.route = k /\ SectionCoversRule(c.section, rule)
              /\ ~(c.inherited /\ MoreSpecificPolicyCovers(objects, k, Absent, p))
<1> DEFINE pols == PoliciesIn(objects)
           direct == {q \in pols : NamesRule(q, k, rule)}
<1>1. InEffect(k, rule) = IF direct # {} THEN direct ELSE {q \in pols : ReachesFromAbove(q, k)}
  BY DEF InEffect
<1>2. CASE NamesRule(p, k, rule) /\ p \in pols
  BY <1>2, DirectCoverage
<1>3. CASE direct = {} /\ p \in pols /\ ReachesFromAbove(p, k)
  <2>1. PICK c \in Coverage(objects, objects[p]) : c.inherited /\ c.route = k
    BY <1>3, CoverageFromAbove
  <2>2. SectionCoversRule(c.section, rule)
    BY <1>3, <2>1, CoverageFromAbove DEF SectionCoversRule
  <2>3. ~MoreSpecificPolicyCovers(objects, k, Absent, p)
    <3> SUFFICES ASSUME NEW q \in pols, NEW d \in Coverage(objects, objects[q]),
                        ~d.inherited, RefOf(objects[d.route]) = RefOf(objects[k]),
                        SectionCoversRule(d.section, Absent)
                 PROVE  FALSE
      BY DEF MoreSpecificPolicyCovers
    <3>1. d.route = k
      BY SameRoute
    <3>2. SectionCoversRule(d.section, rule)
      BY DEF SectionCoversRule
    <3>3. NamesRule(q, k, rule)
      BY <3>1, <3>2, DirectCoverage
    <3> QED BY <1>3, <3>3
  <2> QED BY <1>3, <2>1, <2>2, <2>3
<1> QED BY <1>1, <1>2, <1>3

LEMMA SoleEndpointFound ==
  ASSUME objects \in ManifestSets, NEW k \in RoutesIn(objects),
         NEW b \in DOMAIN objects[k].backendRefs, Len(objects[k].backendRefs) = 1,
         NEW backend \in EnvoyBackends(k, b),
         BackendType(backend) = "Endpoints", Len(backend.endpoints) = 1,
         NEW c, c.route = k, SectionCoversRule(c.section, RuleOf(k, b))
  PROVE  SoleEndpoint(objects, c)
<1>1. BackendRefsCovered(objects, c) = {b}
  BY OnlyBackendRef DEF BackendRefsCovered, RuleOf
<1>2. Cardinality(BackendRefsCovered(objects, c)) = 1
  BY <1>1, FS_Singleton
<1>3. backend.backendType # "DynamicResolver"
  BY AbsentAssumption DEF BackendType, Default
<1>4. IsEnvoyGatewayBackendRef(objects[k].backendRefs[b])
        /\ backend \in BackendsOf(objects, k, objects[k].backendRefs[b])
  BY DEF EnvoyBackends
<1> QED BY <1>1, <1>2, <1>3, <1>4 DEF SoleEndpoint

(* A route whose only destination is one FQDN endpoint is judged by one of the two
   health checks as soon as a policy is in effect for it. *)
THEOREM SingleEndpointsJudged == Spec => []SingleEndpointJudged
<1>1. IInv => SingleEndpointJudged
  <2> SUFFICES ASSUME IInv, phase = "done",
                      {"fqdn-backend-cold-start", "health-check-without-failover"} \subseteq Enabled,
                      NEW ref \in LoadedBackendRefs,
                      Len(objects[ref[1]].backendRefs) = 1,
                      NEW backend \in EnvoyBackends(ref[1], ref[2]),
                      BackendType(backend) = "Endpoints",
                      Len(backend.endpoints) = 1, FqdnHostnames(backend) # {},
                      NEW p \in InEffect(ref[1], RuleOf(ref[1], ref[2])),
                      ~ColdStartReported(ref[1], ref[2])
               PROVE  \E f \in findings :
                        f[1] = "health-check-without-failover" /\ f[3].route = ref[1]
    BY DEF SingleEndpointJudged
  <2>1. PICK k \in RoutesIn(objects) : ref \in {<<k, b>> : b \in DOMAIN objects[k].backendRefs}
    BY DEF LoadedBackendRefs
  <2>2. PICK b \in DOMAIN objects[k].backendRefs : ref = <<k, b>>
    BY <2>1
  <2>3. ref[1] = k /\ ref[2] = b
    BY <2>2
  <2>4. PICK c \in Coverage(objects, objects[p]) :
          /\ c.route = k /\ SectionCoversRule(c.section, RuleOf(k, b))
          /\ ~(c.inherited /\ MoreSpecificPolicyCovers(objects, k, Absent, p))
    BY <2>3, InEffectCovers
  <2>5. p \in PoliciesIn(objects)
    BY <2>3, InEffectCovers
  <2>6. objects[p].healthCheck
    <3> SUFFICES ASSUME ~objects[p].healthCheck PROVE ColdStartReported(k, b)
      BY <2>3
    <3>1. NamesRule(p, k, RuleOf(k, b))
            \/ /\ ReachesFromAbove(p, k)
               /\ ~\E q \in PoliciesIn(objects) \ {p} :
                     objects[q].healthCheck /\ NamesRule(q, k, RuleOf(k, b))
      BY <2>3 DEF InEffect
    <3>2. \E d : d.route = k /\ StartsCold(objects, p, d, b)
      BY <2>3, <2>5, <3>1, StartsColdIff
    <3> QED BY <2>5, <3>2, ColdStartReportedIff
  <2>7. SoleEndpoint(objects, c)
    BY <2>3, <2>4, <2>5, PolicyLoaded, SoleEndpointFound
  <2>8. c \in Returns("health-check-without-failover", p)
    BY <2>4, <2>5, <2>6, <2>7 DEF Returns, WithoutFailover, PoliciesIn
  <2> DEFINE f == <<"health-check-without-failover", p, c>>
  <2>9. f \in findings
    BY <2>5, <2>8, FinishedRun DEF Names, PoliciesIn
  <2>10. f[1] = "health-check-without-failover" /\ f[3].route = k
    BY <2>4
  <2> HIDE DEF f
  <2> QED BY <2>3, <2>9, <2>10
<1> QED BY <1>1, Invariance, PTL

(* Of a route or one of its rules, soleBackend finds one destination exactly when
   there is one. *)
LEMMA SoleEndpointIff ==
  ASSUME objects \in ManifestSets, NEW k \in RoutesIn(objects), NEW c, c.route = k
  PROVE  SoleEndpoint(objects, c) <=> OneDestination(k, c.section)
<1> DEFINE refs == objects[k].backendRefs
           covered == BackendRefsCovered(objects, c)
           single(b) == \E backend \in EnvoyBackends(k, b) :
                          BackendType(backend) # "DynamicResolver" /\ Len(backend.endpoints) = 1
<1>1. IsFiniteSet(DOMAIN refs)
  <2>1. refs \in Seq({refs[n] : n \in DOMAIN refs})
    BY ListsAssumption DEF RoutesIn
  <2> HIDE DEF refs
  <2>2. DOMAIN refs = 1..Len(refs) /\ Len(refs) \in Nat
    BY <2>1
  <2> QED BY <2>2, FS_Interval
<1>2. covered = {n \in DOMAIN refs : c.section \in {Absent, RuleOf(k, n)}}
  BY DEF BackendRefsCovered, SectionCoversRule, RuleOf
<1>3. IsFiniteSet(covered)
  BY <1>1, <1>2, FS_Subset
<1>4. Cardinality(covered) = 1 <=> \E b : covered = {b}
  BY <1>3, FS_Singleton
<1>5. \A backend : BackendType(backend) # "DynamicResolver"
                     <=> backend.backendType # "DynamicResolver"
  BY AbsentAssumption DEF BackendType, Default
<1>6. \A b : single(b) <=>
        /\ IsEnvoyGatewayBackendRef(refs[b])
        /\ \E backend \in BackendsOf(objects, k, refs[b]) :
             backend.backendType # "DynamicResolver" /\ Len(backend.endpoints) = 1
  BY <1>5 DEF EnvoyBackends
<1> HIDE DEF covered, single
<1>7. SoleEndpoint(objects, c) <=> Cardinality(covered) = 1 /\ \E b \in covered : single(b)
  BY <1>6 DEF SoleEndpoint, covered
<1>8. OneDestination(k, c.section) <=> \E b \in DOMAIN refs : covered = {b} /\ single(b)
  BY <1>2 DEF OneDestination, single
<1>9. covered \subseteq DOMAIN refs
  BY <1>2
<1> QED BY <1>4, <1>7, <1>8, <1>9

(* Another policy displaces an inherited one if it names the route as a whole. *)
LEMMA SpecificIff ==
  ASSUME IInv, NEW p, NEW k \in RoutesIn(objects)
  PROVE  MoreSpecificPolicyCovers(objects, k, Absent, p) <=>
           \E q \in PoliciesIn(objects) \ {p} : NamesRule(q, k, Absent)
<1>1. \A q \in PoliciesIn(objects) :
        (\E c \in Coverage(objects, objects[q]) :
           /\ ~c.inherited
           /\ RefOf(objects[c.route]) = RefOf(objects[k])
           /\ SectionCoversRule(c.section, Absent))
          <=> NamesRule(q, k, Absent)
  BY SameRoute, DirectCoverage
<1> QED BY <1>1 DEF MoreSpecificPolicyCovers

(* A policy is reported for a route exactly when it has a health check and what it
   is in effect for there has one destination. *)
THEOREM FailoverVerdictsExact == Spec => []FailoverVerdictExact
<1> DEFINE check == "health-check-without-failover"
           displaced(p, k) == \E q \in PoliciesIn(objects) \ {p} : NamesRule(q, k, Absent)
           fromAbove(p, k) ==
             IF ReachesFromAbove(p, k) /\ ~displaced(p, k) THEN {Absent} ELSE {}
           reported(p, k) == \E f \in findings : f[1] = check /\ f[2] = p /\ f[3].route = k
           within(p, k) == \E c \in WithoutFailover(objects, p) : c.route = k
           due(p, k) == /\ objects[p].healthCheck
                        /\ \E scope \in NamedScopes(p, k) \cup fromAbove(p, k) :
                             OneDestination(k, scope)
<1>1. ASSUME IInv, phase = "done", check \in Enabled,
             NEW p \in PoliciesIn(objects), NEW k \in RoutesIn(objects)
      PROVE  reported(p, k) <=> within(p, k)
  <2>1. p \in DOMAIN objects /\ Returns(check, p) = WithoutFailover(objects, p)
    BY DEF PoliciesIn, Returns
  <2>2. check \in Names
    BY DEF Names
  <2>3. \A c : <<check, p, c>> \in findings <=> c \in WithoutFailover(objects, p)
    BY <1>1, <2>1, <2>2, FinishedRun
  <2>4. \A f \in findings : f = <<f[1], f[2], f[3]>>
    BY <1>1, DueIff DEF IInv, DueSoFar
  <2>5. ASSUME NEW f \in findings, f[1] = check, f[2] = p, f[3].route = k PROVE within(p, k)
    <3>1. <<check, p, f[3]>> \in findings
      BY <2>4, <2>5
    <3> QED BY <2>3, <2>5, <3>1
  <2>6. ASSUME NEW c \in WithoutFailover(objects, p), c.route = k PROVE reported(p, k)
    <3> DEFINE f == <<check, p, c>>
    <3>1. f \in findings /\ f[1] = check /\ f[2] = p /\ f[3].route = k
      BY <2>3, <2>6
    <3> HIDE DEF f
    <3> QED BY <3>1
  <2> QED BY <2>5, <2>6
<1>2. ASSUME IInv, NEW p \in PoliciesIn(objects), NEW k \in RoutesIn(objects)
      PROVE  within(p, k) <=> due(p, k)
  <2> DEFINE cov == Coverage(objects, objects[p])
             lone(c) == SoleEndpoint(objects, c)
             names(scope) == \E c \in cov : ~c.inherited /\ c.route = k /\ c.section = scope
             above == \E c \in cov : c.inherited /\ c.route = k
  <2>1. \A c : c \in WithoutFailover(objects, p) /\ c.route = k <=>
          /\ objects[p].healthCheck /\ c \in cov /\ c.route = k
          /\ ~(c.inherited /\ displaced(p, k)) /\ lone(c)
    <3>1. MoreSpecificPolicyCovers(objects, k, Absent, p) <=> displaced(p, k)
      BY <1>2, SpecificIff
    <3> HIDE DEF displaced
    <3> QED BY <3>1 DEF WithoutFailover
  <2>2. \A c : c.route = k => (lone(c) <=> OneDestination(k, c.section))
    <3>1. objects \in ManifestSets
      BY <1>2, PolicyLoaded
    <3> QED BY <3>1, SoleEndpointIff
  <2>3. \A scope : names(scope) <=> scope \in NamedScopes(p, k)
    BY <1>2, DirectScope
  <2>4. above <=> ReachesFromAbove(p, k)
    BY <1>2, CoverageFromAbove
  <2>5. \A c \in cov : c.inherited => c.section = Absent
    BY <1>2, CoverageFromAbove
  <2> HIDE DEF cov, lone, displaced
  <2>6. within(p, k) <=>
          /\ objects[p].healthCheck
          /\ \E c \in cov : /\ c.route = k /\ ~(c.inherited /\ displaced(p, k))
                            /\ OneDestination(k, c.section)
    BY <2>1, <2>2
  <2>7. ASSUME NEW c \in cov, c.route = k, ~(c.inherited /\ displaced(p, k)),
               OneDestination(k, c.section)
        PROVE  c.section \in NamedScopes(p, k) \cup fromAbove(p, k)
    <3>1. CASE c.inherited
      BY <2>4, <2>5, <2>7, <3>1
    <3>2. CASE ~c.inherited
      BY <2>3, <2>7, <3>2
    <3> QED BY <3>1, <3>2
  <2>8. ASSUME NEW scope \in NamedScopes(p, k) \cup fromAbove(p, k), OneDestination(k, scope)
        PROVE  \E c \in cov : /\ c.route = k /\ ~(c.inherited /\ displaced(p, k))
                              /\ OneDestination(k, c.section)
    <3>1. CASE scope \in NamedScopes(p, k)
      BY <2>3, <2>8, <3>1
    <3>2. CASE scope \in fromAbove(p, k)
      <4>1. ReachesFromAbove(p, k) /\ ~displaced(p, k) /\ scope = Absent
        BY <3>2
      <4>2. PICK c \in cov : c.inherited /\ c.route = k
        BY <2>4, <4>1
      <4> QED BY <2>5, <2>8, <4>1, <4>2
    <3> QED BY <2>8, <3>1, <3>2
  <2> HIDE DEF fromAbove, within
  <2> QED BY <2>6, <2>7, <2>8
<1>3. IInv => FailoverVerdictExact
  <2> SUFFICES ASSUME IInv, phase = "done", check \in Enabled,
                      NEW p \in PoliciesIn(objects), NEW k \in RoutesIn(objects)
               PROVE  reported(p, k) <=> due(p, k)
    BY DEF FailoverVerdictExact
  <2> HIDE DEF reported, within, due
  <2> QED BY <1>1, <1>2
<1> QED BY <1>3, Invariance, PTL

-----------------------------------------------------------------------------
(* conflicting-policies. *)

(* Policies that claim one slot are of one namespace, so no two have one name. *)
LEMMA ClaimantsDiffer ==
  ASSUME IInv, NEW p \in PoliciesIn(objects), NEW q \in PoliciesIn(objects), NEW slot,
         slot \in SlotsOf(objects[p]), slot \in SlotsOf(objects[q]),
         NameRank[objects[p].name] = NameRank[objects[q].name]
  PROVE  p = q
<1>1. \A policy : slot \in SlotsOf(policy) => slot.ns = policy.ns
  <2> SUFFICES ASSUME NEW policy, slot \in SlotsOf(policy) PROVE slot.ns = policy.ns
    OBVIOUS
  <2> DEFINE T == {PolicyTargets(policy)[i] : i \in DOMAIN PolicyTargets(policy)}
             slotOf(t) == [group |-> t.group, kind |-> t.kind, ns |-> policy.ns, name |-> t.name,
                           section |-> Default(t.section, "")]
  <2>1. SlotsOf(policy) = {slotOf(t) : t \in T}
    BY DEF SlotsOf
  <2>2. \A t : slotOf(t).ns = policy.ns
    OBVIOUS
  <2> HIDE DEF T, slotOf
  <2> QED BY <2>1, <2>2
<1>2. objects[p].name = objects[q].name
  BY PolicyLoaded, NameRankAssumption
<1>3. RefOf(objects[p]) = RefOf(objects[q])
  BY <1>1, <1>2 DEF RefOf, PoliciesIn, IsPolicy
<1> QED BY <1>3, PolicyLoaded

LEMMA RankIsNatural ==
  ASSUME IInv, NEW p \in PoliciesIn(objects)
  PROVE  NameRank[objects[p].name] \in Nat
  BY PolicyLoaded, NameRankAssumption

(* One claimant comes first. *)
LEMMA FirstClaimant ==
  ASSUME IInv, NEW S, S \subseteq PoliciesIn(objects), S # {}, NEW slot,
         \A p \in S : slot \in SlotsOf(objects[p])
  PROVE  \E p \in S : \A q \in S : /\ NameRank[objects[q].name] >= NameRank[objects[p].name]
                                   /\ NameRank[objects[p].name] >= NameRank[objects[q].name] => q = p
<1> DEFINE T == {NameRank[objects[p].name] : p \in S}
<1>1. T \in SUBSET Nat /\ T # {}
  BY RankIsNatural
<1>2. PICK n \in T : \A m \in T : ~(m < n)
  BY <1>1, Least
<1>3. PICK p \in S : n = NameRank[objects[p].name]
  BY <1>2
<1>4. ASSUME NEW q \in S
      PROVE  /\ NameRank[objects[q].name] >= NameRank[objects[p].name]
             /\ NameRank[objects[p].name] >= NameRank[objects[q].name] => q = p
  <2>1. /\ NameRank[objects[q].name] \in Nat /\ NameRank[objects[p].name] \in Nat
        /\ ~(NameRank[objects[q].name] < NameRank[objects[p].name])
    BY <1>2, <1>3, RankIsNatural
  <2>2. NameRank[objects[p].name] >= NameRank[objects[q].name]
          => NameRank[objects[p].name] = NameRank[objects[q].name]
    BY <2>1
  <2> QED BY <2>1, <2>2, ClaimantsDiffer
<1> QED BY <1>4

LEMMA ConflictsIff ==
  ASSUME NEW p \in PoliciesIn(objects), NEW slot, slot \in SlotsOf(objects[p]),
         NEW claimants,
         claimants = {q \in PoliciesIn(objects) : slot \in SlotsOf(objects[q])}
  PROVE  slot \in Conflicts(objects, p) <=>
           /\ claimants # {p}
           /\ \A q \in claimants \ {p} :
                NameRank[objects[q].name] >= NameRank[objects[p].name]
<1>1. Rivals(objects, p, slot) = claimants \ {p}
  BY DEF Rivals
<1>2. p \in claimants
  OBVIOUS
<1>3. claimants \ {p} # {} <=> claimants # {p}
  BY <1>2
<1> QED BY <1>1, <1>3 DEF Conflicts, IsFirstByName

(* Of the claimants of a slot exactly one reports it if they are several. *)
THEOREM ConflictsReportedOnce == Spec => []ConflictReportedOnce
<1>1. IInv => ConflictReportedOnce
  <2> SUFFICES ASSUME IInv, phase = "done", "conflicting-policies" \in Enabled,
                      NEW slot \in UNION {SlotsOf(objects[p]) : p \in PoliciesIn(objects)}
               PROVE  LET claimants == {p \in PoliciesIn(objects) : slot \in SlotsOf(objects[p])}
                          reporters ==
                            {p \in claimants : Reported("conflicting-policies", p, slot)}
                      IN  Cardinality(reporters) = IF Cardinality(claimants) > 1 THEN 1 ELSE 0
    BY DEF ConflictReportedOnce
  <2> DEFINE claimants == {p \in PoliciesIn(objects) : slot \in SlotsOf(objects[p])}
             reporters == {p \in claimants : Reported("conflicting-policies", p, slot)}
             rank(p) == NameRank[objects[p].name]
  <2>1. claimants \subseteq PoliciesIn(objects) /\ claimants # {}
          /\ \A p \in claimants : slot \in SlotsOf(objects[p])
    OBVIOUS
  <2>2. PICK p \in claimants : \A q \in claimants : rank(q) >= rank(p)
                                                      /\ (rank(p) >= rank(q) => q = p)
    BY <2>1, FirstClaimant
  <2>3. \A q \in claimants : q \in reporters <=>
          claimants # {q} /\ \A r \in claimants \ {q} : rank(r) >= rank(q)
    <3> SUFFICES ASSUME NEW q \in claimants
                 PROVE  Reported("conflicting-policies", q, slot) <=>
                          claimants # {q} /\ \A r \in claimants \ {q} : rank(r) >= rank(q)
      OBVIOUS
    <3>1. q \in DOMAIN objects /\ IsPolicy(objects[q])
      BY DEF PoliciesIn
    <3>2. Returns("conflicting-policies", q) = Conflicts(objects, q)
      BY <3>1 DEF Returns
    <3>3. Reported("conflicting-policies", q, slot) <=> slot \in Conflicts(objects, q)
      BY <3>1, <3>2, FinishedRun DEF Reported, Names
    <3> QED BY <3>3, ConflictsIff
  <2>4. reporters \subseteq claimants
    OBVIOUS
  <2>5. IsFiniteSet(claimants)
    <3>1. IsFiniteSet(DOMAIN objects)
      BY LoadedSet, FS_Interval DEF IInv
    <3>2. claimants \subseteq DOMAIN objects
      BY DEF PoliciesIn
    <3> HIDE DEF claimants
    <3> QED BY <3>1, <3>2, FS_Subset
  <2> HIDE DEF claimants, reporters, rank
  <2>6. CASE claimants = {p}
    <3>1. reporters = {}
      BY <2>3, <2>4, <2>6
    <3>2. Cardinality(reporters) = 0 /\ Cardinality(claimants) = 1
      BY <3>1, <2>6, FS_EmptySet, FS_Singleton
    <3> QED BY <3>2 DEF claimants, reporters
  <2>7. CASE claimants # {p}
    <3>1. reporters = {p}
      <4>1. p \in reporters
        BY <2>2, <2>3, <2>7
      <4>2. \A q \in reporters : q = p
        BY <2>2, <2>3, <2>4
      <4> QED BY <4>1, <4>2
    <3>2. Cardinality(claimants) \in Nat
      BY <2>5, FS_CardinalityType
    <3>3. Cardinality(claimants) # 0
      BY <2>1, <2>5, FS_EmptySet
    <3>4. Cardinality(claimants) # 1
      BY <2>2, <2>5, <2>7, FS_Singleton
    <3>5. Cardinality(claimants) > 1
      BY <3>2, <3>3, <3>4
    <3>6. Cardinality(reporters) = 1
      BY <3>1, FS_Singleton
    <3> QED BY <3>5, <3>6 DEF claimants, reporters
  <2> QED BY <2>6, <2>7
<1> QED BY <1>1, Invariance, PTL

-----------------------------------------------------------------------------
(* The order the manifests are loaded in. *)

(* The same objects, each once, perhaps in another order. *)
SameObjects(a, b) ==
  /\ DOMAIN a \subseteq Nat /\ DOMAIN b \subseteq Nat
  /\ \A i, j \in DOMAIN a : RefOf(a[i]) = RefOf(a[j]) => i = j
  /\ \A i, j \in DOMAIN b : RefOf(b[i]) = RefOf(b[j]) => i = j
  /\ \A i \in DOMAIN a : \E j \in DOMAIN b : a[i] = b[j]
  /\ \A j \in DOMAIN b : \E i \in DOMAIN a : a[i] = b[j]

LEMMA SameObjectsSymmetric ==
  ASSUME NEW a, NEW b, SameObjects(a, b) PROVE SameObjects(b, a)
<1>1. ASSUME NEW i \in DOMAIN b PROVE \E j \in DOMAIN a : b[i] = a[j]
  BY DEF SameObjects
<1>2. ASSUME NEW j \in DOMAIN a PROVE \E i \in DOMAIN b : b[i] = a[j]
  BY DEF SameObjects
<1> QED BY <1>1, <1>2 DEF SameObjects

(* What is asked of one object depends on the object alone. *)
LEMMA TwinObjects ==
  ASSUME NEW a, NEW b, NEW i \in DOMAIN a, NEW j \in DOMAIN b, a[i] = b[j]
  PROVE  /\ i \in RoutesIn(a) <=> j \in RoutesIn(b)
         /\ i \in PoliciesIn(a) <=> j \in PoliciesIn(b)
         /\ \A owner, listener : i \in RoutesAttachedToParent(a, owner, listener)
                                   <=> j \in RoutesAttachedToParent(b, owner, listener)
         /\ \A gateway : i \in ListenerSetsBelongingTo(a, gateway)
                           <=> j \in ListenerSetsBelongingTo(b, gateway)
         /\ \A ns, sel : i \in RoutesSelectedBy(a, ns, sel) <=> j \in RoutesSelectedBy(b, ns, sel)
<1>1. i \in RoutesIn(a) <=> j \in RoutesIn(b)
  BY DEF RoutesIn
<1>2. i \in PoliciesIn(a) <=> j \in PoliciesIn(b)
  BY DEF PoliciesIn
<1>3. ASSUME NEW owner, NEW listener
      PROVE  i \in RoutesAttachedToParent(a, owner, listener)
               <=> j \in RoutesAttachedToParent(b, owner, listener)
  BY <1>1 DEF RoutesAttachedToParent
<1>4. ASSUME NEW gateway
      PROVE  i \in ListenerSetsBelongingTo(a, gateway) <=> j \in ListenerSetsBelongingTo(b, gateway)
  BY DEF ListenerSetsBelongingTo
<1>5. ASSUME NEW ns, NEW sel
      PROVE  i \in RoutesSelectedBy(a, ns, sel) <=> j \in RoutesSelectedBy(b, ns, sel)
  BY <1>1 DEF RoutesSelectedBy
<1> QED BY <1>1, <1>2, <1>3, <1>4, <1>5

(* A target leads to the same routes, whichever ListenerSet comes first. *)
LEMMA TwinTargeted ==
  ASSUME NEW a, NEW b, SameObjects(a, b), NEW ns, NEW target,
         NEW v \in RoutesTargetedBy(a, ns, target), v[2] \in DOMAIN a,
         NEW j \in DOMAIN b, a[v[2]] = b[j]
  PROVE  \E w \in RoutesTargetedBy(b, ns, target) : w[2] = j
<1> DEFINE named == ObjectRef(target.kind, ns, target.name)
           i == v[2]
<1>1. /\ DOMAIN a \subseteq Nat /\ DOMAIN b \subseteq Nat
      /\ \A m, n \in DOMAIN a : RefOf(a[m]) = RefOf(a[n]) => m = n
      /\ \A m, n \in DOMAIN b : RefOf(b[m]) = RefOf(b[n]) => m = n
      /\ \A m \in DOMAIN a : \E n \in DOMAIN b : a[m] = b[n]
  BY DEF SameObjects
<1>2. LeadsTo(a, ns, target, i)
  BY <1>1, TargetedIff DEF LeadsTo
<1>3. LeadsTo(b, ns, target, j) => \E w \in RoutesTargetedBy(b, ns, target) : w[2] = j
  BY <1>1, TargetedIff DEF LeadsTo
<1> HIDE DEF i
<1>4. i \in DOMAIN a /\ a[i] = b[j]
  BY DEF i
<1>5. CASE IsParentKind(target.kind) /\ i \in RoutesAttachedToParent(a, named, target.section)
  <2>1. j \in RoutesAttachedToParent(b, named, target.section)
    BY <1>4, <1>5, TwinObjects
  <2> QED BY <1>3, <1>5, <2>1 DEF LeadsTo
<1>6. CASE target.kind = "Gateway"
           /\ \E s \in ListenerSetsBelongingTo(a, named) :
                i \in RoutesAttachedToParent(a, RefOf(a[s]), Absent)
  <2>1. PICK s \in ListenerSetsBelongingTo(a, named) :
          i \in RoutesAttachedToParent(a, RefOf(a[s]), Absent)
    BY <1>6
  <2>2. s \in DOMAIN a
    BY DEF ListenerSetsBelongingTo
  <2>3. PICK t \in DOMAIN b : a[s] = b[t]
    BY <1>1, <2>2
  <2>4. t \in ListenerSetsBelongingTo(b, named)
    BY <2>2, <2>3, TwinObjects
  <2>5. j \in RoutesAttachedToParent(b, RefOf(b[t]), Absent)
    BY <1>4, <2>1, <2>3, TwinObjects
  <2> QED BY <1>3, <1>6, <2>4, <2>5 DEF LeadsTo
<1>7. CASE ~IsParentKind(target.kind) /\ i \in RoutesIn(a) /\ RefOf(a[i]) = named
  <2>1. j \in RoutesIn(b) /\ RefOf(b[j]) = named
    BY <1>4, <1>7, TwinObjects
  <2> QED BY <1>3, <1>7, <2>1 DEF LeadsTo
<1> QED BY <1>2, <1>5, <1>6, <1>7 DEF LeadsTo

(* They cover the same route in the same way, perhaps via another ListenerSet. *)
CoverAlike(a, c, b, d) ==
  /\ c.route \in RoutesIn(a) /\ d.route \in RoutesIn(b) /\ a[c.route] = b[d.route]
  /\ d.inherited = c.inherited /\ d.section = c.section

LEMMA TwinCoverage ==
  ASSUME NEW a, NEW b, SameObjects(a, b), NEW policy, NEW c \in Coverage(a, policy)
  PROVE  \E d \in Coverage(b, policy) : CoverAlike(a, c, b, d)
<1> DEFINE targets == PolicyTargets(policy)
<1>1. c.route \in RoutesIn(a) /\ c.route \in DOMAIN a
  BY RoutesCovered DEF RoutesIn
<1>2. PICK j \in DOMAIN b : a[c.route] = b[j]
  BY <1>1 DEF SameObjects
<1>3. j \in RoutesIn(b)
  BY <1>1, <1>2, TwinObjects
<1>4. /\ \A t, v, w : /\ CoveredBy(policy, t, v).route = v[2]
                      /\ CoveredBy(policy, t, v).inherited = CoveredBy(policy, t, w).inherited
                      /\ CoveredBy(policy, t, v).section = CoveredBy(policy, t, w).section
      /\ \A n, k, m : /\ SelectedBy(policy, n, k).route = k
                      /\ SelectedBy(policy, n, k).inherited = SelectedBy(policy, n, m).inherited
                      /\ SelectedBy(policy, n, k).section = SelectedBy(policy, n, m).section
  BY DEF CoveredBy, SelectedBy
<1>5. CASE \E t \in DOMAIN targets : \E v \in RoutesTargetedBy(a, policy.ns, targets[t]) :
             c = CoveredBy(policy, t, v)
  <2>1. PICK t \in DOMAIN targets : \E v \in RoutesTargetedBy(a, policy.ns, targets[t]) :
          c = CoveredBy(policy, t, v)
    BY <1>5
  <2>2. PICK v \in RoutesTargetedBy(a, policy.ns, targets[t]) : c = CoveredBy(policy, t, v)
    BY <2>1
  <2>3. v[2] = c.route
    BY <1>4, <2>2
  <2>4. PICK w \in RoutesTargetedBy(b, policy.ns, targets[t]) : w[2] = j
    BY <1>1, <1>2, <2>3, TwinTargeted
  <2>5. CoveredBy(policy, t, w) \in Coverage(b, policy)
    BY CoverageIff
  <2>6. CoverAlike(a, c, b, CoveredBy(policy, t, w))
    BY <1>1, <1>2, <1>3, <1>4, <2>2, <2>4 DEF CoverAlike
  <2> HIDE DEF targets
  <2> QED BY <2>5, <2>6
<1>6. CASE \E n \in DOMAIN policy.selectors :
           \E k \in RoutesSelectedBy(a, policy.ns, policy.selectors[n]) : c = SelectedBy(policy, n, k)
  <2>1. PICK n \in DOMAIN policy.selectors :
          \E k \in RoutesSelectedBy(a, policy.ns, policy.selectors[n]) : c = SelectedBy(policy, n, k)
    BY <1>6
  <2>2. c.route \in RoutesSelectedBy(a, policy.ns, policy.selectors[n])
        /\ c = SelectedBy(policy, n, c.route)
    BY <1>4, <2>1
  <2>3. j \in RoutesSelectedBy(b, policy.ns, policy.selectors[n])
    BY <1>1, <1>2, <2>2, TwinObjects
  <2>4. SelectedBy(policy, n, j) \in Coverage(b, policy)
    BY <2>3, CoverageIff
  <2>5. CoverAlike(a, c, b, SelectedBy(policy, n, j))
    BY <1>1, <1>2, <1>3, <1>4, <2>2 DEF CoverAlike
  <2> QED BY <2>4, <2>5
<1> QED BY <1>5, <1>6, CoverageIff

(* A more specific policy is one in either order. *)
LEMMA TwinOther ==
  ASSUME NEW a, NEW b, SameObjects(a, b),
         NEW p \in DOMAIN a, NEW q \in DOMAIN b, a[p] = b[q],
         NEW other \in PoliciesIn(a) \ {p}
  PROVE  \E rival \in PoliciesIn(b) \ {q} : a[other] = b[rival]
<1>1. other \in DOMAIN a
  BY DEF PoliciesIn
<1>2. PICK rival \in DOMAIN b : a[other] = b[rival]
  BY <1>1 DEF SameObjects
<1>3. rival \in PoliciesIn(b)
  BY <1>1, <1>2, TwinObjects
<1>4. rival # q
  <2> SUFFICES ASSUME rival = q PROVE FALSE
    OBVIOUS
  <2>1. RefOf(a[other]) = RefOf(a[p])
    BY <1>2
  <2>2. other = p
    BY <1>1, <2>1 DEF SameObjects
  <2> QED BY <2>2
<1> QED BY <1>2, <1>3, <1>4

LEMMA TwinOverridden ==
  ASSUME NEW a, NEW b, SameObjects(a, b),
         NEW i \in DOMAIN a, NEW j \in DOMAIN b, a[i] = b[j],
         NEW p \in DOMAIN a, NEW q \in DOMAIN b, a[p] = b[q], NEW rule,
         IsOverridden(a, i, rule, p)
  PROVE  IsOverridden(b, j, rule, q)
<1>1. PICK other \in PoliciesIn(a) \ {p} :
        /\ a[other].healthCheck
        /\ \E c \in Coverage(a, a[other]) :
             ~c.inherited /\ RefOf(a[c.route]) = RefOf(a[i]) /\ SectionCoversRule(c.section, rule)
  BY DEF IsOverridden, ColdStartCoverage
<1>2. PICK c \in Coverage(a, a[other]) :
        ~c.inherited /\ RefOf(a[c.route]) = RefOf(a[i]) /\ SectionCoversRule(c.section, rule)
  BY <1>1
<1>3. PICK rival \in PoliciesIn(b) \ {q} : a[other] = b[rival]
  BY TwinOther
<1>4. PICK d \in Coverage(b, b[rival]) : CoverAlike(a, c, b, d)
  BY <1>3, TwinCoverage
<1>5. /\ ~d.inherited /\ RefOf(b[d.route]) = RefOf(b[j]) /\ SectionCoversRule(d.section, rule)
      /\ b[rival].healthCheck
  BY <1>1, <1>2, <1>3, <1>4 DEF CoverAlike
<1> QED BY <1>5 DEF IsOverridden, ColdStartCoverage

LEMMA TwinSpecific ==
  ASSUME NEW a, NEW b, SameObjects(a, b),
         NEW i \in DOMAIN a, NEW j \in DOMAIN b, a[i] = b[j],
         NEW p \in DOMAIN a, NEW q \in DOMAIN b, a[p] = b[q], NEW rule,
         MoreSpecificPolicyCovers(a, i, rule, p)
  PROVE  MoreSpecificPolicyCovers(b, j, rule, q)
<1>1. PICK other \in PoliciesIn(a) \ {p} : \E c \in Coverage(a, a[other]) :
        ~c.inherited /\ RefOf(a[c.route]) = RefOf(a[i]) /\ SectionCoversRule(c.section, rule)
  BY DEF MoreSpecificPolicyCovers
<1>2. PICK c \in Coverage(a, a[other]) :
        ~c.inherited /\ RefOf(a[c.route]) = RefOf(a[i]) /\ SectionCoversRule(c.section, rule)
  BY <1>1
<1>3. PICK rival \in PoliciesIn(b) \ {q} : a[other] = b[rival]
  BY TwinOther
<1>4. PICK d \in Coverage(b, b[rival]) : CoverAlike(a, c, b, d)
  BY <1>3, TwinCoverage
<1>5. ~d.inherited /\ RefOf(b[d.route]) = RefOf(b[j]) /\ SectionCoversRule(d.section, rule)
  BY <1>2, <1>4 DEF CoverAlike
<1> QED BY <1>5 DEF MoreSpecificPolicyCovers

(* A backendRef resolves to the same Backends. *)
LEMMA FindBackendIff ==
  ASSUME NEW objs, DOMAIN objs \subseteq Nat,
         \A i, j \in DOMAIN objs : RefOf(objs[i]) = RefOf(objs[j]) => i = j,
         NEW ns, NEW name
  PROVE  FindBackend(objs, ns, name) =
           {i \in DOMAIN objs : IsBackend(objs[i]) /\ objs[i].ns = ns /\ objs[i].name = name}
<1> DEFINE found ==
      {i \in DOMAIN objs : IsBackend(objs[i]) /\ objs[i].ns = ns /\ objs[i].name = name}
<1>1. \A i, j \in found : i = j /\ i \in Nat
  <2> SUFFICES ASSUME NEW i \in found, NEW j \in found PROVE i = j /\ i \in Nat
    OBVIOUS
  <2>1. RefOf(objs[i]) = RefOf(objs[j])
    BY DEF RefOf, IsBackend
  <2> QED BY <2>1
<1>2. FindBackend(objs, ns, name) = FirstOf(found)
  BY DEF FindBackend
<1> HIDE DEF found
<1>3. FirstOf(found) = found
  BY <1>1 DEF FirstOf
<1> QED BY <1>2, <1>3 DEF found

LEMMA TwinBackends ==
  ASSUME NEW a, NEW b, SameObjects(a, b),
         NEW i \in DOMAIN a, NEW j \in DOMAIN b, a[i] = b[j], NEW ref
  PROVE  BackendsOf(a, i, ref) \subseteq BackendsOf(b, j, ref)
<1> DEFINE ns == Default(ref.ns, a[i].ns)
<1>1. ns = Default(ref.ns, b[j].ns)
  OBVIOUS
<1> HIDE DEF ns
<1>2. /\ DOMAIN a \subseteq Nat /\ DOMAIN b \subseteq Nat
      /\ \A m, n \in DOMAIN a : RefOf(a[m]) = RefOf(a[n]) => m = n
      /\ \A m, n \in DOMAIN b : RefOf(b[m]) = RefOf(b[n]) => m = n
  BY DEF SameObjects
<1>3. /\ FindBackend(a, ns, ref.name) =
           {m \in DOMAIN a : IsBackend(a[m]) /\ a[m].ns = ns /\ a[m].name = ref.name}
      /\ FindBackend(b, ns, ref.name) =
           {m \in DOMAIN b : IsBackend(b[m]) /\ b[m].ns = ns /\ b[m].name = ref.name}
  BY <1>2, FindBackendIff
<1>4. /\ BackendsOf(a, i, ref) = {a[m] : m \in FindBackend(a, ns, ref.name)}
      /\ BackendsOf(b, j, ref) = {b[m] : m \in FindBackend(b, ns, ref.name)}
  BY <1>1 DEF BackendsOf, ns
<1>5. ASSUME NEW m \in FindBackend(a, ns, ref.name) PROVE a[m] \in BackendsOf(b, j, ref)
  <2>1. m \in DOMAIN a /\ IsBackend(a[m]) /\ a[m].ns = ns /\ a[m].name = ref.name
    BY <1>3
  <2>2. PICK n \in DOMAIN b : a[m] = b[n]
    BY <2>1 DEF SameObjects
  <2>3. n \in FindBackend(b, ns, ref.name)
    BY <1>3, <2>1, <2>2
  <2> QED BY <1>4, <2>2, <2>3
<1> QED BY <1>4, <1>5

(* fqdn-backend-cold-start reports the same gaps. *)
LEMMA TwinColdStarts ==
  ASSUME NEW a, NEW b, SameObjects(a, b),
         NEW p \in DOMAIN a, NEW q \in DOMAIN b, a[p] = b[q],
         NEW x \in ColdStarts(a, p)
  PROVE  \E y \in ColdStarts(b, q) :
           RefOf(a[x[1].route]) = RefOf(b[y[1].route]) /\ x[2] = y[2]
<1> DEFINE c == x[1]
           n == x[2]
           ref == a[c.route].backendRefs[n]
<1>1. x = <<c, n>> /\ StartsCold(a, p, c, n)
  <2>1. x = <<c, n>>
    BY ColdStartsIff
  <2> HIDE DEF c, n
  <2> QED BY <2>1, ColdStartsIff
<1> HIDE DEF c, n
<1>2. PICK d \in Coverage(b, b[q]) : CoverAlike(a, c, b, d)
  <2>1. c \in Coverage(a, b[q])
    BY <1>1 DEF StartsCold
  <2> QED BY <2>1, TwinCoverage
<1>3. /\ c.route \in DOMAIN a /\ d.route \in DOMAIN b /\ a[c.route] = b[d.route]
      /\ d.inherited = c.inherited /\ d.section = c.section
  BY <1>2 DEF CoverAlike, RoutesIn
<1>4. ref = b[d.route].backendRefs[n] /\ n \in DOMAIN b[d.route].backendRefs
  BY <1>1, <1>3 DEF StartsCold
<1> HIDE DEF ref
<1>5. /\ ~a[p].healthCheck
      /\ SectionCoversRule(c.section, ref.rule)
      /\ ~(c.inherited /\ IsOverridden(a, c.route, ref.rule, p))
      /\ IsEnvoyGatewayBackendRef(ref)
      /\ \E backend \in BackendsOf(a, c.route, ref) : FqdnHostnames(backend) # {}
  BY <1>1 DEF StartsCold, ref
<1>6. SameObjects(b, a)
  BY SameObjectsSymmetric
<1>7. IsOverridden(b, d.route, ref.rule, q) => IsOverridden(a, c.route, ref.rule, p)
  BY <1>3, <1>6, TwinOverridden
<1>8. \E backend \in BackendsOf(b, d.route, ref) : FqdnHostnames(backend) # {}
  <2>1. BackendsOf(a, c.route, ref) \subseteq BackendsOf(b, d.route, ref)
    BY <1>3, TwinBackends
  <2> QED BY <1>5, <2>1
<1>9. StartsCold(b, q, d, n)
  BY <1>2, <1>3, <1>4, <1>5, <1>7, <1>8 DEF StartsCold
<1>10. <<d, n>> \in ColdStarts(b, q)
  BY <1>9, ColdStartsIff
<1>11. <<d, n>>[1] = d /\ <<d, n>>[2] = n
  OBVIOUS
<1> QED BY <1>3, <1>10, <1>11 DEF c, n

(* health-check-without-failover reports the same routes. *)
LEMMA TwinSoleEndpoint ==
  ASSUME NEW a, NEW b, SameObjects(a, b), NEW c, NEW d, CoverAlike(a, c, b, d),
         SoleEndpoint(a, c)
  PROVE  SoleEndpoint(b, d)
<1>1. /\ c.route \in DOMAIN a /\ d.route \in DOMAIN b /\ a[c.route] = b[d.route]
      /\ d.section = c.section
  BY DEF CoverAlike, RoutesIn
<1> DEFINE covered == BackendRefsCovered(a, c)
<1>2. BackendRefsCovered(b, d) = covered
  BY <1>1 DEF BackendRefsCovered
<1> HIDE DEF covered
<1>3. Cardinality(covered) = 1
  BY DEF SoleEndpoint, covered
<1>4. PICK n \in covered :
        LET ref == a[c.route].backendRefs[n] IN
        /\ IsEnvoyGatewayBackendRef(ref)
        /\ \E backend \in BackendsOf(a, c.route, ref) :
             backend.backendType # "DynamicResolver" /\ Len(backend.endpoints) = 1
  BY DEF SoleEndpoint, covered
<1> DEFINE ref == a[c.route].backendRefs[n]
<1>5. ref = b[d.route].backendRefs[n]
  BY <1>1
<1>6. BackendsOf(a, c.route, ref) \subseteq BackendsOf(b, d.route, ref)
  <2> HIDE DEF ref
  <2> QED BY <1>1, TwinBackends
<1>7. /\ IsEnvoyGatewayBackendRef(ref)
      /\ \E backend \in BackendsOf(b, d.route, ref) :
           backend.backendType # "DynamicResolver" /\ Len(backend.endpoints) = 1
  BY <1>4, <1>6
<1> HIDE DEF ref
<1> QED BY <1>2, <1>3, <1>5, <1>7 DEF SoleEndpoint

LEMMA TwinWithoutFailover ==
  ASSUME NEW a, NEW b, SameObjects(a, b),
         NEW p \in DOMAIN a, NEW q \in DOMAIN b, a[p] = b[q],
         NEW c \in WithoutFailover(a, p)
  PROVE  \E d \in WithoutFailover(b, q) : RefOf(a[c.route]) = RefOf(b[d.route])
<1>1. /\ c \in Coverage(a, a[p]) /\ a[p].healthCheck /\ SoleEndpoint(a, c)
      /\ ~(c.inherited /\ MoreSpecificPolicyCovers(a, c.route, Absent, p))
  BY DEF WithoutFailover
<1>2. PICK d \in Coverage(b, b[q]) : CoverAlike(a, c, b, d)
  <2>1. c \in Coverage(a, b[q])
    BY <1>1
  <2> QED BY <2>1, TwinCoverage
<1>3. /\ c.route \in DOMAIN a /\ d.route \in DOMAIN b /\ a[c.route] = b[d.route]
      /\ d.inherited = c.inherited
  BY <1>2 DEF CoverAlike, RoutesIn
<1>4. SameObjects(b, a)
  BY SameObjectsSymmetric
<1>5. MoreSpecificPolicyCovers(b, d.route, Absent, q)
        => MoreSpecificPolicyCovers(a, c.route, Absent, p)
  BY <1>3, <1>4, TwinSpecific
<1>6. SoleEndpoint(b, d)
  BY <1>1, <1>2, TwinSoleEndpoint
<1>7. d \in WithoutFailover(b, q)
  BY <1>1, <1>2, <1>3, <1>5, <1>6 DEF WithoutFailover
<1> QED BY <1>3, <1>7

(* conflicting-policies reports the same slots. *)
LEMMA TwinConflicts ==
  ASSUME NEW a, NEW b, SameObjects(a, b),
         NEW p \in DOMAIN a, NEW q \in DOMAIN b, a[p] = b[q]
  PROVE  Conflicts(a, p) \subseteq Conflicts(b, q)
<1> SUFFICES ASSUME NEW slot \in Conflicts(a, p) PROVE slot \in Conflicts(b, q)
  OBVIOUS
<1>1. /\ slot \in SlotsOf(a[p])
      /\ Rivals(a, p, slot) # {}
      /\ \A r \in Rivals(a, p, slot) : NameRank[a[r].name] >= NameRank[a[p].name]
  BY DEF Conflicts, IsFirstByName
<1>2. SameObjects(b, a)
  BY SameObjectsSymmetric
<1>3. Rivals(b, q, slot) # {}
  <2>1. PICK other \in PoliciesIn(a) \ {p} : slot \in SlotsOf(a[other])
    BY <1>1 DEF Rivals
  <2>2. PICK rival \in PoliciesIn(b) \ {q} : a[other] = b[rival]
    BY TwinOther
  <2> QED BY <2>1, <2>2 DEF Rivals
<1>4. ASSUME NEW r \in Rivals(b, q, slot) PROVE NameRank[b[r].name] >= NameRank[b[q].name]
  <2>1. r \in PoliciesIn(b) \ {q} /\ slot \in SlotsOf(b[r])
    BY DEF Rivals
  <2>2. PICK other \in PoliciesIn(a) \ {p} : b[r] = a[other]
    BY <1>2, <2>1, TwinOther
  <2>3. other \in Rivals(a, p, slot)
    BY <2>1, <2>2 DEF Rivals
  <2> QED BY <1>1, <2>2, <2>3
<1> QED BY <1>1, <1>3, <1>4 DEF Conflicts, IsFirstByName

(* dangling-policy-target reports the same targets. *)
LEMMA TwinKnown ==
  ASSUME NEW a, NEW b, SameObjects(a, b)
  PROVE  KnownTargets(a) \subseteq KnownTargets(b)
<1> SUFFICES ASSUME NEW ref \in KnownTargets(a) PROVE ref \in KnownTargets(b)
  OBVIOUS
<1>1. PICK i \in DOMAIN a : (OwnsListeners(a[i]) \/ IsRoute(a[i])) /\ ref = RefOf(a[i])
  BY DEF KnownTargets, GatewaysAndListenerSets, RoutesIn
<1>2. PICK j \in DOMAIN b : a[i] = b[j]
  BY DEF SameObjects
<1> QED BY <1>1, <1>2 DEF KnownTargets, GatewaysAndListenerSets, RoutesIn

LEMMA TwinDangling ==
  ASSUME NEW a, NEW b, SameObjects(a, b),
         NEW p \in DOMAIN a, NEW q \in DOMAIN b, a[p] = b[q]
  PROVE  DanglingTargets(a, p) = DanglingTargets(b, q)
<1>1. KnownTargets(a) = KnownTargets(b)
  BY SameObjectsSymmetric, TwinKnown
<1> QED BY <1>1 DEF DanglingTargets

LEMMA FindingsOfIff ==
  ASSUME NEW objs, NEW f
  PROVE  f \in FindingsOf(objs) <=>
           \E check \in RelatingChecks \cap Enabled : \E p \in PoliciesIn(objs) :
             \E x \in ReportOf(check, objs, p) : f = ByObject(objs, check, p, x)
<1> DEFINE of(check, p) == {ByObject(objs, check, p, x) : x \in ReportOf(check, objs, p)}
           all(check) == UNION {of(check, p) : p \in PoliciesIn(objs)}
<1>1. FindingsOf(objs) = UNION {all(check) : check \in RelatingChecks \cap Enabled}
  BY DEF FindingsOf
<1>2. \A check, p : f \in of(check, p) <=>
        \E x \in ReportOf(check, objs, p) : f = ByObject(objs, check, p, x)
  OBVIOUS
<1> HIDE DEF of
<1>3. \A check : f \in all(check) <=> \E p \in PoliciesIn(objs) : f \in of(check, p)
  OBVIOUS
<1> HIDE DEF all
<1>4. f \in FindingsOf(objs) <=> \E check \in RelatingChecks \cap Enabled : f \in all(check)
  BY <1>1
<1> QED BY <1>2, <1>3, <1>4

LEMMA TwinFindings ==
  ASSUME NEW a, NEW b, SameObjects(a, b)
  PROVE  FindingsOf(a) \subseteq FindingsOf(b)
<1> SUFFICES ASSUME NEW f \in FindingsOf(a) PROVE f \in FindingsOf(b)
  OBVIOUS
<1>1. PICK check \in RelatingChecks \cap Enabled : \E p \in PoliciesIn(a) :
        \E x \in ReportOf(check, a, p) : f = ByObject(a, check, p, x)
  BY FindingsOfIff
<1>2. PICK p \in PoliciesIn(a) : \E x \in ReportOf(check, a, p) : f = ByObject(a, check, p, x)
  BY <1>1
<1>3. PICK x \in ReportOf(check, a, p) : f = ByObject(a, check, p, x)
  BY <1>2
<1>4. p \in DOMAIN a
  BY DEF PoliciesIn
<1>5. PICK q \in DOMAIN b : a[p] = b[q]
  BY <1>4 DEF SameObjects
<1>6. q \in PoliciesIn(b)
  BY <1>4, <1>5, TwinObjects
<1>7. \E y \in ReportOf(check, b, q) : ByObject(a, check, p, x) = ByObject(b, check, q, y)
  <2>1. CASE check = "conflicting-policies"
    <3>1. x \in Conflicts(a, p)
      BY <1>3, <2>1 DEF ReportOf
    <3>2. x \in ReportOf(check, b, q)
      BY <1>4, <1>5, <2>1, <3>1, TwinConflicts DEF ReportOf
    <3> QED BY <1>5, <2>1, <3>2 DEF ByObject
  <2>2. CASE check = "dangling-policy-target"
    <3>1. x \in DanglingTargets(a, p)
      BY <1>3, <2>2 DEF ReportOf
    <3>2. x \in ReportOf(check, b, q)
      BY <1>4, <1>5, <2>2, <3>1, TwinDangling DEF ReportOf
    <3> QED BY <1>5, <2>2, <3>2 DEF ByObject
  <2>3. CASE check = "fqdn-backend-cold-start"
    <3>1. x \in ColdStarts(a, p)
      BY <1>3, <2>3 DEF ReportOf
    <3>2. PICK y \in ColdStarts(b, q) : RefOf(a[x[1].route]) = RefOf(b[y[1].route]) /\ x[2] = y[2]
      BY <1>4, <1>5, <3>1, TwinColdStarts
    <3>3. y \in ReportOf(check, b, q)
      BY <2>3 DEF ReportOf
    <3> QED BY <1>5, <2>3, <3>2, <3>3 DEF ByObject
  <2>4. CASE check = "health-check-without-failover"
    <3>1. x \in WithoutFailover(a, p)
      BY <1>3, <2>4 DEF ReportOf
    <3>2. PICK y \in WithoutFailover(b, q) : RefOf(a[x.route]) = RefOf(b[y.route])
      BY <1>4, <1>5, <3>1, TwinWithoutFailover
    <3>3. y \in ReportOf(check, b, q)
      BY <2>4 DEF ReportOf
    <3> QED BY <1>5, <2>4, <3>2, <3>3 DEF ByObject
  <2> QED BY <2>1, <2>2, <2>3, <2>4 DEF RelatingChecks
<1> QED BY <1>3, <1>6, <1>7, FindingsOfIff

(* A rearrangement moves every object to a place of its own. *)
LEMMA RearrangementIsBijection ==
  ASSUME NEW n \in Nat, NEW order \in Rearrangements(n)
  PROVE  /\ order \in [1..n -> 1..n]
         /\ \A k \in 1..n : \E i \in 1..n : order[i] = k
         /\ \A i, j \in 1..n : order[i] = order[j] => i = j
<1>1. CASE n <= 5
  <2>1. order \in [1..n -> 1..n] /\ \A k \in 1..n : \E i \in 1..n : order[i] = k
    BY <1>1 DEF Rearrangements
  <2>2. order \in Surjection(1..n, 1..n)
    BY <2>1 DEF Surjection
  <2>3. order \in Injection(1..n, 1..n)
    BY <2>2, FS_Interval, FS_Surjection
  <2> QED BY <2>1, <2>3 DEF Injection, IsInjective
<1>2. CASE ~(n <= 5)
  <2>1. PICK e \in (1..n) \X (1..n) :
          order = [k \in 1..n |-> IF k = e[1] THEN e[2] ELSE IF k = e[2] THEN e[1] ELSE k]
    BY <1>2 DEF Rearrangements
  <2>2. e[1] \in 1..n /\ e[2] \in 1..n
    OBVIOUS
  <2>3. order \in [1..n -> 1..n]
    BY <2>1, <2>2
  <2>4. ASSUME NEW k \in 1..n PROVE order[order[k]] = k
    BY <2>1, <2>2
  <2> QED BY <2>3, <2>4
<1> QED BY <1>1, <1>2

(* What the checks report of the rearranged manifests is what they reported of
   the loaded ones. *)
LEMMA AnyOrder ==
  ASSUME IInv, phase = "done", NEW order \in Bijection(DOMAIN objects, DOMAIN objects)
  PROVE  FindingsOf([i \in DOMAIN objects |-> objects[order[i]]]) =
           {ByObject(objects, f[1], f[2], f[3]) : f \in {g \in findings : g[1] \in RelatingChecks}}
<1> DEFINE re == [i \in DOMAIN objects |-> objects[order[i]]]
<1>1. Len(objects) \in Nat /\ DOMAIN objects = 1..Len(objects)
  BY LoadedSet DEF IInv
<1>2. /\ order \in [DOMAIN objects -> DOMAIN objects]
      /\ \A k \in DOMAIN objects : \E i \in DOMAIN objects : order[i] = k
      /\ \A i, j \in DOMAIN objects : order[i] = order[j] => i = j
  BY DEF Bijection, Injection, Surjection, IsInjective
<1>3. DOMAIN objects \subseteq Nat
  BY <1>1
<1>4. \A i, j \in DOMAIN objects : RefOf(objects[i]) = RefOf(objects[j]) => i = j
  BY IdentityAssumption DEF IInv, LoopInv
<1>5. DOMAIN re = DOMAIN objects /\ \A i \in DOMAIN objects : re[i] = objects[order[i]]
  OBVIOUS
<1> HIDE DEF re
<1>6. SameObjects(re, objects)
  <2>1. \A i, j \in DOMAIN re : RefOf(re[i]) = RefOf(re[j]) => i = j
    BY <1>2, <1>4, <1>5
  <2> QED BY <1>2, <1>3, <1>4, <1>5, <2>1 DEF SameObjects
<1>7. FindingsOf(re) = FindingsOf(objects)
  <2>1. SameObjects(objects, re)
    BY <1>6, SameObjectsSymmetric
  <2>2. FindingsOf(re) \subseteq FindingsOf(objects)
    BY <1>6, TwinFindings
  <2>3. FindingsOf(objects) \subseteq FindingsOf(re)
    BY <2>1, TwinFindings
  <2> QED BY <2>2, <2>3
<1>8. ASSUME NEW check \in RelatingChecks, NEW p \in PoliciesIn(objects)
      PROVE  ReportOf(check, objects, p) = Returns(check, p)
  BY DEF RelatingChecks, ReportOf, Returns, PoliciesIn
<1>9. ASSUME NEW f \in FindingsOf(objects)
      PROVE  \E g \in findings : g[1] \in RelatingChecks /\ f = ByObject(objects, g[1], g[2], g[3])
  <2>1. PICK check \in RelatingChecks \cap Enabled : \E p \in PoliciesIn(objects) :
          \E x \in ReportOf(check, objects, p) : f = ByObject(objects, check, p, x)
    BY FindingsOfIff
  <2>2. PICK p \in PoliciesIn(objects) :
          \E x \in ReportOf(check, objects, p) : f = ByObject(objects, check, p, x)
    BY <2>1
  <2>3. PICK x \in ReportOf(check, objects, p) : f = ByObject(objects, check, p, x)
    BY <2>2
  <2> DEFINE g == <<check, p, x>>
  <2>4. g \in findings
    <3>1. p \in DOMAIN objects /\ check \in Names /\ x \in Returns(check, p)
      BY <1>8, <2>3 DEF PoliciesIn, Names, RelatingChecks
    <3> QED BY <3>1, FinishedRun
  <2>5. g[1] = check /\ g[2] = p /\ g[3] = x
    OBVIOUS
  <2> HIDE DEF g
  <2> QED BY <2>3, <2>4, <2>5
<1>10. ASSUME NEW g \in findings, g[1] \in RelatingChecks
       PROVE  ByObject(objects, g[1], g[2], g[3]) \in FindingsOf(objects)
  <2>1. g \in Due
    BY DEF IInv, DueSoFar
  <2>2. g = <<g[1], g[2], g[3]>> /\ g[1] \in Enabled
    BY <2>1, DueIff DEF IInv, LoopInv, TypeOK
  <2>3. g[2] \in DOMAIN objects /\ g[3] \in Returns(g[1], g[2])
    BY <2>1, <2>2, DueIff
  <2>4. g[2] \in PoliciesIn(objects)
    BY <1>10, <2>3 DEF Returns, RelatingChecks, PoliciesIn
  <2>5. g[3] \in ReportOf(g[1], objects, g[2])
    BY <1>8, <1>10, <2>3, <2>4
  <2> QED BY <1>10, <2>2, <2>4, <2>5, FindingsOfIff
<1>11. FindingsOf(objects) = {ByObject(objects, f[1], f[2], f[3]) :
                                f \in {g \in findings : g[1] \in RelatingChecks}}
  BY <1>9, <1>10
<1> QED BY <1>7, <1>11 DEF re

(* Which policy reports what does not depend on the order the manifests were
   loaded in, for every manifest set with unique object identities. *)
THEOREM PolicyOrderDecidesNothing == Spec => []PolicyOrderIrrelevant
<1>1. IInv => PolicyOrderIrrelevant
  <2> SUFFICES ASSUME IInv, phase = "done", NEW order \in Rearrangements(Len(objects))
               PROVE  order \in Bijection(DOMAIN objects, DOMAIN objects)
    BY AnyOrder DEF PolicyOrderIrrelevant
  <2> DEFINE n == Len(objects)
  <2>1. n \in Nat /\ DOMAIN objects = 1..n
    BY LoadedSet DEF IInv
  <2>2. /\ order \in [1..n -> 1..n]
        /\ \A k \in 1..n : \E i \in 1..n : order[i] = k
        /\ \A i, j \in 1..n : order[i] = order[j] => i = j
    BY <2>1, RearrangementIsBijection
  <2> HIDE DEF n
  <2> QED BY <2>1, <2>2 DEF Bijection, Injection, Surjection, IsInjective
<1> QED BY <1>1, Invariance, PTL

(* The run tries every order of five objects and every exchange of two of more;
   the same holds of every order of any number. *)
THEOREM EveryOrderSameFindings ==
  Spec => [](phase = "done" =>
    \A order \in Bijection(DOMAIN objects, DOMAIN objects) :
      FindingsOf([i \in DOMAIN objects |-> objects[order[i]]]) =
        {ByObject(objects, f[1], f[2], f[3]) : f \in {g \in findings : g[1] \in RelatingChecks}})
<1>1. IInv => (phase = "done" =>
        \A order \in Bijection(DOMAIN objects, DOMAIN objects) :
          FindingsOf([i \in DOMAIN objects |-> objects[order[i]]]) =
            {ByObject(objects, f[1], f[2], f[3]) :
               f \in {g \in findings : g[1] \in RelatingChecks}})
  BY AnyOrder
<1> QED BY <1>1, Invariance, PTL

=============================================================================
