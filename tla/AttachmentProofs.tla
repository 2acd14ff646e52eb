------------------------- MODULE AttachmentProofs -------------------------
(***************************************************************************)
(* What Tier 1 reports is right for every manifest set: safety of          *)
(* Attachment, for all values of its constants.                            *)
(***************************************************************************)
EXTENDS Attachment, HostnamesProofs, EngineProofs, FiniteSetTheorems

-----------------------------------------------------------------------------
(* Listeners and their owners. *)

LEMMA OwnedListener ==
  ASSUME NEW objs, NEW owner, NEW p
  PROVE  p \in ListenersByOwner(objs, owner) <=>
           \E i \in DOMAIN objs : \E j \in DOMAIN objs[i].listeners :
             OwnsListeners(objs[i]) /\ RefOf(objs[i]) = owner /\ p = <<i, j>>
  BY DEF ListenersByOwner

(* Listeners come from an indexed parent. *)
LEMMA OwnerIsIndexed ==
  ASSUME NEW objs, NEW owner, ListenersByOwner(objs, owner) # {}
  PROVE  owner \in GatewaysAndListenerSets(objs)
  BY OwnedListener DEF GatewaysAndListenerSets

LEMMA SelectedIsOwned ==
  ASSUME NEW objs, NEW parent
  PROVE  ListenersFor(objs, parent) \subseteq ListenersByOwner(objs, OwnerOf(parent))
  BY DEF ListenersFor

(* The listener a parentRef names is the one ListenersFor picks, when listener
   names are distinct and the parent's identity is unique. *)
LEMMA NamedListenerIsSelected ==
  ASSUME NEW objs, NEW parent, NEW i \in DOMAIN objs, NEW n \in DOMAIN objs[i].listeners,
         OwnsListeners(objs[i]), RefOf(objs[i]) = OwnerOf(parent),
         parent.section \in {Absent, objs[i].listeners[n].name},
         \A k \in DOMAIN objs : RefOf(objs[k]) = RefOf(objs[i]) => k = i,
         \A m \in DOMAIN objs[i].listeners :
           objs[i].listeners[m].name = objs[i].listeners[n].name => m = n,
         i \in Nat, n \in Nat
  PROVE  <<i, n>> \in ListenersFor(objs, parent)
<1> DEFINE p == <<i, n>>
           all == ListenersByOwner(objs, OwnerOf(parent))
           named == {q \in all : ListenerAt(objs, q).name = parent.section}
<1>1. p \in all
  BY OwnedListener
<1>2. CASE parent.section = Absent
  BY <1>1, <1>2 DEF ListenersFor
<1>3. CASE parent.section # Absent
  <2>1. p \in named
    BY <1>1, <1>3 DEF ListenerAt
  <2>2. ASSUME NEW q \in named PROVE q = p
    <3>1. PICK k \in DOMAIN objs : \E j \in DOMAIN objs[k].listeners :
            OwnsListeners(objs[k]) /\ RefOf(objs[k]) = OwnerOf(parent) /\ q = <<k, j>>
      BY <2>2, OwnedListener
    <3>2. PICK m \in DOMAIN objs[k].listeners : q = <<k, m>>
      BY <3>1
    <3>3. k = i
      BY <3>1
    <3>4. objs[i].listeners[m].name = objs[i].listeners[n].name
      BY <1>3, <2>2, <3>2, <3>3 DEF ListenerAt
    <3> QED BY <3>2, <3>3, <3>4
  <2>3. ~Before(p, p)
    BY DEF Before
  <2> QED BY <1>3, <2>1, <2>2, <2>3 DEF ListenersFor
<1> QED BY <1>2, <1>3

-----------------------------------------------------------------------------
(* The four checks that explain a failed attachment divide the parentRefs. *)

LEMMA DanglingHasNoListeners ==
  ASSUME NEW objs, NEW route, NEW r \in DanglingRefs(objs, route)
  PROVE  ListenersFor(objs, ParentOf(route, r)) = {}
         /\ ~Present(objs, ParentOf(route, r))
<1> DEFINE parent == ParentOf(route, r)
<1>1. OwnerOf(parent) \notin GatewaysAndListenerSets(objs)
  BY DEF DanglingRefs
<1>2. ListenersByOwner(objs, OwnerOf(parent)) = {}
  BY <1>1, OwnerIsIndexed
<1> QED BY <1>2, SelectedIsOwned DEF Present

LEMMA DisjointReasons ==
  ASSUME NEW objs, NEW route, NEW r
  PROVE  /\ r \in DanglingRefs(objs, route) =>
              /\ r \notin ListenerNotFoundRefs(objs, route)
              /\ r \notin ProtocolMismatchRefs(objs, route)
              /\ r \notin NotPermittedRefs(objs, route)
         /\ r \in ListenerNotFoundRefs(objs, route) =>
              /\ r \notin ProtocolMismatchRefs(objs, route)
              /\ r \notin NotPermittedRefs(objs, route)
         /\ r \in ProtocolMismatchRefs(objs, route) =>
              r \notin NotPermittedRefs(objs, route)
<1> DEFINE parent == ParentOf(route, r)
           candidates == ListenersFor(objs, parent)
<1>1. r \in ProtocolMismatchRefs(objs, route) =>
        \E p \in candidates :
          /\ ~Refuses(ListenerAt(objs, p), parent, route)
          /\ HasExplicitKinds(ListenerAt(objs, p)) => AcceptsKind(ListenerAt(objs, p), route.type)
  BY DEF ProtocolMismatchRefs
<1>2. r \in NotPermittedRefs(objs, route) =>
        /\ candidates # {}
        /\ \A p \in candidates :
             \/ Refuses(ListenerAt(objs, p), parent, route)
             \/ /\ HasExplicitKinds(ListenerAt(objs, p))
                /\ ~AcceptsKind(ListenerAt(objs, p), route.type)
  BY DEF NotPermittedRefs
<1>3. r \in ListenerNotFoundRefs(objs, route) => candidates = {} /\ Present(objs, parent)
  BY DEF ListenerNotFoundRefs
<1>4. r \in DanglingRefs(objs, route) => candidates = {} /\ ~Present(objs, parent)
  BY DanglingHasNoListeners
<1>5. r \in ProtocolMismatchRefs(objs, route) => Present(objs, parent)
  BY <1>1, SelectedIsOwned DEF Present
<1>6. r \in NotPermittedRefs(objs, route) => Present(objs, parent)
  BY <1>2, SelectedIsOwned DEF Present
<1> HIDE DEF parent, candidates
<1> QED BY <1>1, <1>2, <1>3, <1>4, <1>5, <1>6

-----------------------------------------------------------------------------
(* The state of every Tier 1 run is well typed. *)
THEOREM TypeCorrect == Spec => []TypeOK
<1>1. Init => TypeOK
  BY ChecksAssumption DEF Init, TypeOK
<1>2. TypeOK /\ [Next]_vars => TypeOK'
  <2> SUFFICES ASSUME TypeOK, [Next]_vars PROVE TypeOK'
    OBVIOUS
  <2>1. CASE Load
    BY <2>1 DEF Load, TypeOK
  <2>2. ASSUME NEW check, NEW refs, JudgeRoute(check, refs) PROVE TypeOK'
    BY <2>2, JudgePreservesTypes DEF JudgeRoute
  <2>3. CASE Finish
    BY <2>3 DEF Finish, TypeOK
  <2>4. CASE UNCHANGED vars
    BY <2>4 DEF vars, TypeOK
  <2> QED
    BY <2>1, <2>2, <2>3, <2>4
       DEF Next, DanglingParentRef, HostnameNeverMatches, ListenerNotFound,
           ProtocolMismatch, RouteNotPermitted
<1> QED BY <1>1, <1>2, PTL DEF Spec

-----------------------------------------------------------------------------
(* The inductive invariant: what has been recorded is exactly what the check
   functions called so far return of the loaded set.  A check reads nothing but
   the loaded set, which no action changes after Load, so a finding stays true
   once recorded. *)

Due ==
  UNION {UNION {{<<check, k, r>> : r \in Returns(check, objects, k)} :
           k \in {i \in DOMAIN objects : IsRoute(objects[i])}} :
           check \in AttachmentChecks}

IInv == LoopInv /\ findings = DueSoFar(Due)

LEMMA DueIff ==
  /\ \A check, k, r :
       <<check, k, r>> \in Due <=>
         /\ check \in AttachmentChecks
         /\ k \in DOMAIN objects /\ IsRoute(objects[k])
         /\ r \in Returns(check, objects, k)
  /\ \A f \in Due : f = <<f[1], f[2], f[3]>> /\ f[2] \in DOMAIN objects
  BY DEF Due

(* A check that records exactly what it finds in the loaded set preserves the
   invariant. *)
LEMMA JudgeRoutePreserves ==
  ASSUME IInv, NEW check \in AttachmentChecks,
         JudgeRoute(check, Returns(check, objects, at[1]))
  PROVE  IInv'
<1> DEFINE refs == Returns(check, objects, at[1])
           applies == IsRoute(objects[at[1]])
<1>1. Judge(check, applies, refs)
  BY DEF JudgeRoute, Current
<1>2. at[1] \in DOMAIN objects /\ objects' = objects
  BY <1>1 DEF Judge
<1>3. \A x : <<check, at[1], x>> \in Due <=> applies /\ x \in refs
  BY <1>2, DueIff
<1>4. LoopInv /\ findings = DueSoFar(Due)
  BY DEF IInv
<1>5. findings' = {f \in Due : Called(f[1], f[2])'}
  BY <1>1, <1>2, <1>3, <1>4, DueIff, JudgeRecords
<1>6. Due' = Due
  BY <1>2 DEF Due
<1>7. DueSoFar(Due)' = {f \in Due' : Called(f[1], f[2])'}
  BY DEF DueSoFar
<1>8. LoopInv'
  BY <1>1, <1>4, JudgeLoop
<1> QED BY <1>5, <1>6, <1>7, <1>8 DEF IInv

LEMMA LoadPreserves == ASSUME IInv, Load PROVE IInv'
<1>1. LoopInv /\ LoopInv'
  BY LoadLoop DEF IInv
<1>2. \A f \in Due' : f[2] \in DOMAIN objects'
  BY DEF Due
<1>3. findings' = {f \in Due' : Called(f[1], f[2])'}
  BY <1>1, <1>2, LoadRecords
<1>4. DueSoFar(Due)' = {f \in Due' : Called(f[1], f[2])'}
  BY DEF DueSoFar
<1> QED BY <1>1, <1>3, <1>4 DEF IInv

LEMMA Invariance == Spec => []IInv
<1>1. Init => IInv
  <2> SUFFICES ASSUME Init PROVE IInv
    OBVIOUS
  <2>1. LoopInv
    BY InitLoop
  <2>2. Due = {} /\ findings = {}
    BY DEF Init, Due
  <2> QED BY <2>1, <2>2 DEF IInv, DueSoFar
<1>2. IInv /\ [Next]_vars => IInv'
  <2> SUFFICES ASSUME IInv, [Next]_vars PROVE IInv'
    OBVIOUS
  <2>1. CASE Load
    BY <2>1, LoadPreserves
  <2>2. CASE DanglingParentRef
    BY <2>2, JudgeRoutePreserves
       DEF DanglingParentRef, Returns, Current, AttachmentChecks, NonAttachmentChecks
  <2>3. CASE HostnameNeverMatches
    BY <2>3, JudgeRoutePreserves
       DEF HostnameNeverMatches, Returns, Current, AttachmentChecks
  <2>4. CASE ListenerNotFound
    BY <2>4, JudgeRoutePreserves
       DEF ListenerNotFound, Returns, Current, AttachmentChecks, NonAttachmentChecks
  <2>5. CASE ProtocolMismatch
    BY <2>5, JudgeRoutePreserves
       DEF ProtocolMismatch, Returns, Current, AttachmentChecks, NonAttachmentChecks
  <2>6. CASE RouteNotPermitted
    BY <2>6, JudgeRoutePreserves
       DEF RouteNotPermitted, Returns, Current, AttachmentChecks, NonAttachmentChecks
  <2>7. CASE Finish
    <3>1. LoopInv'
      BY <2>7, FinishLoop DEF IInv
    <3> QED BY <2>7, <3>1 DEF Finish, IInv, DueSoFar, Due, Called
  <2>8. CASE UNCHANGED vars
    <3>1. LoopInv'
      BY <2>8, StutterLoop DEF IInv
    <3> QED BY <2>8, <3>1 DEF vars, IInv, DueSoFar, Due, Called
  <2> QED BY <2>1, <2>2, <2>3, <2>4, <2>5, <2>6, <2>7, <2>8 DEF Next
<1> QED BY <1>1, <1>2, PTL DEF Spec

(* What a finding about a parentRef says, unpacked. *)
LEMMA ReportedIsGrounded ==
  ASSUME IInv, NEW check, NEW k, NEW r, Reported(check, k, r)
  PROVE  /\ objects \in ManifestSets
         /\ k \in DOMAIN objects
         /\ check \in AttachmentChecks
         /\ r \in Returns(check, objects, k)
<1>1. <<check, k, r>> \in Due
  BY DEF IInv, Reported, DueSoFar
<1>2. phase # "load"
  BY DEF IInv, LoopInv, Reported
<1> QED BY <1>1, <1>2, DueIff DEF IInv, LoopInv

(* A finished run has reported exactly what the enabled check functions return
   of every route. *)
LEMMA FinishedRun ==
  ASSUME IInv, phase = "done", NEW check \in AttachmentChecks, check \in Enabled,
         NEW k \in DOMAIN objects, IsRoute(objects[k]), NEW r
  PROVE  Reported(check, k, r) <=> r \in Returns(check, objects, k)
<1>1. PICK c \in DOMAIN Checks : Checks[c] = check
  BY DEF Enabled
<1>2. Called(check, k)
  BY <1>1, AllCalled DEF IInv
<1>3. <<check, k, r>> \in findings <=> <<check, k, r>> \in Due
  BY <1>2 DEF IInv, DueSoFar
<1> QED BY <1>3, DueIff DEF Reported

-----------------------------------------------------------------------------
(* At most one of dangling-parent-ref, listener-not-found, protocol-mismatch
   and route-not-permitted explains a parentRef, whatever is loaded: the four
   check functions divide the cases between them (attach.go, "so a mismatch is
   never reported by both"). *)
THEOREM NoDoubleExplanation == Spec => []OneExplanation
<1>1. IInv => OneExplanation
  <2> SUFFICES ASSUME IInv, NEW ref \in LoadedRefs,
                      NEW c \in NonAttachmentChecks, NEW d \in NonAttachmentChecks,
                      Reported(c, ref[1], ref[2]), Reported(d, ref[1], ref[2])
               PROVE  c = d
    BY DEF OneExplanation
  <2> DEFINE route == objects[ref[1]]
  <2>1. /\ ref[2] \in Returns(c, objects, ref[1])
        /\ ref[2] \in Returns(d, objects, ref[1])
    BY ReportedIsGrounded
  <2> HIDE DEF route
  <2> QED BY <2>1, DisjointReasons DEF Returns, NonAttachmentChecks
<1> QED BY <1>1, Invariance, PTL

(* A parentRef whose parent is not in the set is at most dangling, and only
   when the set has some parent: linting one chart without its Gateway stays
   quiet (danglingparentref's guard on an empty index, and the other checks'
   silence when ListenersFor returns nothing). *)
THEOREM PartialSetsAreQuiet == Spec => []AbsentParentIsQuiet
<1>1. IInv => AbsentParentIsQuiet
  <2> SUFFICES ASSUME IInv, NEW f \in findings,
                      OwnerOf(ParentOf(objects[f[2]], f[3])) \notin GatewaysAndListenerSets(objects)
               PROVE  /\ f[1] = "dangling-parent-ref"
                      /\ \E i \in DOMAIN objects : objects[i].type \in {"Gateway", "ListenerSet"}
    BY DEF AbsentParentIsQuiet
  <2> DEFINE route == objects[f[2]]
             parent == ParentOf(route, f[3])
  <2>1. ListenersByOwner(objects, OwnerOf(parent)) = {}
    BY OwnerIsIndexed
  <2>2. ListenersFor(objects, parent) = {} /\ ~Present(objects, parent)
    BY <2>1, SelectedIsOwned DEF Present
  <2>3. /\ f[1] \in AttachmentChecks
        /\ f[3] \in Returns(f[1], objects, f[2])
    <3>1. f = <<f[1], f[2], f[3]>>
      BY DueIff DEF IInv, DueSoFar
    <3>2. Reported(f[1], f[2], f[3])
      BY <3>1 DEF Reported
    <3> QED BY <3>2, ReportedIsGrounded
  <2>4. f[3] \notin ListenerNotFoundRefs(objects, route)
    BY <2>2 DEF ListenerNotFoundRefs
  <2>5. f[3] \notin NotPermittedRefs(objects, route)
    BY <2>2 DEF NotPermittedRefs
  <2>6. f[3] \notin ProtocolMismatchRefs(objects, route)
    BY <2>2 DEF ProtocolMismatchRefs
  <2>7. f[3] \notin HostnameMismatchRefs(objects, route)
    BY <2>2 DEF HostnameMismatchRefs
  <2>8. f[1] = "dangling-parent-ref" /\ f[3] \in DanglingRefs(objects, route)
    BY <2>3, <2>4, <2>5, <2>6, <2>7 DEF Returns, AttachmentChecks, NonAttachmentChecks
  <2>9. GatewaysAndListenerSets(objects) # {}
    BY <2>8 DEF DanglingRefs
  <2> QED BY <2>8, <2>9 DEF GatewaysAndListenerSets, OwnsListeners
<1> QED BY <1>1, Invariance, PTL

-----------------------------------------------------------------------------
(* The listener a parentRef selects by the reference meaning is one its check
   looks at. *)
LEMMA SelectedIsCandidate ==
  ASSUME objects \in ManifestSets, ListenerNamesDistinct, NEW parent,
         NEW i \in ParentsNamed(parent), OwnsListeners(objects[i]),
         NEW n \in DOMAIN objects[i].listeners,
         parent.section \in {Absent, objects[i].listeners[n].name}
  PROVE  <<i, n>> \in ListenersFor(objects, parent)
<1>1. /\ i \in DOMAIN objects
      /\ objects[i].type \in {"Gateway", "ListenerSet"}
      /\ RefOf(objects[i]) = OwnerOf(parent)
  BY DEF ParentsNamed
<1>2. i \in Nat /\ n \in Nat
  BY <1>1, SequencesAssumption
<1>3. \A k \in DOMAIN objects : RefOf(objects[k]) = RefOf(objects[i]) => k = i
  BY <1>1, IdentityAssumption
<1>4. \A m \in DOMAIN objects[i].listeners :
        objects[i].listeners[m].name = objects[i].listeners[n].name => m = n
  BY <1>1 DEF ListenerNamesDistinct
<1> QED BY <1>1, <1>2, <1>3, <1>4, NamedListenerIsSelected

LEMMA SelectedUnpacked ==
  ASSUME NEW parent, NEW l \in SelectedListeners(parent)
  PROVE  \E i \in ParentsNamed(parent) : \E n \in DOMAIN objects[i].listeners :
           /\ parent.section \in {Absent, objects[i].listeners[n].name}
           /\ l = objects[i].listeners[n]
  BY DEF SelectedListeners

(* A listener that admits a route gives none of the refusals the checks look
   for. *)
LEMMA AdmittingListenerRefusesNothing ==
  ASSUME NEW l, NEW parent, NEW route, Admits(l, parent, route)
  PROVE  /\ ~Refuses(l, parent, route)
         /\ AcceptsKind(l, route.type)
         /\ Carries(l, route.type)
<1>1. ~Refuses(l, parent, route)
  BY AbsentAssumption DEF Admits, Refuses, AcceptsNamespace
<1>2. CASE HasExplicitKinds(l)
  <2>1. PICK k \in l.kinds : k.kind = route.type /\ k.group \in {Absent, GroupName}
    BY <1>2 DEF Admits, HasExplicitKinds
  <2>2. route.type \in {e.kind : e \in {d \in l.kinds : d.group \in {Absent, GroupName}}}
    BY <2>1
  <2>3. Carries(l, route.type)
    BY DEF Admits, Carries
  <2> QED BY <1>1, <1>2, <2>2, <2>3 DEF AcceptsKind, AcceptedKinds
<1>3. CASE ~HasExplicitKinds(l)
  BY <1>1, <1>3 DEF Admits, Carries, AcceptsKind, AcceptedKinds
<1> QED BY <1>2, <1>3

(* No false alarm, for every manifest set in which object identities and a
   parent's listener names are unique: what one of the four checks reports as
   never attaching does not attach, by the reference meaning of a parentRef. *)
THEOREM NoFalseAlarms == Spec => []NoFalseAlarm
<1>1. IInv => NoFalseAlarm
  <2> SUFFICES ASSUME IInv, ListenerNamesDistinct,
                      NEW ref \in LoadedRefs, NEW check \in NonAttachmentChecks,
                      Reported(check, ref[1], ref[2]), ParentIsV1(ref[1], ref[2]),
                      Attaches(ref[1], ref[2])
               PROVE  FALSE
    BY DEF NoFalseAlarm
  <2> DEFINE route == objects[ref[1]]
             parent == ParentOf(route, ref[2])
  <2>1. /\ objects \in ManifestSets
        /\ ref[2] \in Returns(check, objects, ref[1])
    BY ReportedIsGrounded
  <2>2. PICK l \in SelectedListeners(parent) : Admits(l, parent, route)
    BY DEF Attaches
  <2>3. PICK i \in ParentsNamed(parent) : \E j \in DOMAIN objects[i].listeners :
          /\ parent.section \in {Absent, objects[i].listeners[j].name}
          /\ l = objects[i].listeners[j]
    BY <2>2, SelectedUnpacked
  <2>4. PICK n \in DOMAIN objects[i].listeners :
          /\ parent.section \in {Absent, objects[i].listeners[n].name}
          /\ l = objects[i].listeners[n]
    BY <2>3
  <2>5. OwnsListeners(objects[i])
    BY <2>3 DEF ParentsNamed, ParentIsV1, OwnsListeners
  <2>6. <<i, n>> \in ListenersFor(objects, parent)
    BY <2>1, <2>4, <2>5, SelectedIsCandidate
  <2>7. /\ ListenerAt(objects, <<i, n>>) = l
        /\ ~Refuses(l, parent, route)
        /\ AcceptsKind(l, route.type)
        /\ Carries(l, route.type)
    BY <2>2, <2>4, AdmittingListenerRefusesNothing DEF ListenerAt
  <2>8. ref[2] \notin DanglingRefs(objects, route)
    BY <2>6, DanglingHasNoListeners
  <2>9. ref[2] \notin ListenerNotFoundRefs(objects, route)
    BY <2>6 DEF ListenerNotFoundRefs
  <2>10. ref[2] \notin ProtocolMismatchRefs(objects, route)
    BY <2>6, <2>7 DEF ProtocolMismatchRefs
  <2>11. ref[2] \notin NotPermittedRefs(objects, route)
    BY <2>6, <2>7 DEF NotPermittedRefs
  <2> QED BY <2>1, <2>8, <2>9, <2>10, <2>11 DEF Returns, NonAttachmentChecks
<1> QED BY <1>1, Invariance, PTL

-----------------------------------------------------------------------------
(* A hostname the listener and the route both cover makes them intersect. *)
LEMMA CommonHostIntersects ==
  ASSUME NEW g \in Hostname, NEW hostnames \in SUBSET Hostname,
         NEW h \in hostnames, CommonHost(g, h, Hosts), Hosts \subseteq Hostname
  PROVE  HostnamesOverlap(g, h)
<1>1. CommonHost(g, h, Hostname)
  BY DEF CommonHost
<1> QED BY <1>1, OverlapIsCommonHost

(* The soundness half of HostnameVerdictExact. *)
HostnameVerdictSound ==
  ListenerNamesDistinct =>
    \A ref \in LoadedRefs :
      Reported("hostname-never-matches", ref[1], ref[2]) => ~Serves(ref[1], ref[2])

(* hostname-never-matches is never wrong about a route a client can reach: for
   every manifest set, every reported parentRef serves no host at all, however
   many labels hostnames have. *)
THEOREM ServingRouteNeverBlamed == Spec => []HostnameVerdictSound
<1>1. IInv => HostnameVerdictSound
  <2> SUFFICES ASSUME IInv, ListenerNamesDistinct, NEW ref \in LoadedRefs,
                      Reported("hostname-never-matches", ref[1], ref[2]),
                      Serves(ref[1], ref[2])
               PROVE  FALSE
    BY DEF HostnameVerdictSound
  <2> DEFINE k == ref[1]
             route == objects[k]
             parent == ParentOf(route, ref[2])
             hostnames == HostnamesOf(route)
             judged == {p \in ListenersFor(objects, parent) :
                          /\ ~Refuses(ListenerAt(objects, p), parent, route)
                          /\ AcceptsKind(ListenerAt(objects, p), route.type)}
  <2>1. /\ objects \in ManifestSets
        /\ k \in DOMAIN objects
        /\ ref[2] \in HostnameMismatchRefs(objects, route)
    BY ReportedIsGrounded DEF Returns
  <2>2. /\ judged # {}
        /\ \A p \in judged : ~HostnamesIntersect(ListenerAt(objects, p), hostnames)
    BY <2>1 DEF HostnameMismatchRefs
  <2>3. PICK l \in SelectedListeners(parent) :
          /\ Admits(l, parent, route)
          /\ \/ AnyHostname(l)
             \/ hostnames = {}
             \/ \E h \in hostnames : CommonHost(l.hostname, h, Hosts)
    BY DEF Serves
  <2>4. PICK i \in ParentsNamed(parent) : \E j \in DOMAIN objects[i].listeners :
          /\ parent.section \in {Absent, objects[i].listeners[j].name}
          /\ l = objects[i].listeners[j]
    BY <2>3, SelectedUnpacked
  <2>5. PICK n \in DOMAIN objects[i].listeners :
          /\ parent.section \in {Absent, objects[i].listeners[n].name}
          /\ l = objects[i].listeners[n]
    BY <2>4
  <2>6. OwnsListeners(objects[i])
    <3>1. ListenersByOwner(objects, OwnerOf(parent)) # {}
      BY <2>2, SelectedIsOwned
    <3>2. PICK o \in DOMAIN objects :
            OwnsListeners(objects[o]) /\ RefOf(objects[o]) = OwnerOf(parent)
      BY <3>1, OwnedListener
    <3>3. o = i
      BY <2>1, <3>2, IdentityAssumption DEF ParentsNamed
    <3> QED BY <3>2, <3>3
  <2>7. <<i, n>> \in judged /\ ListenerAt(objects, <<i, n>>) = l
    <3>1. <<i, n>> \in ListenersFor(objects, parent)
      BY <2>1, <2>5, <2>6, SelectedIsCandidate
    <3>2. ListenerAt(objects, <<i, n>>) = l
      BY <2>5 DEF ListenerAt
    <3> QED BY <2>3, <3>1, <3>2, AdmittingListenerRefusesNothing
  <2>8. ~HostnamesIntersect(l, hostnames)
    BY <2>2, <2>7
  <2>9. PICK h \in hostnames : CommonHost(l.hostname, h, Hosts)
    BY <2>3, <2>8 DEF HostnamesIntersect, AnyHostname
  <2>10. l.hostname \in Hostname
    BY <2>1, <2>4, <2>5, <2>6, <2>8, HostnamesAssumption
       DEF ParentsNamed, HostnamesIntersect, AnyHostname, Hostname
  <2>11. hostnames \in SUBSET Hostname /\ Hosts \subseteq Hostname
    <3>1. IsRoute(route)
      BY DEF LoadedRefs
    <3> QED BY <2>1, <3>1, HostnamesAssumption DEF Hostname
  <2>12. HostnamesOverlap(l.hostname, h)
    BY <2>9, <2>10, <2>11, CommonHostIntersects
  <2> QED BY <2>8, <2>9, <2>12 DEF HostnamesIntersect, AnyHostname
<1> QED BY <1>1, Invariance, PTL

-----------------------------------------------------------------------------
(* Completeness: what a finished run cannot have left unsaid. *)

LEMMA LoadedRef ==
  ASSUME NEW ref \in LoadedRefs
  PROVE  /\ ref[1] \in DOMAIN objects /\ IsRoute(objects[ref[1]])
         /\ ref[2] \in GatewayRefs(objects[ref[1]])
  BY DEF LoadedRefs

LEMMA DoneIsLoaded == ASSUME IInv, phase = "done" PROVE objects \in ManifestSets
  BY DEF IInv, LoopInv

(* A parentRef that names its listener leaves the checks at most one to look
   at, and that one is selected by the reference meaning. *)
LEMMA NamedCandidate ==
  ASSUME objects \in ManifestSets, ListenerNamesDistinct, NEW parent,
         parent.section # Absent,
         NEW p \in ListenersFor(objects, parent), NEW q \in ListenersFor(objects, parent)
  PROVE  /\ p = q
         /\ ListenerAt(objects, p) \in SelectedListeners(parent)
         /\ \E i \in DOMAIN objects : OwnsListeners(objects[i]) /\
              \E j \in DOMAIN objects[i].listeners :
                ListenerAt(objects, p) = objects[i].listeners[j]
<1>1. ASSUME NEW t \in ListenersFor(objects, parent)
      PROVE  \E i \in DOMAIN objects : \E j \in DOMAIN objects[i].listeners :
               /\ OwnsListeners(objects[i]) /\ RefOf(objects[i]) = OwnerOf(parent)
               /\ t = <<i, j>> /\ objects[i].listeners[j].name = parent.section
  <2>1. t \in ListenersByOwner(objects, OwnerOf(parent))
        /\ ListenerAt(objects, t).name = parent.section
    BY DEF ListenersFor
  <2> QED BY <2>1, OwnedListener DEF ListenerAt
<1>2. PICK i \in DOMAIN objects : \E j \in DOMAIN objects[i].listeners :
        /\ OwnsListeners(objects[i]) /\ RefOf(objects[i]) = OwnerOf(parent)
        /\ p = <<i, j>> /\ objects[i].listeners[j].name = parent.section
  BY <1>1
<1>3. PICK j \in DOMAIN objects[i].listeners :
        p = <<i, j>> /\ objects[i].listeners[j].name = parent.section
  BY <1>2
<1>4. PICK k \in DOMAIN objects : \E n \in DOMAIN objects[k].listeners :
        /\ RefOf(objects[k]) = OwnerOf(parent)
        /\ q = <<k, n>> /\ objects[k].listeners[n].name = parent.section
  BY <1>1
<1>5. k = i
  BY <1>2, <1>4, IdentityAssumption
<1>6. p = q
  BY <1>2, <1>3, <1>4, <1>5 DEF ListenerNamesDistinct, OwnsListeners
<1>7. ListenerAt(objects, p) = objects[i].listeners[j]
  BY <1>3 DEF ListenerAt
<1>8. i \in ParentsNamed(parent)
  BY <1>2 DEF ParentsNamed, OwnsListeners
<1>9. objects[i].listeners[j] \in SelectedListeners(parent)
  BY <1>3, <1>8 DEF SelectedListeners
<1> QED BY <1>2, <1>6, <1>7, <1>9

(* The only candidate, if it admits nothing, is left to route-not-permitted or
   protocol-mismatch. *)
LEMMA RefusalExplainedForOne ==
  ASSUME NEW objs, NEW route, NEW r \in GatewayRefs(route), NEW p,
         ListenersFor(objs, ParentOf(route, r)) = {p},
         ListenerAt(objs, p).from \in {Absent, "Same", "All", "Selector"},
         ListenerAt(objs, p).kinds # {} => AcceptedKinds(ListenerAt(objs, p)) # {},
         ~Admits(ListenerAt(objs, p), ParentOf(route, r), route)
  PROVE  r \in NotPermittedRefs(objs, route) \cup ProtocolMismatchRefs(objs, route)
<1> DEFINE parent == ParentOf(route, r)
           l == ListenerAt(objs, p)
<1>1. Refuses(l, parent, route) \/ (HasExplicitKinds(l) /\ ~AcceptsKind(l, route.type))
      => r \in NotPermittedRefs(objs, route)
  BY DEF NotPermittedRefs
<1>2. /\ ~Refuses(l, parent, route)
      /\ ~Carries(l, route.type)
      /\ HasExplicitKinds(l) => AcceptsKind(l, route.type)
      => r \in ProtocolMismatchRefs(objs, route)
  BY DEF ProtocolMismatchRefs
<1>3. \/ ~(l.from \in {"All", "Selector"} \/ route.ns = parent.ns)
      \/ ~(l.kinds # {} => \E k \in l.kinds : k.kind = route.type /\ k.group \in {Absent, GroupName})
      \/ ~(RouteKindsFor(l.protocol) # {} => route.type \in RouteKindsFor(l.protocol))
  BY DEF Admits
<1>4. CASE ~(l.from \in {"All", "Selector"} \/ route.ns = parent.ns)
  BY <1>1, <1>4 DEF Refuses, AcceptsNamespace
<1>5. CASE ~(l.kinds # {} => \E k \in l.kinds : k.kind = route.type /\ k.group \in {Absent, GroupName})
  <2>1. HasExplicitKinds(l) /\ route.type \notin AcceptedKinds(l)
    BY <1>5 DEF HasExplicitKinds, AcceptedKinds
  <2>2. ~AcceptsKind(l, route.type)
    BY <2>1 DEF AcceptsKind, HasExplicitKinds
  <2> QED BY <1>1, <2>1, <2>2
<1>6. CASE ~(RouteKindsFor(l.protocol) # {} => route.type \in RouteKindsFor(l.protocol))
  <2>1. ~Carries(l, route.type)
    BY <1>6 DEF Carries
  <2> QED BY <1>1, <1>2, <2>1
<1> QED BY <1>3, <1>4, <1>5, <1>6

(* Nothing falls between the checks where a parentRef names its listener: each
   check's comment leaves a case to another one, and together they leave none
   out. *)
THEOREM NamedListenersJudged == Spec => []NamedListenerJudged
<1>1. IInv => NamedListenerJudged
  <2> SUFFICES ASSUME IInv, phase = "done", ListenerNamesDistinct,
                      NonAttachmentChecks \subseteq Enabled, NEW ref \in LoadedRefs,
                      ParentOf(objects[ref[1]], ref[2]).section # Absent,
                      Present(objects, ParentOf(objects[ref[1]], ref[2])),
                      ~\E l \in SelectedListeners(ParentOf(objects[ref[1]], ref[2])) :
                         l.kinds # {} /\ AcceptedKinds(l) = {},
                      ~Attaches(ref[1], ref[2])
               PROVE  \E c \in NonAttachmentChecks : Reported(c, ref[1], ref[2])
    BY DEF NamedListenerJudged
  <2> DEFINE k == ref[1]
             r == ref[2]
             parent == ParentOf(objects[k], r)
             candidates == ListenersFor(objects, parent)
  <2>1. /\ k \in DOMAIN objects /\ IsRoute(objects[k])
        /\ r \in GatewayRefs(objects[k]) /\ objects \in ManifestSets
    BY LoadedRef, DoneIsLoaded
  <2>2. \A c \in NonAttachmentChecks : r \in Returns(c, objects, k) => Reported(c, k, r)
    BY <2>1, FinishedRun DEF AttachmentChecks
  <2>3. CASE candidates = {}
    <3>1. r \in ListenerNotFoundRefs(objects, objects[k])
      BY <2>1, <2>3 DEF ListenerNotFoundRefs
    <3> QED BY <2>2, <3>1 DEF Returns, NonAttachmentChecks
  <2>4. CASE candidates # {}
    <3>1. PICK p \in candidates : TRUE
      BY <2>4
    <3>2. candidates = {p}
      BY <2>1, <3>1, NamedCandidate
    <3>3. ListenerAt(objects, p) \in SelectedListeners(parent)
      BY <2>1, <3>1, NamedCandidate
    <3>4. ~Admits(ListenerAt(objects, p), parent, objects[k])
      BY <3>3 DEF Attaches
    <3>5. ListenerAt(objects, p).from \in {Absent, "Same", "All", "Selector"}
      <4>1. PICK i \in DOMAIN objects : OwnsListeners(objects[i]) /\
              \E j \in DOMAIN objects[i].listeners :
                ListenerAt(objects, p) = objects[i].listeners[j]
        BY <2>1, <3>1, NamedCandidate
      <4> QED BY <2>1, <4>1, FromAssumption
    <3>6. r \in NotPermittedRefs(objects, objects[k])
          \/ r \in ProtocolMismatchRefs(objects, objects[k])
      BY <2>1, <3>2, <3>3, <3>4, <3>5, RefusalExplainedForOne
    <3> QED BY <2>2, <3>6 DEF Returns, NonAttachmentChecks
  <2> QED BY <2>3, <2>4
<1> QED BY <1>1, Invariance, PTL

-----------------------------------------------------------------------------
(* Where nothing is said of a parentRef that does not attach. *)

(* What ListenersFor returns are listeners of an indexed object that the
   parentRef selects. *)
LEMMA CandidateIsSelected ==
  ASSUME NEW parent, NEW p \in ListenersFor(objects, parent)
  PROVE  /\ ListenerAt(objects, p) \in SelectedListeners(parent)
         /\ \E i \in DOMAIN objects : OwnsListeners(objects[i]) /\
              \E j \in DOMAIN objects[i].listeners :
                ListenerAt(objects, p) = objects[i].listeners[j]
<1>1. /\ p \in ListenersByOwner(objects, OwnerOf(parent))
      /\ parent.section \in {Absent, ListenerAt(objects, p).name}
  BY DEF ListenersFor
<1>2. PICK i \in DOMAIN objects : \E j \in DOMAIN objects[i].listeners :
        OwnsListeners(objects[i]) /\ RefOf(objects[i]) = OwnerOf(parent) /\ p = <<i, j>>
  BY <1>1, OwnedListener
<1>3. PICK j \in DOMAIN objects[i].listeners : p = <<i, j>>
  BY <1>2
<1>4. ListenerAt(objects, p) = objects[i].listeners[j]
  BY <1>3 DEF ListenerAt
<1>5. i \in ParentsNamed(parent)
  BY <1>2 DEF ParentsNamed, OwnsListeners
<1>6. objects[i].listeners[j] \in SelectedListeners(parent)
  BY <1>1, <1>4, <1>5 DEF SelectedListeners
<1> QED BY <1>2, <1>4, <1>6

(* A listener that does not admit a route refuses its namespace, or names kinds
   that exclude it, or cannot carry it. *)
LEMMA WhatRefuses ==
  ASSUME NEW l, NEW parent, NEW route, ~Admits(l, parent, route),
         l.from \in {Absent, "Same", "All", "Selector"}
  PROVE  \/ Refuses(l, parent, route)
         \/ HasExplicitKinds(l) /\ ~AcceptsKind(l, route.type)
         \/ ~Carries(l, route.type)
         \/ OnlyForeignKinds(l)
<1>1. CASE ~(l.from \in {"All", "Selector"} \/ route.ns = parent.ns)
  BY <1>1 DEF Refuses, AcceptsNamespace
<1>2. CASE ~(l.kinds # {} => \E k \in l.kinds : k.kind = route.type /\ k.group \in {Absent, GroupName})
  <2>1. HasExplicitKinds(l) /\ route.type \notin AcceptedKinds(l)
    BY <1>2 DEF HasExplicitKinds, AcceptedKinds
  <2>2. CASE AcceptedKinds(l) = {}
    BY <2>1, <2>2 DEF AcceptedKinds, HasExplicitKinds, OnlyForeignKinds
  <2> QED BY <2>1, <2>2 DEF AcceptsKind
<1>3. CASE ~(RouteKindsFor(l.protocol) # {} => route.type \in RouteKindsFor(l.protocol))
  BY <1>3 DEF Carries
<1> QED BY <1>1, <1>2, <1>3 DEF Admits

(* A listener that names foreign kinds only takes every kind for the code. *)
LEMMA ForeignKindsAccepted ==
  ASSUME NEW l, OnlyForeignKinds(l), NEW kind
  PROVE  HasExplicitKinds(l) /\ AcceptsKind(l, kind)
  BY DEF OnlyForeignKinds, HasExplicitKinds, AcceptsKind, AcceptedKinds

(* Of listeners that all refuse the route, either one of the two checks on
   refusals speaks, or they split the refusal between them. *)
LEMMA RefusalsDivide ==
  ASSUME NEW k, NEW r \in GatewayRefs(objects[k]),
         ListenersFor(objects, ParentOf(objects[k], r)) # {},
         \A p \in ListenersFor(objects, ParentOf(objects[k], r)) :
           LET l == ListenerAt(objects, p) IN
           \/ Refuses(l, ParentOf(objects[k], r), objects[k])
           \/ HasExplicitKinds(l) /\ ~AcceptsKind(l, objects[k].type)
           \/ ~Carries(l, objects[k].type)
           \/ OnlyForeignKinds(l)
  PROVE  RefusalIsSplit(k, r) \/ RefusalIsUnseen(k, r) <=>
           /\ r \notin NotPermittedRefs(objects, objects[k])
           /\ r \notin ProtocolMismatchRefs(objects, objects[k])
<1> DEFINE parent == ParentOf(objects[k], r)
           kind == objects[k].type
           candidates == ListenersFor(objects, parent)
           admitting == {p \in candidates : ~Refuses(ListenerAt(objects, p), parent, objects[k])}
           byProtocol(l) == ~Carries(l, kind) /\ (HasExplicitKinds(l) => AcceptsKind(l, kind))
           byKinds(l) == Carries(l, kind) /\ HasExplicitKinds(l) /\ ~AcceptsKind(l, kind)
<1>1. RefusalIsSplit(k, r) <=>
        /\ \E p \in admitting : byProtocol(ListenerAt(objects, p))
        /\ \E p \in admitting : byKinds(ListenerAt(objects, p))
  BY DEF RefusalIsSplit
<1>2. r \notin NotPermittedRefs(objects, objects[k]) <=>
        \E p \in admitting :
          HasExplicitKinds(ListenerAt(objects, p)) => AcceptsKind(ListenerAt(objects, p), kind)
  BY DEF NotPermittedRefs
<1>3. r \in ProtocolMismatchRefs(objects, objects[k]) <=>
        /\ \A p \in admitting : ~Carries(ListenerAt(objects, p), kind)
        /\ \E p \in admitting :
             HasExplicitKinds(ListenerAt(objects, p)) => AcceptsKind(ListenerAt(objects, p), kind)
  BY DEF ProtocolMismatchRefs
<1>4. \A p \in admitting :
        \/ HasExplicitKinds(ListenerAt(objects, p)) /\ ~AcceptsKind(ListenerAt(objects, p), kind)
        \/ ~Carries(ListenerAt(objects, p), kind)
        \/ OnlyForeignKinds(ListenerAt(objects, p))
  OBVIOUS
<1>5. RefusalIsUnseen(k, r) <=>
        \E p \in admitting :
          OnlyForeignKinds(ListenerAt(objects, p)) /\ Carries(ListenerAt(objects, p), kind)
  BY DEF RefusalIsUnseen
<1>6. \A p : OnlyForeignKinds(ListenerAt(objects, p)) =>
        HasExplicitKinds(ListenerAt(objects, p)) /\ AcceptsKind(ListenerAt(objects, p), kind)
  BY ForeignKindsAccepted
<1> HIDE DEF admitting, parent, candidates, kind
<1> QED BY <1>1, <1>2, <1>3, <1>4, <1>5, <1>6

(* Which failed attachments go unexplained, and no others: the disagreement that
   RefusalExplained runs into is this one, for any number of listeners. *)
THEOREM SilencesAccountedFor == Spec => []SilenceAccountedFor
<1>1. IInv => SilenceAccountedFor
  <2> SUFFICES ASSUME IInv, phase = "done", ListenerNamesDistinct,
                      NonAttachmentChecks \subseteq Enabled, NEW ref \in LoadedRefs,
                      ~Attaches(ref[1], ref[2])
               PROVE  (\A c \in NonAttachmentChecks : ~Reported(c, ref[1], ref[2])) <=>
                        \/ GatewaysAndListenerSets(objects) = {}
                        \/ /\ OwnerOf(ParentOf(objects[ref[1]], ref[2]))
                                \in GatewaysAndListenerSets(objects)
                           /\ ~Present(objects, ParentOf(objects[ref[1]], ref[2]))
                        \/ RefusalIsSplit(ref[1], ref[2])
                        \/ RefusalIsUnseen(ref[1], ref[2])
    BY DEF SilenceAccountedFor
  <2> DEFINE k == ref[1]
             r == ref[2]
             parent == ParentOf(objects[k], r)
             known == GatewaysAndListenerSets(objects)
             candidates == ListenersFor(objects, parent)
             silent == /\ r \notin DanglingRefs(objects, objects[k])
                       /\ r \notin ListenerNotFoundRefs(objects, objects[k])
                       /\ r \notin NotPermittedRefs(objects, objects[k])
                       /\ r \notin ProtocolMismatchRefs(objects, objects[k])
  <2>1. /\ k \in DOMAIN objects /\ IsRoute(objects[k])
        /\ r \in GatewayRefs(objects[k]) /\ objects \in ManifestSets
    BY LoadedRef, DoneIsLoaded
  <2>2. (\A c \in NonAttachmentChecks : ~Reported(c, k, r)) <=> silent
    <3>1. \A c \in NonAttachmentChecks : Reported(c, k, r) <=> r \in Returns(c, objects, k)
      BY <2>1, FinishedRun DEF AttachmentChecks
    <3> QED BY <3>1 DEF Returns, NonAttachmentChecks
  <2>3. r \in DanglingRefs(objects, objects[k]) <=> known # {} /\ OwnerOf(parent) \notin known
    BY <2>1 DEF DanglingRefs
  <2>4. Present(objects, parent) => OwnerOf(parent) \in known
    BY OwnerIsIndexed DEF Present
  <2>5. candidates # {} => Present(objects, parent)
    BY SelectedIsOwned DEF Present
  <2>6. candidates = {} =>
          /\ r \notin NotPermittedRefs(objects, objects[k])
          /\ r \notin ProtocolMismatchRefs(objects, objects[k])
          /\ ~RefusalIsSplit(k, r) /\ ~RefusalIsUnseen(k, r)
    BY DEF NotPermittedRefs, ProtocolMismatchRefs, RefusalIsSplit, RefusalIsUnseen
  <2>7. candidates = {} /\ Present(objects, parent) =>
          r \in ListenerNotFoundRefs(objects, objects[k])
    BY <2>1 DEF ListenerNotFoundRefs, ListenersFor, Present
  <2>8. r \in ListenerNotFoundRefs(objects, objects[k]) =>
          candidates = {} /\ Present(objects, parent)
    BY DEF ListenerNotFoundRefs
  <2>9. CASE candidates # {}
    <3>1. ASSUME NEW p \in candidates
          PROVE  LET l == ListenerAt(objects, p) IN
                 \/ Refuses(l, parent, objects[k])
                 \/ HasExplicitKinds(l) /\ ~AcceptsKind(l, objects[k].type)
                 \/ ~Carries(l, objects[k].type)
                 \/ OnlyForeignKinds(l)
      <4>1. /\ ListenerAt(objects, p) \in SelectedListeners(parent)
            /\ \E i \in DOMAIN objects : OwnsListeners(objects[i]) /\
                 \E j \in DOMAIN objects[i].listeners :
                   ListenerAt(objects, p) = objects[i].listeners[j]
        BY CandidateIsSelected
      <4>2. ~Admits(ListenerAt(objects, p), parent, objects[k])
        BY <4>1 DEF Attaches
      <4>3. ListenerAt(objects, p).from \in {Absent, "Same", "All", "Selector"}
        BY <2>1, <4>1, FromAssumption
      <4> QED BY <4>1, <4>2, <4>3, WhatRefuses
    <3>2. RefusalIsSplit(k, r) \/ RefusalIsUnseen(k, r) <=>
            /\ r \notin NotPermittedRefs(objects, objects[k])
            /\ r \notin ProtocolMismatchRefs(objects, objects[k])
      BY <2>1, <2>9, <3>1, RefusalsDivide
    <3> QED BY <2>2, <2>3, <2>4, <2>5, <2>8, <2>9, <3>2
  <2>10. CASE candidates = {}
    BY <2>2, <2>3, <2>4, <2>6, <2>7, <2>8, <2>10
  <2> QED BY <2>9, <2>10
<1> QED BY <1>1, Invariance, PTL

(* With every hostname there is for `Hosts`, a route that attaches to the
   listener it names and can serve no client is reported. *)
LEMMA UnservedRouteReported ==
  ASSUME IInv, phase = "done", ListenerNamesDistinct, Hosts = Hostname,
         "hostname-never-matches" \in Enabled, NEW ref \in LoadedRefs,
         ParentOf(objects[ref[1]], ref[2]).section # Absent,
         ParentIsV1(ref[1], ref[2]), Attaches(ref[1], ref[2]), ~Serves(ref[1], ref[2])
  PROVE  Reported("hostname-never-matches", ref[1], ref[2])
<1> DEFINE k == ref[1]
           r == ref[2]
           route == objects[k]
           parent == ParentOf(route, r)
           hostnames == HostnamesOf(route)
           judged == {p \in ListenersFor(objects, parent) :
                        LET l == ListenerAt(objects, p) IN
                        ~Refuses(l, parent, route) /\ AcceptsKind(l, route.type)}
<1>1. /\ k \in DOMAIN objects /\ IsRoute(route)
      /\ r \in GatewayRefs(route) /\ objects \in ManifestSets
  BY LoadedRef, DoneIsLoaded
<1>2. PICK l \in SelectedListeners(parent) : Admits(l, parent, route)
  BY DEF Attaches
<1>3. PICK i \in ParentsNamed(parent) : \E j \in DOMAIN objects[i].listeners :
        /\ parent.section \in {Absent, objects[i].listeners[j].name}
        /\ l = objects[i].listeners[j]
  BY <1>2, SelectedUnpacked
<1>4. PICK n \in DOMAIN objects[i].listeners :
        /\ parent.section \in {Absent, objects[i].listeners[n].name}
        /\ l = objects[i].listeners[n]
  BY <1>3
<1>5. OwnsListeners(objects[i])
  BY <1>3 DEF ParentsNamed, ParentIsV1, OwnsListeners
<1>6. <<i, n>> \in ListenersFor(objects, parent)
  BY <1>1, <1>4, <1>5, SelectedIsCandidate
<1>7. ListenerAt(objects, <<i, n>>) = l
  BY <1>4 DEF ListenerAt
<1>8. <<i, n>> \in judged
  BY <1>2, <1>6, <1>7, AdmittingListenerRefusesNothing
<1>9. ASSUME NEW p \in judged PROVE ListenerAt(objects, p) = l
  BY <1>1, <1>6, <1>7, NamedCandidate
<1>10. /\ ~AnyHostname(l)
       /\ hostnames # {}
       /\ \A h \in hostnames : ~CommonHost(l.hostname, h, Hostname)
  BY <1>2 DEF Serves
<1>11. l.hostname \in Hostname /\ hostnames \subseteq Hostname
  <2>1. hostnames \subseteq Hostname
    BY <1>1, HostnamesAssumption DEF Hostname
  <2>2. i \in DOMAIN objects
    BY DEF ParentsNamed
  <2>3. l.hostname = Absent \/ l.hostname \in Hostname
    BY <1>1, <1>4, <1>5, <2>2, HostnamesAssumption DEF Hostname
  <2> QED BY <1>10, <2>1, <2>3 DEF AnyHostname
<1>12. ~HostnamesIntersect(l, hostnames)
  BY <1>10, <1>11, OverlapIsCommonHost DEF HostnamesIntersect, AnyHostname
<1>13. r \in HostnameMismatchRefs(objects, route)
  BY <1>1, <1>8, <1>9, <1>10, <1>12 DEF HostnameMismatchRefs
<1> QED BY <1>1, <1>13, FinishedRun DEF Returns, AttachmentChecks

(* hostname-never-matches is right both ways once a client may ask for any
   hostname, however many labels it has. *)
THEOREM HostnameVerdictsExact ==
  ASSUME Hosts = Hostname PROVE Spec => []HostnameVerdictExact
<1>1. IInv /\ HostnameVerdictSound => HostnameVerdictExact
  <2> SUFFICES ASSUME IInv, HostnameVerdictSound, phase = "done", ListenerNamesDistinct,
                      NEW ref \in LoadedRefs
               PROVE  LET k == ref[1]
                          r == ref[2]
                          unmatched == Reported("hostname-never-matches", k, r)
                      IN
                      /\ unmatched => ~Serves(k, r)
                      /\ /\ "hostname-never-matches" \in Enabled
                         /\ ParentOf(objects[k], r).section # Absent
                         /\ ParentIsV1(k, r)
                         /\ Attaches(k, r)
                         /\ ~Serves(k, r)
                         => unmatched
    BY DEF HostnameVerdictExact
  <2>1. Reported("hostname-never-matches", ref[1], ref[2]) => ~Serves(ref[1], ref[2])
    BY DEF HostnameVerdictSound
  <2> QED BY <2>1, UnservedRouteReported
<1> QED BY <1>1, Invariance, ServingRouteNeverBlamed, PTL

-----------------------------------------------------------------------------
(* Load order.  A check sees of the set only which parents it holds and what
   listeners a parentRef selects, and a rearrangement changes neither. *)

Seen(objs, parent) == {ListenerAt(objs, p) : p \in ListenersFor(objs, parent)}

LEMMA SeenIff ==
  ASSUME NEW objs, NEW parent
  PROVE  /\ ListenersFor(objs, parent) = {} <=> Seen(objs, parent) = {}
         /\ \A l : l \in Seen(objs, parent) <=>
                    \E p \in ListenersFor(objs, parent) : l = ListenerAt(objs, p)
  BY DEF Seen

LEMMA VerdictsReadListeners ==
  ASSUME NEW objs, NEW re, NEW route,
         GatewaysAndListenerSets(objs) = GatewaysAndListenerSets(re),
         \A parent : Present(objs, parent) <=> Present(re, parent),
         \A parent : Seen(objs, parent) = Seen(re, parent)
  PROVE  /\ DanglingRefs(objs, route) = DanglingRefs(re, route)
         /\ HostnameMismatchRefs(objs, route) = HostnameMismatchRefs(re, route)
         /\ ListenerNotFoundRefs(objs, route) = ListenerNotFoundRefs(re, route)
         /\ ProtocolMismatchRefs(objs, route) = ProtocolMismatchRefs(re, route)
         /\ NotPermittedRefs(objs, route) = NotPermittedRefs(re, route)
<1>1. DanglingRefs(objs, route) = DanglingRefs(re, route)
  BY DEF DanglingRefs
<1>2. ListenerNotFoundRefs(objs, route) = ListenerNotFoundRefs(re, route)
  BY SeenIff DEF ListenerNotFoundRefs
<1>3. ASSUME NEW set \in {objs, re}, NEW r
      PROVE  /\ r \in NotPermittedRefs(set, route) <=>
                  LET parent == ParentOf(route, r) IN
                  /\ r \in GatewayRefs(route)
                  /\ Seen(set, parent) # {}
                  /\ \A l \in Seen(set, parent) :
                       Refuses(l, parent, route) \/ (HasExplicitKinds(l) /\ ~AcceptsKind(l, route.type))
             /\ r \in ProtocolMismatchRefs(set, route) <=>
                  LET parent == ParentOf(route, r)
                      admitting == {l \in Seen(set, parent) : ~Refuses(l, parent, route)}
                  IN
                  /\ r \in GatewayRefs(route)
                  /\ \A l \in admitting : ~Carries(l, route.type)
                  /\ \E l \in admitting : HasExplicitKinds(l) => AcceptsKind(l, route.type)
             /\ r \in HostnameMismatchRefs(set, route) <=>
                  LET parent == ParentOf(route, r)
                      judged == {l \in Seen(set, parent) :
                                   ~Refuses(l, parent, route) /\ AcceptsKind(l, route.type)}
                  IN
                  /\ r \in GatewayRefs(route)
                  /\ HostnamesOf(route) # {}
                  /\ judged # {}
                  /\ \A l \in judged : ~HostnamesIntersect(l, HostnamesOf(route))
  <2>1. r \in NotPermittedRefs(set, route) <=>
          LET parent == ParentOf(route, r) IN
          /\ r \in GatewayRefs(route)
          /\ Seen(set, parent) # {}
          /\ \A l \in Seen(set, parent) :
               Refuses(l, parent, route) \/ (HasExplicitKinds(l) /\ ~AcceptsKind(l, route.type))
    BY SeenIff DEF NotPermittedRefs
  <2>2. r \in ProtocolMismatchRefs(set, route) <=>
          LET parent == ParentOf(route, r)
              admitting == {l \in Seen(set, parent) : ~Refuses(l, parent, route)}
          IN
          /\ r \in GatewayRefs(route)
          /\ \A l \in admitting : ~Carries(l, route.type)
          /\ \E l \in admitting : HasExplicitKinds(l) => AcceptsKind(l, route.type)
    BY SeenIff DEF ProtocolMismatchRefs
  <2>3. r \in HostnameMismatchRefs(set, route) <=>
          LET parent == ParentOf(route, r)
              judged == {l \in Seen(set, parent) :
                           ~Refuses(l, parent, route) /\ AcceptsKind(l, route.type)}
          IN
          /\ r \in GatewayRefs(route)
          /\ HostnamesOf(route) # {}
          /\ judged # {}
          /\ \A l \in judged : ~HostnamesIntersect(l, HostnamesOf(route))
    BY SeenIff DEF HostnameMismatchRefs
  <2> QED BY <2>1, <2>2, <2>3
<1>4. HostnameMismatchRefs(objs, route) = HostnameMismatchRefs(re, route)
  <2>1. \A r : r \in HostnameMismatchRefs(objs, route) <=> r \in HostnameMismatchRefs(re, route)
    BY <1>3
  <2> QED BY <2>1 DEF HostnameMismatchRefs
<1>5. ProtocolMismatchRefs(objs, route) = ProtocolMismatchRefs(re, route)
  <2>1. \A r : r \in ProtocolMismatchRefs(objs, route) <=> r \in ProtocolMismatchRefs(re, route)
    BY <1>3
  <2> QED BY <2>1 DEF ProtocolMismatchRefs
<1>6. NotPermittedRefs(objs, route) = NotPermittedRefs(re, route)
  <2>1. \A r : r \in NotPermittedRefs(objs, route) <=> r \in NotPermittedRefs(re, route)
    BY <1>3
  <2> QED BY <2>1 DEF NotPermittedRefs
<1> QED BY <1>1, <1>2, <1>4, <1>5, <1>6

(* The rearranged set: the object loaded i-th there is the order[i]-th here. *)
Rearranged(objs, order) == [i \in DOMAIN objs |-> objs[order[i]]]

LEMMA RearrangedListeners ==
  ASSUME NEW objs, DOMAIN objs \subseteq Nat,
         \A i, j \in DOMAIN objs : RefOf(objs[i]) = RefOf(objs[j]) => i = j,
         NEW order \in [DOMAIN objs -> DOMAIN objs],
         \A k \in DOMAIN objs : \E i \in DOMAIN objs : order[i] = k,
         \A i, j \in DOMAIN objs : order[i] = order[j] => i = j
  PROVE  LET re == Rearranged(objs, order) IN
         /\ GatewaysAndListenerSets(objs) = GatewaysAndListenerSets(re)
         /\ \A parent : Present(objs, parent) <=> Present(re, parent)
         /\ \A parent : Seen(objs, parent) = Seen(re, parent)
<1> DEFINE re == Rearranged(objs, order)
           move(p) == <<order[p[1]], p[2]>>
<1>1. DOMAIN re = DOMAIN objs /\ \A i \in DOMAIN objs : re[i] = objs[order[i]]
  BY DEF Rearranged
<1> HIDE DEF re
<1>2. GatewaysAndListenerSets(objs) = GatewaysAndListenerSets(re)
  <2>1. ASSUME NEW x \in GatewaysAndListenerSets(objs) PROVE x \in GatewaysAndListenerSets(re)
    <3>1. PICK k \in DOMAIN objs : OwnsListeners(objs[k]) /\ x = RefOf(objs[k])
      BY DEF GatewaysAndListenerSets
    <3>2. PICK i \in DOMAIN objs : order[i] = k
      OBVIOUS
    <3>3. re[i] = objs[k] /\ i \in DOMAIN re
      BY <1>1, <3>2
    <3> QED BY <3>1, <3>3 DEF GatewaysAndListenerSets
  <2>2. ASSUME NEW x \in GatewaysAndListenerSets(re) PROVE x \in GatewaysAndListenerSets(objs)
    <3>1. PICK i \in DOMAIN re : OwnsListeners(re[i]) /\ x = RefOf(re[i])
      BY DEF GatewaysAndListenerSets
    <3>2. re[i] = objs[order[i]] /\ order[i] \in DOMAIN objs
      BY <1>1
    <3> QED BY <3>1, <3>2 DEF GatewaysAndListenerSets
  <2> QED BY <2>1, <2>2
<1>3. ASSUME NEW owner, NEW i, NEW j
      PROVE  <<i, j>> \in ListenersByOwner(re, owner) <=>
               i \in DOMAIN objs /\ <<order[i], j>> \in ListenersByOwner(objs, owner)
  <2>1. <<i, j>> \in ListenersByOwner(re, owner) <=>
          /\ i \in DOMAIN objs /\ j \in DOMAIN objs[order[i]].listeners
          /\ OwnsListeners(objs[order[i]]) /\ RefOf(objs[order[i]]) = owner
    BY <1>1, OwnedListener
  <2>2. i \in DOMAIN objs =>
          (<<order[i], j>> \in ListenersByOwner(objs, owner) <=>
             /\ j \in DOMAIN objs[order[i]].listeners
             /\ OwnsListeners(objs[order[i]]) /\ RefOf(objs[order[i]]) = owner)
    BY OwnedListener
  <2> QED BY <2>1, <2>2
<1>4. ASSUME NEW owner, NEW p \in ListenersByOwner(objs, owner)
      PROVE  \E i \in DOMAIN objs : p = <<order[i], p[2]>>
                                   /\ <<i, p[2]>> \in ListenersByOwner(re, owner)
  <2>1. PICK k \in DOMAIN objs : \E j \in DOMAIN objs[k].listeners : p = <<k, j>>
    BY OwnedListener
  <2>2. PICK i \in DOMAIN objs : order[i] = k
    OBVIOUS
  <2>3. p = <<order[i], p[2]>>
    BY <2>1, <2>2
  <2> QED BY <1>3, <2>3
<1>5. ASSUME NEW owner, NEW p \in ListenersByOwner(re, owner)
      PROVE  p = <<p[1], p[2]>> /\ p[1] \in DOMAIN objs
             /\ move(p) \in ListenersByOwner(objs, owner)
             /\ ListenerAt(re, p) = ListenerAt(objs, move(p))
  <2>1. PICK i \in DOMAIN re : \E j \in DOMAIN re[i].listeners : p = <<i, j>>
    BY OwnedListener
  <2>2. p = <<p[1], p[2]>> /\ p[1] \in DOMAIN objs
    BY <1>1, <2>1
  <2>3. move(p) \in ListenersByOwner(objs, owner)
    BY <1>3, <2>2
  <2>4. ListenerAt(re, p) = ListenerAt(objs, move(p))
    BY <1>1, <2>2 DEF ListenerAt
  <2> QED BY <2>2, <2>3, <2>4
<1>6. ASSUME NEW parent PROVE Present(objs, parent) <=> Present(re, parent)
  BY <1>4, <1>5 DEF Present
<1>7. ASSUME NEW owner, NEW set \in {objs, re},
             NEW p \in ListenersByOwner(set, owner), NEW q \in ListenersByOwner(set, owner)
      PROVE  Before(p, q) <=> p[2] < q[2]
  <2>1. PICK i \in DOMAIN set : \E j \in DOMAIN set[i].listeners :
          RefOf(set[i]) = owner /\ p = <<i, j>>
    BY OwnedListener
  <2>2. PICK k \in DOMAIN set : \E j \in DOMAIN set[k].listeners :
          RefOf(set[k]) = owner /\ q = <<k, j>>
    BY OwnedListener
  <2>3. i = k
    <3>1. CASE set = objs
      BY <2>1, <2>2, <3>1
    <3>2. CASE set = re
      <4>1. order[i] \in DOMAIN objs /\ order[k] \in DOMAIN objs
            /\ RefOf(objs[order[i]]) = RefOf(objs[order[k]])
        BY <1>1, <2>1, <2>2, <3>2
      <4>2. order[i] = order[k]
        BY <4>1
      <4> QED BY <1>1, <3>2, <4>2
    <3> QED BY <3>1, <3>2
  <2>4. i \in Nat
    BY <1>1
  <2> QED BY <2>1, <2>2, <2>3, <2>4 DEF Before
<1>8. ASSUME NEW parent PROVE Seen(objs, parent) = Seen(re, parent)
  <2> DEFINE owner == OwnerOf(parent)
             all == ListenersByOwner(objs, owner)
             reall == ListenersByOwner(re, owner)
  <2>1. ASSUME NEW p \in ListenersFor(objs, parent)
        PROVE  ListenerAt(objs, p) \in Seen(re, parent)
    <3>1. p \in all
      BY DEF ListenersFor
    <3>2. PICK i \in DOMAIN objs : p = <<order[i], p[2]>> /\ <<i, p[2]>> \in reall
      BY <1>4, <3>1
    <3> DEFINE q == <<i, p[2]>>
    <3>3. q \in reall /\ ListenerAt(re, q) = ListenerAt(objs, p)
      BY <1>5, <3>2
    <3>4. CASE parent.section = Absent
      BY <3>3, <3>4 DEF ListenersFor, Seen
    <3>5. CASE parent.section # Absent
      <4>1. ListenerAt(objs, p).name = parent.section
            /\ \A t \in all : ListenerAt(objs, t).name = parent.section => ~Before(t, p)
        BY <3>5 DEF ListenersFor
      <4>2. ASSUME NEW t \in reall, ListenerAt(re, t).name = parent.section
            PROVE  ~Before(t, q)
        <5>1. move(t) \in all /\ ListenerAt(objs, move(t)).name = parent.section
          BY <1>5, <4>2
        <5>2. ~Before(move(t), p)
          BY <4>1, <5>1
        <5>3. ~(t[2] < p[2])
          BY <1>7, <3>1, <5>1, <5>2
        <5> QED BY <1>7, <3>3, <5>3
      <4> QED BY <3>3, <3>5, <4>1, <4>2 DEF ListenersFor, Seen
    <3> QED BY <3>4, <3>5
  <2>2. ASSUME NEW q \in ListenersFor(re, parent)
        PROVE  ListenerAt(re, q) \in Seen(objs, parent)
    <3>1. q \in reall
      BY DEF ListenersFor
    <3> DEFINE p == move(q)
    <3>2. p \in all /\ ListenerAt(re, q) = ListenerAt(objs, p)
      BY <1>5, <3>1
    <3>3. CASE parent.section = Absent
      BY <3>2, <3>3 DEF ListenersFor, Seen
    <3>4. CASE parent.section # Absent
      <4>1. ListenerAt(re, q).name = parent.section
            /\ \A t \in reall : ListenerAt(re, t).name = parent.section => ~Before(t, q)
        BY <3>4 DEF ListenersFor
      <4>2. ASSUME NEW t \in all, ListenerAt(objs, t).name = parent.section
            PROVE  ~Before(t, p)
        <5>1. PICK i \in DOMAIN objs : t = <<order[i], t[2]>> /\ <<i, t[2]>> \in reall
          BY <1>4
        <5> DEFINE u == <<i, t[2]>>
        <5>2. u \in reall /\ ListenerAt(re, u) = ListenerAt(objs, t)
          BY <1>5, <5>1
        <5>3. ~Before(u, q)
          BY <4>1, <4>2, <5>2
        <5>4. ~(t[2] < q[2])
          BY <1>7, <3>1, <5>2, <5>3
        <5> QED BY <1>7, <3>2, <5>4
      <4> QED BY <3>2, <3>4, <4>1, <4>2 DEF ListenersFor, Seen
    <3> QED BY <3>3, <3>4
  <2> QED BY <2>1, <2>2 DEF Seen
<1> QED BY <1>2, <1>6, <1>8 DEF re

(* A map of the loaded objects onto different positions reaches all of them. *)
LEMMA OrderIsOnto ==
  ASSUME NEW n \in Nat, NEW D, D = 1..n, NEW order \in [D -> D],
         \A i, j \in D : order[i] = order[j] => i = j
  PROVE  \A k \in D : \E i \in D : order[i] = k
<1>1. IsFiniteSet(D)
  BY FS_Interval
<1>2. order \in Injection(D, D)
  BY DEF Injection, IsInjective
<1>3. order \in Surjection(D, D)
  BY <1>1, <1>2, FS_Injection
<1> QED BY <1>3 DEF Surjection

LEMMA FindingsOfIff ==
  ASSUME NEW objs, NEW x
  PROVE  x \in FindingsOf(objs) <=>
           \E c \in Enabled \cap AttachmentChecks : \E k \in DOMAIN objs :
             \E r \in Returns(c, objs, k) :
               IsRoute(objs[k]) /\ x = <<c, RefOf(objs[k]), r>>
<1> DEFINE routes == {i \in DOMAIN objs : IsRoute(objs[i])}
           of(c) == UNION {{<<c, k, r>> : r \in Returns(c, objs, k)} : k \in routes}
           all == UNION {of(c) : c \in Enabled \cap AttachmentChecks}
<1>1. \A f : f \in all <=>
        \E c \in Enabled \cap AttachmentChecks : \E k \in routes :
          \E r \in Returns(c, objs, k) : f = <<c, k, r>>
  OBVIOUS
<1>2. FindingsOf(objs) = {<<f[1], RefOf(objs[f[2]]), f[3]>> : f \in all}
  BY DEF FindingsOf
<1> HIDE DEF all
<1>3. ASSUME x \in FindingsOf(objs)
      PROVE  \E c \in Enabled \cap AttachmentChecks : \E k \in DOMAIN objs :
               \E r \in Returns(c, objs, k) :
                 IsRoute(objs[k]) /\ x = <<c, RefOf(objs[k]), r>>
  <2>1. PICK f \in all : x = <<f[1], RefOf(objs[f[2]]), f[3]>>
    BY <1>2, <1>3
  <2>2. PICK c \in Enabled \cap AttachmentChecks : \E k \in routes :
          \E r \in Returns(c, objs, k) : f = <<c, k, r>>
    BY <1>1, <2>1
  <2>3. PICK k \in routes : \E r \in Returns(c, objs, k) : f = <<c, k, r>>
    BY <2>2
  <2>4. PICK r \in Returns(c, objs, k) : f = <<c, k, r>>
    BY <2>3
  <2>5. x = <<c, RefOf(objs[k]), r>>
    BY <2>1, <2>4
  <2> QED BY <2>5
<1>4. ASSUME NEW c \in Enabled \cap AttachmentChecks, NEW k \in DOMAIN objs,
             NEW r \in Returns(c, objs, k),
             IsRoute(objs[k]), x = <<c, RefOf(objs[k]), r>>
      PROVE  x \in FindingsOf(objs)
  <2>1. <<c, k, r>> \in all
    BY <1>1, <1>4
  <2>2. <<<<c, k, r>>[1], RefOf(objs[<<c, k, r>>[2]]), <<c, k, r>>[3]>> \in FindingsOf(objs)
    BY <1>2, <2>1
  <2> QED BY <1>4, <2>2
<1> QED BY <1>3, <1>4

LEMMA RearrangedFindings ==
  ASSUME NEW objs, DOMAIN objs \subseteq Nat,
         \A i, j \in DOMAIN objs : RefOf(objs[i]) = RefOf(objs[j]) => i = j,
         NEW order \in [DOMAIN objs -> DOMAIN objs],
         \A k \in DOMAIN objs : \E i \in DOMAIN objs : order[i] = k,
         \A i, j \in DOMAIN objs : order[i] = order[j] => i = j
  PROVE  FindingsOf(Rearranged(objs, order)) = FindingsOf(objs)
<1> DEFINE re == Rearranged(objs, order)
<1>1. DOMAIN re = DOMAIN objs /\ \A i \in DOMAIN objs : re[i] = objs[order[i]]
  BY DEF Rearranged
<1>2. /\ GatewaysAndListenerSets(objs) = GatewaysAndListenerSets(re)
      /\ \A parent : Present(objs, parent) <=> Present(re, parent)
      /\ \A parent : Seen(objs, parent) = Seen(re, parent)
  BY RearrangedListeners
<1> HIDE DEF re
<1>3. ASSUME NEW c \in AttachmentChecks, NEW i \in DOMAIN objs
      PROVE  Returns(c, re, i) = Returns(c, objs, order[i])
  <2>1. re[i] = objs[order[i]]
    BY <1>1
  <2> QED BY <1>2, <2>1, VerdictsReadListeners DEF Returns, AttachmentChecks, NonAttachmentChecks
<1>4. ASSUME NEW x \in FindingsOf(re) PROVE x \in FindingsOf(objs)
  <2>1. PICK c \in Enabled \cap AttachmentChecks : \E i \in DOMAIN re :
          \E r \in Returns(c, re, i) : IsRoute(re[i]) /\ x = <<c, RefOf(re[i]), r>>
    BY FindingsOfIff
  <2>2. PICK i \in DOMAIN re :
          \E r \in Returns(c, re, i) : IsRoute(re[i]) /\ x = <<c, RefOf(re[i]), r>>
    BY <2>1
  <2>3. order[i] \in DOMAIN objs /\ re[i] = objs[order[i]]
        /\ Returns(c, re, i) = Returns(c, objs, order[i])
    BY <1>1, <1>3
  <2> QED BY <2>2, <2>3, FindingsOfIff
<1>5. ASSUME NEW x \in FindingsOf(objs) PROVE x \in FindingsOf(re)
  <2>1. PICK c \in Enabled \cap AttachmentChecks : \E k \in DOMAIN objs :
          \E r \in Returns(c, objs, k) : IsRoute(objs[k]) /\ x = <<c, RefOf(objs[k]), r>>
    BY FindingsOfIff
  <2>2. PICK k \in DOMAIN objs :
          \E r \in Returns(c, objs, k) : IsRoute(objs[k]) /\ x = <<c, RefOf(objs[k]), r>>
    BY <2>1
  <2>3. PICK i \in DOMAIN objs : order[i] = k
    OBVIOUS
  <2>4. i \in DOMAIN re /\ re[i] = objs[k] /\ Returns(c, re, i) = Returns(c, objs, k)
    BY <1>1, <1>3, <2>3
  <2> QED BY <2>2, <2>4, FindingsOfIff
<1>6. FindingsOf(re) = FindingsOf(objs)
  <2>1. \A x : x \in FindingsOf(re) <=> x \in FindingsOf(objs)
    BY <1>4, <1>5
  <2> QED BY <2>1, Zenon DEF FindingsOf
<1> QED BY <1>6 DEF re

(* The order files are named in on the command line decides nothing, for every
   manifest set with unique object identities: any rearrangement of the set has
   the findings the run reported. *)
THEOREM LoadOrderDecidesNothing == Spec => []LoadOrderIrrelevant
<1>1. IInv => LoadOrderIrrelevant
  <2> SUFFICES ASSUME IInv, phase = "done",
                      NEW order \in [DOMAIN objects -> DOMAIN objects],
                      \A i, j \in DOMAIN objects : order[i] = order[j] => i = j
               PROVE  FindingsOf([i \in DOMAIN objects |-> objects[order[i]]]) =
                        {<<f[1], RefOf(objects[f[2]]), f[3]>> : f \in findings}
    BY DEF LoadOrderIrrelevant
  <2>1. Len(objects) \in Nat /\ DOMAIN objects = 1..Len(objects)
    BY LoadedSet DEF IInv
  <2>2. \A k \in DOMAIN objects : \E i \in DOMAIN objects : order[i] = k
    BY <2>1, OrderIsOnto
  <2>3. \A i, j \in DOMAIN objects : RefOf(objects[i]) = RefOf(objects[j]) => i = j
    BY DoneIsLoaded, IdentityAssumption
  <2>4. FindingsOf(Rearranged(objects, order)) = FindingsOf(objects)
    <3>1. DOMAIN objects \subseteq Nat
      BY <2>1
    <3> QED BY <2>2, <2>3, <3>1, RearrangedFindings
  <2>5. ASSUME NEW x \in FindingsOf(objects)
        PROVE  \E f \in findings : x = <<f[1], RefOf(objects[f[2]]), f[3]>>
    <3>1. PICK c \in Enabled \cap AttachmentChecks : \E k \in DOMAIN objects :
            \E r \in Returns(c, objects, k) :
              IsRoute(objects[k]) /\ x = <<c, RefOf(objects[k]), r>>
      BY FindingsOfIff
    <3>2. PICK k \in DOMAIN objects : \E r \in Returns(c, objects, k) :
              IsRoute(objects[k]) /\ x = <<c, RefOf(objects[k]), r>>
      BY <3>1
    <3>3. PICK r \in Returns(c, objects, k) :
              IsRoute(objects[k]) /\ x = <<c, RefOf(objects[k]), r>>
      BY <3>2
    <3>4. <<c, k, r>> \in findings
      BY <3>3, FinishedRun DEF Reported
    <3> DEFINE f == <<c, k, r>>
    <3>5. x = <<f[1], RefOf(objects[f[2]]), f[3]>>
      BY <3>3
    <3> QED BY <3>4, <3>5
  <2>6. ASSUME NEW f \in findings
        PROVE  <<f[1], RefOf(objects[f[2]]), f[3]>> \in FindingsOf(objects)
    <3>1. f \in Due
      BY DEF IInv, DueSoFar
    <3>2. f = <<f[1], f[2], f[3]>> /\ f[1] \in Enabled
      BY <3>1, DueIff DEF IInv, LoopInv, TypeOK
    <3>3. /\ f[1] \in AttachmentChecks /\ f[2] \in DOMAIN objects
          /\ IsRoute(objects[f[2]]) /\ f[3] \in Returns(f[1], objects, f[2])
      BY <3>1, <3>2, DueIff
    <3> QED BY <3>2, <3>3, FindingsOfIff
  <2>7. FindingsOf(objects) = {<<f[1], RefOf(objects[f[2]]), f[3]>> : f \in findings}
    BY <2>5, <2>6
  <2> QED BY <2>4, <2>7 DEF Rearranged
<1> QED BY <1>1, Invariance, PTL

=============================================================================
