-------------------------- MODULE ListenersProofs --------------------------
(***************************************************************************)
(* What the listener checks report is right for every manifest set and     *)
(* every choice of enabled checks: safety of Listeners, for all values of  *)
(* its constants.                                                          *)
(***************************************************************************)
EXTENDS Listeners, EngineProofs, FiniteSetTheorems, SequenceTheorems

(* What a check function returns of the k-th object of the loaded set. *)
Returns(check, k) ==
  CASE check = "conflicting-listeners" -> ConflictingListeners(objects[k])
    [] check = "duplicate-listener-name" -> DuplicateListenerNames(objects[k])
    [] check = "gateway-serves-no-routes" ->
         IF IsGateway(objects[k]) /\ ServesNoRoutes(objects, k) THEN {1} ELSE {}
    [] check = "hostname-on-non-hostname-protocol" -> HostnamesOnNonHostnameProtocols(objects[k])
    [] check = "tls-listener-without-certificate" -> TLSListenersWithoutCertificate(objects[k])

Names ==
  {"conflicting-listeners", "duplicate-listener-name", "gateway-serves-no-routes",
   "hostname-on-non-hostname-protocol", "tls-listener-without-certificate"}

Due ==
  UNION {UNION {{<<check, k, x>> : x \in Returns(check, k)} : k \in DOMAIN objects} :
           check \in Names}

(* Inductive: what has been recorded is exactly what is due so far. *)
IInv == LoopInv /\ findings = DueSoFar(Due)

-----------------------------------------------------------------------------
LEMMA DueIff ==
  /\ \A check, k, x :
       <<check, k, x>> \in Due <=>
         check \in Names /\ k \in DOMAIN objects /\ x \in Returns(check, k)
  /\ \A f \in Due : f = <<f[1], f[2], f[3]>> /\ f[2] \in DOMAIN objects
  BY DEF Due

LEMMA JudgePreserves ==
  ASSUME IInv, NEW check \in Names, NEW applies, NEW refs, Judge(check, applies, refs),
         \A x : x \in Returns(check, at[1]) <=> applies /\ x \in refs
  PROVE  IInv'
<1>1. at[1] \in DOMAIN objects /\ objects' = objects
  BY DEF Judge
<1>2. \A x : <<check, at[1], x>> \in Due <=> applies /\ x \in refs
  BY <1>1, DueIff
<1>3. LoopInv /\ findings = DueSoFar(Due)
  BY DEF IInv
<1>4. findings' = {f \in Due : Called(f[1], f[2])'}
  BY <1>1, <1>2, <1>3, DueIff, JudgeRecords
<1>5. Due' = Due
  BY <1>1 DEF Due, Returns
<1>6. DueSoFar(Due)' = {f \in Due' : Called(f[1], f[2])'}
  BY DEF DueSoFar
<1>7. LoopInv'
  BY <1>3, JudgeLoop
<1> QED BY <1>4, <1>5, <1>6, <1>7 DEF IInv

LEMMA LoadPreserves == ASSUME IInv, Load PROVE IInv'
<1>1. LoopInv /\ LoopInv'
  BY LoadLoop DEF IInv
<1>2. \A f \in Due' : f[2] \in DOMAIN objects'
  BY DEF Due
<1>3. findings' = {f \in Due' : Called(f[1], f[2])'}
  BY <1>1, <1>2, LoadRecords
<1>4. DueSoFar(Due)' = {f \in Due' : Called(f[1], f[2])'}
  BY DEF DueSoFar
<1> QED BY <1>1, <1>3, <1>4 DEF IInv

LEMMA Invariance == Spec => []IInv
<1>1. Init => IInv
  <2> SUFFICES ASSUME Init PROVE IInv
    OBVIOUS
  <2>1. LoopInv
    BY InitLoop
  <2>2. Due = {} /\ findings = {}
    BY DEF Init, Due
  <2> QED BY <2>1, <2>2 DEF IInv, DueSoFar
<1>2. IInv /\ [Next]_vars => IInv'
  <2> SUFFICES ASSUME IInv, [Next]_vars PROVE IInv'
    OBVIOUS
  <2>1. CASE Load
    BY <2>1, LoadPreserves
  <2>2. CASE ConflictingListenersCheck
    BY <2>2, JudgePreserves DEF ConflictingListenersCheck, JudgeOwner, Current, Returns, Names
  <2>3. CASE DuplicateListenerName
    BY <2>3, JudgePreserves DEF DuplicateListenerName, JudgeOwner, Current, Returns, Names
  <2>4. CASE GatewayServesNoRoutes
    <3>1. \A x : x \in Returns("gateway-serves-no-routes", at[1]) <=>
                   (IsGateway(objects[at[1]]) /\ ServesNoRoutes(objects, at[1])) /\ x \in {1}
      BY DEF Returns
    <3>2. Judge("gateway-serves-no-routes",
                IsGateway(objects[at[1]]) /\ ServesNoRoutes(objects, at[1]), {1})
      BY <2>4 DEF GatewayServesNoRoutes, Current
    <3> QED BY <3>1, <3>2, JudgePreserves DEF Names
  <2>5. CASE HostnameOnNonHostnameProtocol
    BY <2>5, JudgePreserves DEF HostnameOnNonHostnameProtocol, JudgeOwner, Current, Returns, Names
  <2>6. CASE TLSListenerWithoutCertificate
    BY <2>6, JudgePreserves DEF TLSListenerWithoutCertificate, JudgeOwner, Current, Returns, Names
  <2>7. CASE Finish
    <3>1. LoopInv'
      BY <2>7, FinishLoop DEF IInv
    <3> QED BY <2>7, <3>1 DEF Finish, IInv, DueSoFar, Due, Returns, Called
  <2>8. CASE UNCHANGED vars
    <3>1. LoopInv'
      BY <2>8, StutterLoop DEF IInv
    <3> QED BY <2>8, <3>1 DEF vars, IInv, DueSoFar, Due, Returns, Called
  <2> QED BY <2>1, <2>2, <2>3, <2>4, <2>5, <2>6, <2>7, <2>8 DEF Next
<1> QED BY <1>1, <1>2, PTL DEF Spec

(* A finished run has reported exactly what the enabled check functions return of
   every object. *)
LEMMA FinishedRun ==
  ASSUME IInv, phase = "done", NEW check \in Names, check \in Enabled,
         NEW k \in DOMAIN objects, NEW x
  PROVE  <<check, k, x>> \in findings <=> x \in Returns(check, k)
<1>1. PICK c \in DOMAIN Checks : Checks[c] = check
  BY DEF Enabled
<1>2. Called(check, k)
  BY <1>1, AllCalled DEF IInv
<1>3. <<check, k, x>> \in findings <=> <<check, k, x>> \in Due
  BY <1>2 DEF IInv, DueSoFar
<1> QED BY <1>3, DueIff

-----------------------------------------------------------------------------
(* tls-listener-without-certificate and the certificateRefs. *)

LEMMA EmptyDomain ==
  ASSUME NEW T, NEW s \in Seq(T)
  PROVE  DOMAIN s = {} <=> s = <<>>
<1>1. DOMAIN s = 1..Len(s) /\ Len(s) \in Nat
  BY LenProperties
<1>2. s # <<>> => Len(s) \in Nat \ {0}
  BY EmptySeq
<1>3. CASE s = <<>>
  BY <1>3
<1>4. CASE s # <<>>
  <2>1. 1 \in DOMAIN s
    BY <1>1, <1>2, <1>4
  <2> QED BY <1>4, <2>1
<1> QED BY <1>3, <1>4

LEMMA RefsOrNone ==
  ASSUME objects \in ManifestSets, NEW k \in DOMAIN objects, IsGateway(objects[k]),
         NEW j \in DOMAIN objects[k].listeners, NEW refs,
         objects[k].listeners[j].tls # Absent,
         refs = objects[k].listeners[j].tls.certificateRefs
  PROVE  DOMAIN refs = {} <=> refs = <<>>
<1>1. refs \in Seq({refs[c] : c \in DOMAIN refs})
  BY CertificateRefsAssumption
<1> QED BY <1>1, EmptyDomain

LEMMA ReferredIff ==
  ASSUME NEW o, IsGateway(o), NEW j \in DOMAIN o.listeners
  PROVE  (\E p \in TerminatingCertificateRefs(o) : p[1] = j)
           <=> CertificateRefsOf(o.listeners[j]) # {}
<1>1. TerminatingCertificateRefs(o) =
        UNION {{<<i, c>> : c \in CertificateRefsOf(o.listeners[i])} : i \in DOMAIN o.listeners}
  BY DEF TerminatingCertificateRefs
<1>2. ASSUME NEW p \in TerminatingCertificateRefs(o), p[1] = j
      PROVE  CertificateRefsOf(o.listeners[j]) # {}
  <2>1. PICK i \in DOMAIN o.listeners : p \in {<<i, c>> : c \in CertificateRefsOf(o.listeners[i])}
    BY <1>1
  <2> QED BY <1>2, <2>1
<1>3. ASSUME NEW c \in CertificateRefsOf(o.listeners[j])
      PROVE  <<j, c>> \in TerminatingCertificateRefs(o)
  BY <1>1
<1>4. \A c : <<j, c>>[1] = j
  OBVIOUS
<1> QED BY <1>2, <1>3, <1>4

LEMMA OneJudge ==
  ASSUME objects \in ManifestSets, NEW k \in DOMAIN objects, IsGateway(objects[k]),
         NEW j \in DOMAIN objects[k].listeners,
         NEW l, l = objects[k].listeners[j], l.protocol \in {"HTTPS", "TLS"}
  PROVE  LET missing == j \in TLSListenersWithoutCertificate(objects[k])
             referred == \E p \in TerminatingCertificateRefs(objects[k]) : p[1] = j
             supplied == l.tls # Absent /\ l.tls.options
             overlooked == l.tls # Absent /\ l.tls.mode = "" /\ l.tls.certificateRefs # <<>>
         IN
         /\ ~(missing /\ referred)
         /\ l.tls = Absent \/ l.tls.mode \in {Absent, "", "Terminate"} =>
              (~supplied => (missing \/ referred <=> ~overlooked))
         /\ l.tls # Absent /\ l.tls.mode \notin {Absent, "", "Terminate"} =>
              ~missing /\ ~referred
<1>1. (\E p \in TerminatingCertificateRefs(objects[k]) : p[1] = j) <=> CertificateRefsOf(l) # {}
  BY ReferredIff
<1>2. j \in TLSListenersWithoutCertificate(objects[k]) <=> LacksCertificate(l)
  BY DEF TLSListenersWithoutCertificate, GatewayListenersOf
<1>3. l.tls # Absent => (DOMAIN l.tls.certificateRefs = {} <=> l.tls.certificateRefs = <<>>)
  BY RefsOrNone
<1>4. CASE l.tls = Absent
  BY <1>1, <1>2, <1>4 DEF LacksCertificate, CertificateRefsOf, TLSMode
<1>5. CASE l.tls # Absent
  <2>1. LacksCertificate(l) <=>
          l.tls.mode \in {Absent, "", "Terminate"} /\ l.tls.certificateRefs = <<>> /\ ~l.tls.options
    BY <1>5 DEF LacksCertificate, TLSMode
  <2>2. CertificateRefsOf(l) # {} <=>
          l.tls.mode \in {Absent, "Terminate"} /\ l.tls.certificateRefs # <<>>
    BY <1>3, <1>5 DEF CertificateRefsOf
  <2>3. l.tls.mode \in {Absent, "Terminate"} => l.tls.mode \in {Absent, "", "Terminate"}
    OBVIOUS
  <2>4. l.tls.mode \in {Absent, "", "Terminate"} =>
          (l.tls.mode \in {Absent, "Terminate"} <=> l.tls.mode # "")
    BY AbsentAssumption
  <2> QED BY <1>1, <1>2, <1>5, <2>1, <2>2, <2>3, <2>4
<1> QED BY <1>4, <1>5

(* A TLS listener is judged for a missing certificate or through the
   certificateRefs it has, never both. *)
THEOREM OneJudgePerListener == Spec => []TerminatingListenerHasOneJudge
<1>1. IInv => TerminatingListenerHasOneJudge
  <2> SUFFICES ASSUME IInv, phase = "done", "tls-listener-without-certificate" \in Enabled,
                      NEW k \in DOMAIN objects, IsGateway(objects[k]),
                      NEW j \in DOMAIN objects[k].listeners,
                      objects[k].listeners[j].protocol \in {"HTTPS", "TLS"}
               PROVE  LET l == objects[k].listeners[j]
                          missing == Reported("tls-listener-without-certificate", k, j)
                          referred == \E p \in TerminatingCertificateRefs(objects[k]) : p[1] = j
                          supplied == l.tls # Absent /\ l.tls.options
                          overlooked == l.tls # Absent /\ l.tls.mode = ""
                                          /\ l.tls.certificateRefs # <<>>
                      IN
                      /\ ~(missing /\ referred)
                      /\ l.tls = Absent \/ l.tls.mode \in {Absent, "", "Terminate"} =>
                           (~supplied => (missing \/ referred <=> ~overlooked))
                      /\ l.tls # Absent /\ l.tls.mode \notin {Absent, "", "Terminate"} =>
                           ~missing /\ ~referred
    BY DEF TerminatingListenerHasOneJudge
  <2>1. objects \in ManifestSets
    BY DEF IInv, LoopInv
  <2>2. Reported("tls-listener-without-certificate", k, j) <=>
          j \in Returns("tls-listener-without-certificate", k)
    BY FinishedRun DEF Reported, Names
  <2>3. Returns("tls-listener-without-certificate", k) = TLSListenersWithoutCertificate(objects[k])
    BY DEF Returns
  <2> QED BY <2>1, <2>2, <2>3, OneJudge
<1> QED BY <1>1, Invariance, PTL

-----------------------------------------------------------------------------
(* gateway-serves-no-routes. *)

(* Skipping the routes already seen loses none. *)
LEMMA NoneBelow ==
  ASSUME NEW objs, DOMAIN objs \subseteq Nat, NEW gateway
  PROVE  RoutesAttachedToGateway(objs, gateway, Absent) = {} <=>
           /\ RoutesAttachedToParent(objs, gateway, Absent) = {}
           /\ \A j \in ListenerSetsBelongingTo(objs, gateway) :
                RoutesAttachedToParent(objs, RefOf(objs[j]), Absent) = {}
<1> DEFINE direct == RoutesAttachedToParent(objs, gateway, Absent)
           sets == ListenerSetsBelongingTo(objs, gateway)
           under(j) == RoutesAttachedToParent(objs, RefOf(objs[j]), Absent)
           seen(j) == direct \cup UNION {under(i) : i \in {s \in sets : s < j}}
<1>1. RoutesAttachedToGateway(objs, gateway, Absent) = {} <=>
        direct = {} /\ \A j \in sets : under(j) \ seen(j) = {}
  <2> DEFINE own == {<<0, k>> : k \in direct}
             of(j) == {<<j, k>> : k \in under(j) \ seen(j)}
  <2>1. RoutesAttachedToGateway(objs, gateway, Absent) = own \cup UNION {of(j) : j \in sets}
    BY DEF RoutesAttachedToGateway
  <2> HIDE DEF direct, sets, under, seen
  <2>2. own = {} <=> direct = {}
    OBVIOUS
  <2>3. \A j : of(j) = {} <=> under(j) \ seen(j) = {}
    OBVIOUS
  <2> HIDE DEF own, of
  <2> QED BY <2>1, <2>2, <2>3
<1>2. sets \subseteq Nat
  BY DEF ListenerSetsBelongingTo
<1> HIDE DEF direct, sets, under
<1>3. ASSUME direct = {}, \A j \in sets : under(j) \ seen(j) = {}, NEW m \in sets
      PROVE  under(m) = {}
  <2> SUFFICES ASSUME NEW k \in under(m) PROVE FALSE
    OBVIOUS
  <2> DEFINE T == {j \in sets : k \in under(j)}
  <2>1. T \in SUBSET Nat /\ T # {}
    BY <1>2
  <2>2. PICK j \in T : \A i \in T : ~(i < j)
    BY <2>1, Least
  <2>3. k \notin seen(j)
    BY <1>3, <2>2
  <2> QED BY <1>3, <2>2, <2>3
<1> QED BY <1>1, <1>3 DEF direct, sets, under

LEMMA ServesNoRoutesIff ==
  ASSUME DOMAIN objects \subseteq Nat, NEW k \in DOMAIN objects, IsGateway(objects[k])
  PROVE  ServesNoRoutes(objects, k) <=>
           /\ RoutesIn(objects) # {}
           /\ RoutesAttachedToGateway(objects, RefOf(objects[k]), Absent) = {}
           /\ \A j \in ForeignSetsNaming(k) :
                RoutesAttachedToParent(objects, RefOf(objects[j]), Absent) = {}
<1> DEFINE gateway == RefOf(objects[k])
           none(point) == RoutesAttachedToParent(objects, point, Absent) = {}
<1>1. \A point : none(point) <=>
        \A n \in RoutesIn(objects) : \A r \in DOMAIN objects[n].parentRefs :
          ~ParentMatches(ParentOf(objects[n], r), point)
  BY DEF RoutesAttachedToParent, CoversListener
<1>2. \A point : point \in ListenerSetsOf(objects, gateway) <=>
        \E j \in ListenerSetsBelongingTo(objects, gateway) \cup ForeignSetsNaming(k) :
          point = RefOf(objects[j])
  <2>1. \A j \in DOMAIN objects :
          ListenerSetParent(objects[j]) = gateway <=>
            /\ Default(objects[j].parent.ns, objects[j].ns) = objects[k].ns
            /\ objects[j].parent.name = objects[k].name
    BY DEF ListenerSetParent, ObjectRef, RefOf, IsGateway
  <2>2. \A j : j \in ListenerSetsBelongingTo(objects, gateway) \cup ForeignSetsNaming(k) <=>
          j \in DOMAIN objects /\ IsListenerSet(objects[j]) /\ ListenerSetParent(objects[j]) = gateway
    BY <2>1 DEF ListenerSetsBelongingTo, ForeignSetsNaming, IsListenerSet
  <2> HIDE DEF gateway
  <2> QED BY <2>2 DEF ListenerSetsOf
<1> HIDE DEF none, gateway
<1>3. ServesNoRoutes(objects, k) <=>
        RoutesIn(objects) # {} /\ \A point \in AttachPoints(objects, gateway) : none(point)
  BY <1>1 DEF ServesNoRoutes, gateway
<1>4. (\A point \in AttachPoints(objects, gateway) : none(point)) <=>
        /\ none(gateway)
        /\ \A j \in ListenerSetsBelongingTo(objects, gateway) : none(RefOf(objects[j]))
        /\ \A j \in ForeignSetsNaming(k) : none(RefOf(objects[j]))
  BY <1>2 DEF AttachPoints
<1>5. RoutesAttachedToGateway(objects, gateway, Absent) = {} <=>
        none(gateway) /\ \A j \in ListenerSetsBelongingTo(objects, gateway) : none(RefOf(objects[j]))
  BY NoneBelow DEF none
<1> QED BY <1>3, <1>4, <1>5 DEF gateway, none

(* A Gateway is reported idle exactly when nothing attaches below it by the walk
   of the Envoy Gateway checks, nor by a ListenerSet of a foreign parent. *)
THEOREM IdleGatewaysExact == Spec => []IdleGatewayExact
<1>1. IInv => IdleGatewayExact
  <2> SUFFICES ASSUME IInv, phase = "done", "gateway-serves-no-routes" \in Enabled,
                      NEW k \in DOMAIN objects, IsGateway(objects[k])
               PROVE  Reported("gateway-serves-no-routes", k, 1) <=>
                        /\ RoutesIn(objects) # {}
                        /\ RoutesAttachedToGateway(objects, RefOf(objects[k]), Absent) = {}
                        /\ \A j \in ForeignSetsNaming(k) :
                             RoutesAttachedToParent(objects, RefOf(objects[j]), Absent) = {}
    BY DEF IdleGatewayExact
  <2>1. DOMAIN objects \subseteq Nat
    BY LoadedSet DEF IInv
  <2>2. Reported("gateway-serves-no-routes", k, 1) <=> 1 \in Returns("gateway-serves-no-routes", k)
    BY FinishedRun DEF Reported, Names
  <2>3. 1 \in Returns("gateway-serves-no-routes", k) <=> ServesNoRoutes(objects, k)
    BY DEF Returns
  <2> QED BY <2>1, <2>2, <2>3, ServesNoRoutesIff
<1> QED BY <1>1, Invariance, PTL

-----------------------------------------------------------------------------
(* conflicting-listeners. *)

LEMMA ClassesAreProtocols ==
  ASSUME NEW a, NEW b, a # b
  PROVE  ProtocolsConflict(a, b) <=> {a, b} \in ProtocolsThatCannotShare
<1> DEFINE pairs == \/ a = "TCP" /\ b \in {"HTTP", "HTTPS", "TLS"}
                    \/ b = "TCP" /\ a \in {"HTTP", "HTTPS", "TLS"}
                    \/ a = "HTTP" /\ b \in {"HTTPS", "TLS"}
                    \/ b = "HTTP" /\ a \in {"HTTPS", "TLS"}
<1>1. {a, b} \in ProtocolsThatCannotShare <=> pairs
  BY DEF ProtocolsThatCannotShare
<1>2. ProtocolsConflict(a, b) <=> pairs
  <2>1. \A p : /\ ClassOf(p) = "plaintext" <=> p = "HTTP"
               /\ ClassOf(p) = "TLS" <=> p \in {"HTTPS", "TLS"}
               /\ ClassOf(p) = "raw TCP" <=> p = "TCP"
               /\ ClassOf(p) = "UDP" <=> p = "UDP"
               /\ ClassOf(p) \in {"plaintext", "TLS", "raw TCP", "UDP", "unknown"}
    BY DEF ClassOf
  <2>2. ProtocolsConflict(a, b) <=>
          /\ ClassOf(a) # "unknown" /\ ClassOf(b) # "unknown"
          /\ ClassOf(a) = "UDP" <=> ClassOf(b) = "UDP"
          /\ ClassOf(a) \in {"raw TCP", "plaintext"} \/ ClassOf(b) \in {"raw TCP", "plaintext"}
    BY DEF ProtocolsConflict
  <2>3. ASSUME ProtocolsConflict(a, b) PROVE pairs
    <3>1. /\ ClassOf(a) \in {"plaintext", "TLS", "raw TCP", "UDP"}
          /\ ClassOf(b) \in {"plaintext", "TLS", "raw TCP", "UDP"}
      BY <2>1, <2>2, <2>3
    <3>2. ClassOf(a) # "UDP" /\ ClassOf(b) # "UDP"
      BY <2>2, <2>3
    <3>3. a \in {"HTTP", "HTTPS", "TLS", "TCP"} /\ b \in {"HTTP", "HTTPS", "TLS", "TCP"}
      BY <2>1, <3>1, <3>2
    <3>4. a \in {"TCP", "HTTP"} \/ b \in {"TCP", "HTTP"}
      BY <2>1, <2>2, <2>3
    <3> QED BY <3>3, <3>4
  <2>4. pairs => ProtocolsConflict(a, b)
    BY <2>1, <2>2
  <2> QED BY <2>3, <2>4
<1> QED BY <1>1, <1>2

(* Two listeners are in one indistinct group, or clash by protocol, when they are
   refused. *)
LEMMA FoundIff ==
  ASSUME NEW listeners, NEW x
  PROVE  /\ x \in IndistinctListeners(listeners) <=>
              \E i, j \in DOMAIN listeners :
                /\ i # j /\ x = <<"indistinct", listeners[i].port, KeyOf(listeners[i])>>
                /\ listeners[i].port = listeners[j].port
                /\ KeyOf(listeners[i]) = KeyOf(listeners[j])
         /\ x \in ProtocolConflicts(listeners) <=>
              \E i, j \in DOMAIN listeners :
                /\ x = <<"protocols", listeners[i].port,
                         {listeners[i].protocol, listeners[j].protocol}>>
                /\ listeners[i].port = listeners[j].port
                /\ listeners[i].protocol # listeners[j].protocol
                /\ ProtocolsConflict(listeners[i].protocol, listeners[j].protocol)
<1>1. x \in IndistinctListeners(listeners) <=>
        \E i, j \in DOMAIN listeners :
          /\ i # j /\ x = <<"indistinct", listeners[i].port, KeyOf(listeners[i])>>
          /\ listeners[i].port = listeners[j].port
          /\ KeyOf(listeners[i]) = KeyOf(listeners[j])
  BY DEF IndistinctListeners
<1>2. x \in ProtocolConflicts(listeners) <=>
        \E i, j \in DOMAIN listeners :
          /\ x = <<"protocols", listeners[i].port,
                   {listeners[i].protocol, listeners[j].protocol}>>
          /\ listeners[i].port = listeners[j].port
          /\ listeners[i].protocol # listeners[j].protocol
          /\ ProtocolsConflict(listeners[i].protocol, listeners[j].protocol)
  <2> DEFINE report(q) ==
               <<"protocols", listeners[q[1]].port,
                 {listeners[q[1]].protocol, listeners[q[2]].protocol}>>
             clash(q) ==
               /\ listeners[q[1]].port = listeners[q[2]].port
               /\ listeners[q[1]].protocol # listeners[q[2]].protocol
               /\ ProtocolsConflict(listeners[q[1]].protocol, listeners[q[2]].protocol)
  <2>1. x \in ProtocolConflicts(listeners) <=>
          \E q \in (DOMAIN listeners) \X (DOMAIN listeners) : clash(q) /\ x = report(q)
    BY DEF ProtocolConflicts
  <2>2. \A i, j \in DOMAIN listeners :
          /\ <<i, j>> \in (DOMAIN listeners) \X (DOMAIN listeners)
          /\ <<i, j>>[1] = i /\ <<i, j>>[2] = j
    OBVIOUS
  <2>3. \A q \in (DOMAIN listeners) \X (DOMAIN listeners) :
          q[1] \in DOMAIN listeners /\ q[2] \in DOMAIN listeners
    OBVIOUS
  <2>4. ASSUME NEW i \in DOMAIN listeners, NEW j \in DOMAIN listeners,
               x = report(<<i, j>>), clash(<<i, j>>)
        PROVE  x \in ProtocolConflicts(listeners)
    BY <2>1, <2>2, <2>4
  <2> QED BY <2>1, <2>2, <2>3, <2>4
<1> QED BY <1>1, <1>2

LEMMA SameKey ==
  ASSUME NEW l, NEW m
  PROVE  KeyOf(l) = KeyOf(m) <=>
           /\ l.protocol = m.protocol
           /\ Default(l.hostname, NoHostname) = Default(m.hostname, NoHostname)
  BY DEF KeyOf

(* What a conflict between two given listeners is reported as. *)
LEMMA OneReport ==
  ASSUME NEW k \in DOMAIN objects, NEW i \in DOMAIN objects[k].listeners,
         NEW j \in DOMAIN objects[k].listeners, i # j,
         NEW found, found = IndistinctListeners(objects[k].listeners)
                              \cup ProtocolConflicts(objects[k].listeners)
  PROVE  LET about == {x \in found : SaysConflict(x, k, i, j)} IN
         IF Refused(k, i, j) THEN \E x : about = {x} ELSE about = {}
<1> DEFINE listeners == objects[k].listeners
           l == listeners[i]
           m == listeners[j]
           key == <<"indistinct", l.port, KeyOf(l)>>
           clash == <<"protocols", l.port, {l.protocol, m.protocol}>>
           about == {x \in found : SaysConflict(x, k, i, j)}
<1>1. l.port = m.port /\ KeyOf(l) = KeyOf(m) => key \in about
  BY FoundIff DEF SaysConflict
<1>2. l.port = m.port /\ l.protocol # m.protocol /\ ProtocolsConflict(l.protocol, m.protocol)
        => clash \in about
  BY FoundIff DEF SaysConflict
<1>3. ASSUME NEW x \in about
      PROVE  /\ l.port = m.port
             /\ \/ x = key /\ KeyOf(l) = KeyOf(m)
                \/ /\ x = clash /\ l.protocol # m.protocol
                   /\ {l.protocol, m.protocol} \in ProtocolsThatCannotShare
  <2>1. SaysConflict(x, k, i, j)
    OBVIOUS
  <2>2. CASE x \in IndistinctListeners(listeners)
    <3>1. x = <<x[1], x[2], x[3]>> /\ x[1] = "indistinct"
      BY <2>2, FoundIff
    <3> QED BY <2>1, <3>1 DEF SaysConflict
  <2>3. CASE x \in ProtocolConflicts(listeners)
    <3>1. PICK a, b \in DOMAIN listeners :
            /\ x = <<"protocols", listeners[a].port, {listeners[a].protocol, listeners[b].protocol}>>
            /\ listeners[a].protocol # listeners[b].protocol
            /\ ProtocolsConflict(listeners[a].protocol, listeners[b].protocol)
      BY <2>3, FoundIff
    <3>2. x[1] = "protocols" /\ x[3] = {listeners[a].protocol, listeners[b].protocol}
      BY <3>1
    <3>3. l.port = m.port /\ x[2] = l.port /\ x[3] = {l.protocol, m.protocol}
      BY <2>1, <3>2 DEF SaysConflict
    <3>4. x[3] \in ProtocolsThatCannotShare
      BY <3>1, <3>2, ClassesAreProtocols
    <3>5. l.protocol # m.protocol
      BY <3>1, <3>2, <3>3
    <3> QED BY <3>1, <3>3, <3>4, <3>5
  <2> QED BY <2>2, <2>3
<1>4. Refused(k, i, j) <=>
        /\ l.port = m.port
        /\ \/ KeyOf(l) = KeyOf(m)
           \/ /\ l.protocol # m.protocol
              /\ {l.protocol, m.protocol} \in ProtocolsThatCannotShare
  BY SameKey DEF Refused, Protocol, HostnameOf
<1>5. KeyOf(l) = KeyOf(m) => l.protocol = m.protocol
  BY SameKey
<1>6. l.protocol # m.protocol =>
        (ProtocolsConflict(l.protocol, m.protocol)
           <=> {l.protocol, m.protocol} \in ProtocolsThatCannotShare)
  BY ClassesAreProtocols
<1> HIDE DEF about, key, clash, l, m
<1>7. CASE ~Refused(k, i, j)
  <2>1. about = {}
    BY <1>3, <1>4, <1>7
  <2> QED BY <1>7, <2>1 DEF about
<1>8. CASE Refused(k, i, j) /\ KeyOf(l) = KeyOf(m)
  <2>1. about = {key}
    BY <1>1, <1>3, <1>4, <1>5, <1>8
  <2> QED BY <1>8, <2>1 DEF about
<1>9. CASE Refused(k, i, j) /\ KeyOf(l) # KeyOf(m)
  <2>1. about = {clash}
    BY <1>2, <1>3, <1>4, <1>6, <1>9
  <2> QED BY <1>9, <2>1 DEF about
<1> QED BY <1>7, <1>8, <1>9

(* Nothing is reported of a single listener. *)
LEMMA NoReportAboutOne ==
  ASSUME NEW k \in DOMAIN objects,
         NEW x \in IndistinctListeners(objects[k].listeners)
                     \cup ProtocolConflicts(objects[k].listeners)
  PROVE  \E i, j \in DOMAIN objects[k].listeners : i # j /\ SaysConflict(x, k, i, j)
<1> DEFINE listeners == objects[k].listeners
<1>1. CASE x \in IndistinctListeners(listeners)
  <2>1. PICK i, j \in DOMAIN listeners :
          /\ i # j /\ x = <<"indistinct", listeners[i].port, KeyOf(listeners[i])>>
          /\ listeners[i].port = listeners[j].port
          /\ KeyOf(listeners[i]) = KeyOf(listeners[j])
    BY <1>1, FoundIff
  <2>2. SaysConflict(x, k, i, j)
    BY <2>1 DEF SaysConflict
  <2> QED BY <2>1, <2>2
<1>2. CASE x \in ProtocolConflicts(listeners)
  <2>1. PICK i, j \in DOMAIN listeners :
          /\ x = <<"protocols", listeners[i].port, {listeners[i].protocol, listeners[j].protocol}>>
          /\ listeners[i].port = listeners[j].port
          /\ listeners[i].protocol # listeners[j].protocol
    BY <1>2, FoundIff
  <2>2. SaysConflict(x, k, i, j)
    BY <2>1 DEF SaysConflict
  <2> QED BY <2>1, <2>2
<1> QED BY <1>1, <1>2

(* Every two listeners that cannot both be programmed are named by exactly one
   finding, other two by none, and no finding is about less than two. *)
THEOREM ConflictsReportedOnce == Spec => []ConflictReportedOnce
<1>1. IInv => ConflictReportedOnce
  <2> SUFFICES ASSUME IInv, phase = "done", "conflicting-listeners" \in Enabled, NEW k \in Owners
               PROVE  LET listeners == DOMAIN objects[k].listeners IN
                      /\ \A i, j \in listeners :
                           i # j /\ ~HostnameUnused(k, i) /\ ~HostnameUnused(k, j) =>
                             Cardinality({x \in ConflictsFound(k) : SaysConflict(x, k, i, j)}) =
                               IF Refused(k, i, j) THEN 1 ELSE 0
                      /\ \A x \in ConflictsFound(k) :
                           \E i, j \in listeners : i # j /\ SaysConflict(x, k, i, j)
    BY DEF ConflictReportedOnce
  <2> DEFINE found == IndistinctListeners(objects[k].listeners)
                        \cup ProtocolConflicts(objects[k].listeners)
  <2>1. k \in DOMAIN objects /\ OwnsListeners(objects[k])
    BY DEF Owners
  <2>2. \A x : <<"conflicting-listeners", k, x>> \in findings <=> x \in found
    <3>1. Returns("conflicting-listeners", k) = found
      BY <2>1 DEF Returns, ConflictingListeners, ListenersOf
    <3> QED BY <2>1, <3>1, FinishedRun DEF Names
  <2>3. ConflictsFound(k) = found
    <3>1. \A f \in findings : f = <<f[1], f[2], f[3]>>
      BY DueIff DEF IInv, DueSoFar
    <3> HIDE DEF found
    <3>2. ASSUME NEW x \in ConflictsFound(k) PROVE x \in found
      <4>1. PICK f \in findings : f[1] = "conflicting-listeners" /\ f[2] = k /\ x = f[3]
        BY DEF ConflictsFound
      <4>2. f = <<"conflicting-listeners", k, x>>
        BY <3>1, <4>1
      <4> QED BY <2>2, <4>1, <4>2
    <3>3. ASSUME NEW x \in found PROVE x \in ConflictsFound(k)
      <4> DEFINE f == <<"conflicting-listeners", k, x>>
      <4>1. f \in findings /\ f[1] = "conflicting-listeners" /\ f[2] = k /\ f[3] = x
        BY <2>2
      <4> HIDE DEF f
      <4> QED BY <4>1 DEF ConflictsFound
    <3> QED BY <3>2, <3>3
  <2>4. ASSUME NEW i \in DOMAIN objects[k].listeners, NEW j \in DOMAIN objects[k].listeners, i # j
        PROVE  Cardinality({x \in found : SaysConflict(x, k, i, j)}) =
                 IF Refused(k, i, j) THEN 1 ELSE 0
    <3> DEFINE about == {x \in found : SaysConflict(x, k, i, j)}
    <3>1. IF Refused(k, i, j) THEN \E x : about = {x} ELSE about = {}
      BY <2>1, <2>4, OneReport
    <3> HIDE DEF about
    <3>2. Cardinality(about) = IF Refused(k, i, j) THEN 1 ELSE 0
      BY <3>1, FS_Singleton, FS_EmptySet
    <3> QED BY <3>2 DEF about
  <2>5. \A x \in found :
          \E i, j \in DOMAIN objects[k].listeners : i # j /\ SaysConflict(x, k, i, j)
    BY <2>1, NoReportAboutOne
  <2> HIDE DEF found
  <2> QED BY <2>3, <2>4, <2>5
<1> QED BY <1>1, Invariance, PTL

=============================================================================
