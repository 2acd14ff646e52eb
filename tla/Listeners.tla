----------------------------- MODULE Listeners -----------------------------
(***************************************************************************)
(* Tier 4, listener validity: the checks that judge the listeners of a     *)
(* Gateway or ListenerSet, and gateway-serves-no-routes, run by the        *)
(* engine.                                                                 *)
(*                                                                         *)
(* A listener has  name, hostname, port, protocol  and  tls;  an empty     *)
(* hostname is the sequence of one empty label.                            *)
(***************************************************************************)
EXTENDS Engine, Certificates, PolicyCoverage

(* certificateRefs is a sequence. *)
ASSUME CertificateRefsAssumption ==
  \A set \in ManifestSets : \A k \in DOMAIN set :
    IsGateway(set[k]) =>
      \A j \in DOMAIN set[k].listeners :
        set[k].listeners[j].tls # Absent =>
          LET refs == set[k].listeners[j].tls.certificateRefs IN
          refs \in Seq({refs[c] : c \in DOMAIN refs})

ListenerChecks ==
  <<"conflicting-listeners", "duplicate-listener-name", "gateway-serves-no-routes",
    "hostname-on-non-hostname-protocol", "tls-listener-without-certificate">>

ListenersOf(o) == IF OwnsListeners(o) THEN o.listeners ELSE <<>>

GatewayListenersOf(o) == IF IsGateway(o) THEN o.listeners ELSE <<>>

-----------------------------------------------------------------------------
(* conflicting-listeners reports <<"indistinct", port, key>> for a group of
   listeners and <<"protocols", port, {a, b}>> for two protocols. *)

(* Mutant: an unset and an empty hostname are told apart. *)
KeyOfUnsetApart(l) == [protocol |-> l.protocol, hostname |-> l.hostname]

KeyOf(l) == [protocol |-> l.protocol, hostname |-> Default(l.hostname, NoHostname)]

IndistinctListeners(listeners) ==
  LET place(j) == <<"indistinct", listeners[j].port, KeyOf(listeners[j])>> IN
  {place(j) : j \in {n \in DOMAIN listeners :
                       \E m \in DOMAIN listeners \ {n} : place(m) = place(n)}}

ClassOf(protocol) ==
  CASE protocol = "HTTP" -> "plaintext"
    [] protocol \in {"HTTPS", "TLS"} -> "TLS"
    [] protocol = "TCP" -> "raw TCP"
    [] protocol = "UDP" -> "UDP"
    [] OTHER -> "unknown"

ProtocolsConflict(a, b) ==
  LET classes == {ClassOf(a), ClassOf(b)} IN
  /\ "unknown" \notin classes
  /\ (ClassOf(a) = "UDP") = (ClassOf(b) = "UDP")
  /\ classes \cap {"raw TCP", "plaintext"} # {}

ProtocolConflicts(listeners) ==
  {<<"protocols", listeners[p[1]].port, {listeners[p[1]].protocol, listeners[p[2]].protocol}>> :
     p \in {q \in (DOMAIN listeners) \X (DOMAIN listeners) :
              /\ listeners[q[1]].port = listeners[q[2]].port
              /\ listeners[q[1]].protocol # listeners[q[2]].protocol
              /\ ProtocolsConflict(listeners[q[1]].protocol, listeners[q[2]].protocol)}}

ConflictingListeners(o) ==
  IndistinctListeners(ListenersOf(o)) \cup ProtocolConflicts(ListenersOf(o))

-----------------------------------------------------------------------------
(* The checks that read one listener, and its name. *)

DuplicateListenerNames(o) ==
  LET listeners == ListenersOf(o) IN
  {listeners[j].name : j \in {n \in DOMAIN listeners :
     \E m \in DOMAIN listeners \ {n} : listeners[m].name = listeners[n].name}}

HostnamesOnNonHostnameProtocols(o) ==
  {j \in DOMAIN GatewayListenersOf(o) :
     LET l == GatewayListenersOf(o)[j] IN
     l.protocol \in {"TCP", "UDP"} /\ l.hostname \notin {Absent, NoHostname}}

LacksCertificate(l) ==
  /\ l.protocol \in {"HTTPS", "TLS"}
  /\ TLSMode(l) = "Terminate"
  /\ l.tls = Absent \/ (l.tls.certificateRefs = <<>> /\ ~l.tls.options)

TLSListenersWithoutCertificate(o) ==
  {j \in DOMAIN GatewayListenersOf(o) : LacksCertificate(GatewayListenersOf(o)[j])}

-----------------------------------------------------------------------------
(* gateway-serves-no-routes. *)

(* Mutant: routes reach a Gateway directly or not at all. *)
NoListenerSets(objs, gateway) == {}

ListenerSetsOf(objs, gateway) ==
  {RefOf(objs[j]) : j \in {n \in DOMAIN objs :
     IsListenerSet(objs[n]) /\ ListenerSetParent(objs[n]) = gateway}}

AttachPoints(objs, gateway) == {gateway} \cup ListenerSetsOf(objs, gateway)

ServesNoRoutes(objs, k) ==
  /\ RoutesIn(objs) # {}
  /\ \A n \in RoutesIn(objs), point \in AttachPoints(objs, RefOf(objs[k])) :
       \A r \in DOMAIN objs[n].parentRefs : ~ParentMatches(ParentOf(objs[n], r), point)

-----------------------------------------------------------------------------
JudgeOwner(check, reported) == Judge(check, TRUE, reported)

ConflictingListenersCheck == JudgeOwner("conflicting-listeners", ConflictingListeners(Current))

DuplicateListenerName == JudgeOwner("duplicate-listener-name", DuplicateListenerNames(Current))

GatewayServesNoRoutes ==
  Judge("gateway-serves-no-routes", IsGateway(Current) /\ ServesNoRoutes(objects, at[1]), {1})

HostnameOnNonHostnameProtocol ==
  JudgeOwner("hostname-on-non-hostname-protocol", HostnamesOnNonHostnameProtocols(Current))

TLSListenerWithoutCertificate ==
  JudgeOwner("tls-listener-without-certificate", TLSListenersWithoutCertificate(Current))

Next ==
  \/ Load
  \/ ConflictingListenersCheck \/ DuplicateListenerName \/ GatewayServesNoRoutes
  \/ HostnameOnNonHostnameProtocol \/ TLSListenerWithoutCertificate
  \/ Finish

Spec == Init /\ [][Next]_vars

-----------------------------------------------------------------------------
(* The reference: which two listeners of one object Gateway API refuses. *)

Protocol(k, j) == objects[k].listeners[j].protocol

HostnameOf(k, j) == Default(objects[k].listeners[j].hostname, NoHostname)

ProtocolsThatCannotShare ==
  {{"TCP", "HTTP"}, {"TCP", "HTTPS"}, {"TCP", "TLS"}, {"HTTP", "HTTPS"}, {"HTTP", "TLS"}}

Refused(k, i, j) ==
  /\ objects[k].listeners[i].port = objects[k].listeners[j].port
  /\ IF Protocol(k, i) = Protocol(k, j) THEN HostnameOf(k, i) = HostnameOf(k, j)
     ELSE {Protocol(k, i), Protocol(k, j)} \in ProtocolsThatCannotShare

(* A finding says of two listeners that they conflict with each other. *)
SaysConflict(x, k, i, j) ==
  LET l == objects[k].listeners[i]
      m == objects[k].listeners[j]
  IN
  /\ x[2] = l.port /\ x[2] = m.port
  /\ \/ x[1] = "indistinct" /\ x[3] = KeyOf(l) /\ x[3] = KeyOf(m)
     \/ x[1] = "protocols" /\ x[3] = {l.protocol, m.protocol}

ConflictsFound(k) == {f[3] : f \in {g \in findings : g[1] = "conflicting-listeners" /\ g[2] = k}}

Owners == {k \in DOMAIN objects : OwnsListeners(objects[k])}

(* A listener with a hostname that its protocol does not carry. *)
HostnameUnused(k, j) == Protocol(k, j) \in {"TCP", "UDP"} /\ HostnameOf(k, j) # NoHostname

(* conflictinglisteners "every listener in the conflicting group is refused": the
   two walks, by key and by protocol, over the listeners of a port divide the
   conflicts between them.  Two listeners that cannot both be programmed are
   named by exactly one finding, and others by none; and no finding is about less
   than two. *)
ConflictReportedOnce ==
  phase = "done" /\ "conflicting-listeners" \in Enabled =>
    \A k \in Owners :
      LET listeners == DOMAIN objects[k].listeners IN
      /\ \A i, j \in listeners :
           i # j /\ ~HostnameUnused(k, i) /\ ~HostnameUnused(k, j) =>
             Cardinality({x \in ConflictsFound(k) : SaysConflict(x, k, i, j)}) =
               IF Refused(k, i, j) THEN 1 ELSE 0
      /\ \A x \in ConflictsFound(k) : \E i, j \in listeners : i # j /\ SaysConflict(x, k, i, j)

(* The ListenerSets that name a Gateway as a parent of another group or kind: they
   hang under something else that happens to have its namespace and name. *)
ForeignSetsNaming(k) ==
  {j \in DOMAIN objects :
     /\ IsListenerSet(objects[j])
     /\ \/ objects[j].parent.group \notin {Absent, GroupName}
        \/ objects[j].parent.kind \notin {Absent, "Gateway"}
     /\ Default(objects[j].parent.ns, objects[j].ns) = objects[k].ns
     /\ objects[j].parent.name = objects[k].name}

(* gatewayservesnoroutes decides what lies under a Gateway by a walk of its own,
   which does not look at the group and kind of a ListenerSet's parent; the Envoy
   Gateway checks walk by policycoverage.go, which does.  A Gateway is idle for
   this check exactly when the set has routes, that other walk finds none below
   it, and none hangs on a ListenerSet of a foreign parent with its name: this
   last case, and no other, is where the two walks part. *)
IdleGatewayExact ==
  phase = "done" /\ "gateway-serves-no-routes" \in Enabled =>
    \A k \in {n \in DOMAIN objects : IsGateway(objects[n])} :
      Reported("gateway-serves-no-routes", k, 1) <=>
        /\ RoutesIn(objects) # {}
        /\ RoutesAttachedToGateway(objects, RefOf(objects[k]), Absent) = {}
        /\ \A j \in ForeignSetsNaming(k) :
             RoutesAttachedToParent(objects, RefOf(objects[j]), Absent) = {}

(* tlslistenerwithoutcertificate "that is a dangling reference rather than a
   missing certificate": a listener that terminates TLS is either reported for
   having no certificate or handed, through its certificateRefs, to the two
   certificate checks, never both, and one that does not terminate is neither.
   The two sides read tls.mode by code of their own, and an empty mode terminates
   for the first side only: a listener that terminates goes without a judge
   exactly if its mode is empty and it has certificateRefs. *)
TerminatingListenerHasOneJudge ==
  phase = "done" /\ "tls-listener-without-certificate" \in Enabled =>
    \A k \in {n \in DOMAIN objects : IsGateway(objects[n])} :
      \A j \in DOMAIN objects[k].listeners :
        LET l == objects[k].listeners[j]
            missing == Reported("tls-listener-without-certificate", k, j)
            referred == \E p \in TerminatingCertificateRefs(objects[k]) : p[1] = j
            supplied == l.tls # Absent /\ l.tls.options
            overlooked == l.tls # Absent /\ l.tls.mode = "" /\ l.tls.certificateRefs # <<>>
        IN
        l.protocol \in {"HTTPS", "TLS"} =>
          /\ ~(missing /\ referred)
          /\ l.tls = Absent \/ l.tls.mode \in {Absent, "", "Terminate"} =>
               (~supplied => (missing \/ referred <=> ~overlooked))
          /\ l.tls # Absent /\ l.tls.mode \notin {Absent, "", "Terminate"} =>
               ~missing /\ ~referred

=============================================================================
