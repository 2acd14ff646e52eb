---------------------------- MODULE Attachment ----------------------------
(***************************************************************************)
(* Tier 1, silent non-attachment: the five checks that judge a route's     *)
(* parentRefs, run by the engine over a manifest set.                      *)
(*                                                                         *)
(* A finding is recorded as <<check, object, parentRef>>.                  *)
(***************************************************************************)
EXTENDS Engine

CONSTANT Hosts  \* bound: the client hostnames the reference meaning tries

(* Manifest sets and listener lists are sequences. *)
ASSUME SequencesAssumption ==
  \A set \in ManifestSets :
    /\ DOMAIN set \subseteq Nat
    /\ \A i \in DOMAIN set : OwnsListeners(set[i]) => DOMAIN set[i].listeners \subseteq Nat

(* A hostname has at least one label, possibly an empty one. *)
ASSUME HostnamesAssumption ==
  LET Hostname == Seq(STRING) \ {<<>>} IN
  /\ Hosts \subseteq Hostname
  /\ \A set \in ManifestSets : \A i \in DOMAIN set :
       /\ IsRoute(set[i]) => HostnamesOf(set[i]) \subseteq Hostname
       /\ OwnsListeners(set[i]) =>
            \A j \in DOMAIN set[i].listeners :
              set[i].listeners[j].hostname = Absent \/ set[i].listeners[j].hostname \in Hostname

(* allowedRoutes.namespaces.from has a value of the schema; gwlint takes any
   other for permission. *)
ASSUME FromAssumption ==
  \A set \in ManifestSets : \A i \in DOMAIN set : OwnsListeners(set[i]) =>
    \A j \in DOMAIN set[i].listeners :
      set[i].listeners[j].from \in {Absent, "Same", "All", "Selector"}

(* The Tier 1 checks, in the order the engine runs them. *)
TierOneChecks ==
  <<"dangling-parent-ref", "hostname-never-matches", "listener-not-found",
    "protocol-mismatch", "route-not-permitted">>

-----------------------------------------------------------------------------
(* The check functions.  Each returns the parentRefs it reports. *)

GatewayRefs(route) ==
  {r \in DOMAIN route.parentRefs : ParentOf(route, r).group = GroupName}

(* Mutant: a set without any parent is judged too. *)
DanglingRefsUnguarded(objs, route) ==
  {r \in GatewayRefs(route) :
     OwnerOf(ParentOf(route, r)) \notin GatewaysAndListenerSets(objs)}

DanglingRefs(objs, route) ==
  LET known == GatewaysAndListenerSets(objs) IN
  {r \in GatewayRefs(route) :
     known # {} /\ OwnerOf(ParentOf(route, r)) \notin known}

(* Mutant: a parent is present as soon as it is loaded. *)
PresentInSet(objs, parent) == OwnerOf(parent) \in GatewaysAndListenerSets(objs)

(* "present" is that the owner has an entry in ListenersByOwner's map. *)
Present(objs, parent) == ListenersByOwner(objs, OwnerOf(parent)) # {}

ListenerNotFoundRefs(objs, route) ==
  {r \in GatewayRefs(route) :
     LET parent == ParentOf(route, r) IN
     /\ parent.section # Absent
     /\ Present(objs, parent)
     /\ ListenersFor(objs, parent) = {}}

Refuses(l, parent, route) == ~AcceptsNamespace(l, parent.ns, route.ns)

(* Mutant: one refusing listener is enough. *)
NotPermittedByOne(objs, route) ==
  {r \in GatewayRefs(route) :
     LET parent == ParentOf(route, r) IN
     \E p \in ListenersFor(objs, parent) :
       LET l == ListenerAt(objs, p) IN
       \/ Refuses(l, parent, route)
       \/ HasExplicitKinds(l) /\ ~AcceptsKind(l, route.type)}

(* whyNoneAdmit gives up as soon as a listener admits the namespace and
   either sets no kinds of its own or accepts the route's kind. *)
NotPermittedRefs(objs, route) ==
  {r \in GatewayRefs(route) :
     LET parent == ParentOf(route, r)
         candidates == ListenersFor(objs, parent)
     IN
     /\ candidates # {}
     /\ \A p \in candidates :
          LET l == ListenerAt(objs, p) IN
          \/ Refuses(l, parent, route)
          \/ HasExplicitKinds(l) /\ ~AcceptsKind(l, route.type)}

Carries(l, kind) ==
  RouteKindsFor(l.protocol) = {} \/ kind \in RouteKindsFor(l.protocol)

(* Mutant: a listener whose own kinds exclude the route counts as well. *)
ProtocolMismatchOfAny(objs, route) ==
  {r \in GatewayRefs(route) :
     LET parent == ParentOf(route, r)
         admitting == {p \in ListenersFor(objs, parent) :
                         ~Refuses(ListenerAt(objs, p), parent, route)}
     IN
     /\ admitting # {}
     /\ \A p \in admitting : ~Carries(ListenerAt(objs, p), route.type)}

(* Mutant: a listener that sets kinds is always left to route-not-permitted. *)
ProtocolMismatchDefaultsOnly(objs, route) ==
  {r \in GatewayRefs(route) :
     LET parent == ParentOf(route, r)
         admitting == {p \in ListenersFor(objs, parent) :
                         ~Refuses(ListenerAt(objs, p), parent, route)}
     IN
     /\ \A p \in admitting : ~Carries(ListenerAt(objs, p), route.type)
     /\ \E p \in admitting : ~HasExplicitKinds(ListenerAt(objs, p))}

(* whyNoListenerCarries: a reason needs a listener whose kinds do not exclude
   the route, and there is none to give once some listener carries it. *)
ProtocolMismatchRefs(objs, route) ==
  {r \in GatewayRefs(route) :
     LET parent == ParentOf(route, r)
         admitting == {p \in ListenersFor(objs, parent) :
                         ~Refuses(ListenerAt(objs, p), parent, route)}
     IN
     /\ \A p \in admitting : ~Carries(ListenerAt(objs, p), route.type)
     /\ \E p \in admitting :
          LET l == ListenerAt(objs, p) IN
          HasExplicitKinds(l) => AcceptsKind(l, route.type)}

(* whyNoListenerMatches, for routes that have hostnames at all. *)
HostnameMismatchRefs(objs, route) ==
  {r \in GatewayRefs(route) :
     LET parent == ParentOf(route, r)
         judged == {p \in ListenersFor(objs, parent) :
                      LET l == ListenerAt(objs, p) IN
                      ~Refuses(l, parent, route) /\ AcceptsKind(l, route.type)}
     IN
     /\ HostnamesOf(route) # {}
     /\ judged # {}
     /\ \A p \in judged :
          ~HostnamesIntersect(ListenerAt(objs, p), HostnamesOf(route))}

-----------------------------------------------------------------------------
JudgeRoute(check, refs) == Judge(check, IsRoute(Current), refs)

DanglingParentRef    == JudgeRoute("dangling-parent-ref", DanglingRefs(objects, Current))
HostnameNeverMatches == JudgeRoute("hostname-never-matches", HostnameMismatchRefs(objects, Current))
ListenerNotFound     == JudgeRoute("listener-not-found", ListenerNotFoundRefs(objects, Current))
ProtocolMismatch     == JudgeRoute("protocol-mismatch", ProtocolMismatchRefs(objects, Current))
RouteNotPermitted    == JudgeRoute("route-not-permitted", NotPermittedRefs(objects, Current))

Next ==
  \/ Load
  \/ DanglingParentRef \/ HostnameNeverMatches \/ ListenerNotFound
  \/ ProtocolMismatch \/ RouteNotPermitted
  \/ Finish

Spec == Init /\ [][Next]_vars

-----------------------------------------------------------------------------
(* The parentRefs of the loaded routes that point into Gateway API. *)
LoadedRefs ==
  UNION {{<<k, r>> : r \in GatewayRefs(objects[k])} :
           k \in {i \in DOMAIN objects : IsRoute(objects[i])}}

-----------------------------------------------------------------------------
(* The reference: what Gateway API does with the parentRef, over every object
   of the set whatever version it was written in. *)

ParentsNamed(parent) ==
  {i \in DOMAIN objects :
     objects[i].type \in {"Gateway", "ListenerSet"} /\ RefOf(objects[i]) = OwnerOf(parent)}

SelectedListeners(parent) ==
  UNION {{objects[i].listeners[j] :
            j \in {n \in DOMAIN objects[i].listeners :
                     parent.section \in {Absent, objects[i].listeners[n].name}}} :
           i \in ParentsNamed(parent)}

(* A listener admits a route when its namespace is allowed, its kind is among
   those the listener names (by default those of its protocol), and the
   protocol can carry it; gwlint cannot know what other protocols carry. *)
Admits(l, parent, route) ==
  /\ l.from \in {"All", "Selector"} \/ route.ns = parent.ns
  /\ l.kinds # {} =>
       \E k \in l.kinds : k.kind = route.type /\ k.group \in {Absent, GroupName}
  /\ RouteKindsFor(l.protocol) # {} => route.type \in RouteKindsFor(l.protocol)

Attaches(k, r) ==
  LET parent == ParentOf(objects[k], r) IN
  \E l \in SelectedListeners(parent) : Admits(l, parent, objects[k])

NonAttachmentChecks ==
  {"dangling-parent-ref", "listener-not-found", "protocol-mismatch", "route-not-permitted"}

AttachmentChecks == NonAttachmentChecks \cup {"hostname-never-matches"}

(* Listeners of a parent have distinct names (schema validation enforces it,
   and duplicate-listener-name reports the rest). *)
ListenerNamesDistinct ==
  \A i \in DOMAIN objects :
    objects[i].type \in {"Gateway", "ListenerSet"} =>
      \A m, n \in DOMAIN objects[i].listeners :
        objects[i].listeners[m].name = objects[i].listeners[n].name => m = n

ParentIsV1(k, r) ==
  \A i \in ParentsNamed(ParentOf(objects[k], r)) : objects[i].version = "v1"

(* No false alarm: when a Tier 1 check says a route will never attach through
   a parentRef, no listener that parentRef selects would have admitted it. *)
NoFalseAlarm ==
  ListenerNamesDistinct =>
    \A ref \in LoadedRefs, check \in NonAttachmentChecks :
      Reported(check, ref[1], ref[2]) /\ ParentIsV1(ref[1], ref[2])
        => ~Attaches(ref[1], ref[2])

(* attach.go "so a mismatch is never reported by both", and the checks'
   comments on whose finding it is: no two of the four checks that explain a
   failed attachment explain the same parentRef. *)
OneExplanation ==
  \A ref \in LoadedRefs, c, d \in NonAttachmentChecks :
    Reported(c, ref[1], ref[2]) /\ Reported(d, ref[1], ref[2]) => c = d

(* Nothing falls between the checks where a parentRef names its listener: if
   that listener will not admit the route, or does not exist, exactly that is
   reported.  The parent has to be a v1 object with at least one listener. *)
NamedListenerJudged ==
  phase = "done" /\ ListenerNamesDistinct /\ NonAttachmentChecks \subseteq Enabled =>
    \A ref \in LoadedRefs :
      LET parent == ParentOf(objects[ref[1]], ref[2]) IN
      /\ parent.section # Absent
      /\ Present(objects, parent)
      /\ ~\E l \in SelectedListeners(parent) : l.kinds # {} /\ AcceptedKinds(l) = {}
      /\ ~Attaches(ref[1], ref[2])
      => \E c \in NonAttachmentChecks : Reported(c, ref[1], ref[2])

(* The listeners that admit the route's namespace keep it out for two reasons,
   one by its protocol alone and one by its kinds alone, and each of the checks
   on these leaves the parentRef to the other. *)
RefusalIsSplit(k, r) ==
  LET parent == ParentOf(objects[k], r)
      kind == objects[k].type
      open == {l \in {ListenerAt(objects, p) : p \in ListenersFor(objects, parent)} :
                 ~Refuses(l, parent, objects[k])}
  IN
  /\ \E l \in open : ~Carries(l, kind) /\ (HasExplicitKinds(l) => AcceptsKind(l, kind))
  /\ \E l \in open : Carries(l, kind) /\ HasExplicitKinds(l) /\ ~AcceptsKind(l, kind)

(* A listener that admits the route's namespace names only kinds of other groups:
   AcceptsKind drops them all, and its nil slice then accepts anything. *)
OnlyForeignKinds(l) ==
  l.kinds # {} /\ \A k \in l.kinds : k.group \notin {Absent, GroupName}

RefusalIsUnseen(k, r) ==
  LET parent == ParentOf(objects[k], r) IN
  \E p \in ListenersFor(objects, parent) :
    LET l == ListenerAt(objects, p) IN
    ~Refuses(l, parent, objects[k]) /\ OnlyForeignKinds(l) /\ Carries(l, objects[k].type)

(* The four checks leave a route that does not attach unexplained in four cases
   and no other: the set has no parent at all (a partial set), the parent lists no
   listener (and so has no entry in ListenersByOwner), its listeners split the
   refusal between two checks, or one of them names foreign kinds only, and could
   carry the route by its protocol. *)
SilenceAccountedFor ==
  phase = "done" /\ ListenerNamesDistinct /\ NonAttachmentChecks \subseteq Enabled =>
    \A ref \in LoadedRefs :
      LET parent == ParentOf(objects[ref[1]], ref[2])
          known == GatewaysAndListenerSets(objects)
      IN
      ~Attaches(ref[1], ref[2])
      => ((\A c \in NonAttachmentChecks : ~Reported(c, ref[1], ref[2])) <=>
            \/ known = {}
            \/ OwnerOf(parent) \in known /\ ~Present(objects, parent)
            \/ RefusalIsSplit(ref[1], ref[2])
            \/ RefusalIsUnseen(ref[1], ref[2]))

(* Requests a client can send to one of `Hosts` reach the route. *)
Serves(k, r) ==
  LET parent == ParentOf(objects[k], r)
      hostnames == HostnamesOf(objects[k])
  IN
  \E l \in SelectedListeners(parent) :
    /\ Admits(l, parent, objects[k])
    /\ \/ AnyHostname(l)
       \/ hostnames = {}
       \/ \E h \in hostnames : CommonHost(l.hostname, h, Hosts)

(* hostname-never-matches is right both ways: what it reports can serve no
   client, and a route that attaches to the listener it names and can serve no
   client is reported. *)
HostnameVerdictExact ==
  phase = "done" /\ ListenerNamesDistinct =>
    \A ref \in LoadedRefs :
      LET k == ref[1]
          r == ref[2]
          unmatched == Reported("hostname-never-matches", k, r)
      IN
      /\ unmatched => ~Serves(k, r)
      /\ /\ "hostname-never-matches" \in Enabled
         /\ ParentOf(objects[k], r).section # Absent
         /\ ParentIsV1(k, r)
         /\ Attaches(k, r)
         /\ ~Serves(k, r)
         => unmatched

(* A partial manifest set is a normal thing to lint (danglingparentref, "the
   Gateway usually lives in a different chart or repo"): a parentRef whose
   parent is not in the set is at most dangling, and not even that when the set
   has no parent at all. *)
AbsentParentIsQuiet ==
  \A f \in findings :
    OwnerOf(ParentOf(objects[f[2]], f[3])) \notin GatewaysAndListenerSets(objects)
      => /\ f[1] = "dangling-parent-ref"
         /\ \E i \in DOMAIN objects : objects[i].type \in {"Gateway", "ListenerSet"}

(* What a check function returns of the k-th object of a set. *)
Returns(check, objs, k) ==
  CASE check = "dangling-parent-ref"    -> DanglingRefs(objs, objs[k])
    [] check = "hostname-never-matches" -> HostnameMismatchRefs(objs, objs[k])
    [] check = "listener-not-found"     -> ListenerNotFoundRefs(objs, objs[k])
    [] check = "protocol-mismatch"      -> ProtocolMismatchRefs(objs, objs[k])
    [] check = "route-not-permitted"    -> NotPermittedRefs(objs, objs[k])

(* What Tier 1 reports of a manifest set, by object instead of by position. *)
FindingsOf(objs) ==
  {<<f[1], RefOf(objs[f[2]]), f[3]>> : f \in
     UNION {UNION {{<<check, k, r>> : r \in Returns(check, objs, k)} :
              k \in {i \in DOMAIN objs : IsRoute(objs[i])}} :
              check \in Enabled \cap AttachmentChecks}}

(* The order files are named in on the command line, or directories are
   walked in, does not show in the result: the run reports what the checks
   find in any rearrangement of the set. *)
LoadOrderIrrelevant ==
  phase = "done" =>
    \A order \in {f \in [DOMAIN objects -> DOMAIN objects] :
                    \A i, j \in DOMAIN objects : f[i] = f[j] => i = j} :
      FindingsOf([i \in DOMAIN objects |-> objects[order[i]]]) =
        {<<f[1], RefOf(objects[f[2]]), f[3]>> : f \in findings}

-----------------------------------------------------------------------------
(* What comments of the code say and the code does not do. *)

(* routenotpermitted/template.go "whyNoneAdmit returns why every candidate
   listener refuses the route, or "" if any one of them admits it", where a
   refusal by protocol is left to protocol-mismatch: if no listener a parentRef
   selects admits the route, one of the checks says so. *)
RefusalExplained ==
  phase = "done" /\ ListenerNamesDistinct =>
    \A ref \in LoadedRefs :
      LET parent == ParentOf(objects[ref[1]], ref[2]) IN
      /\ Present(objects, parent)
      /\ ~\E l \in SelectedListeners(parent) : l.kinds # {} /\ AcceptedKinds(l) = {}
      /\ ~Attaches(ref[1], ref[2])
      => \E c \in NonAttachmentChecks : Reported(c, ref[1], ref[2])

(* objectkinds/gatewayapi.go "a check should see the object whichever version
   it was written in": a parentRef to a Gateway of the set is not dangling. *)
ParentSeenAtEveryVersion ==
  \A ref \in LoadedRefs :
    Reported("dangling-parent-ref", ref[1], ref[2])
      => ParentsNamed(ParentOf(objects[ref[1]], ref[2])) = {}

=============================================================================
