---------------------------- MODULE RoutesProofs ----------------------------
(***************************************************************************)
(* What the route checks report is right for every manifest set and every  *)
(* choice of enabled checks: safety of Routes, for all values of its       *)
(* constants.                                                              *)
(***************************************************************************)
EXTENDS Routes, HostnamesProofs, EngineProofs, FiniteSetTheorems

(* What a check function returns of the k-th object of the loaded set. *)
Returns(check, k) ==
  IF ~IsRoute(objects[k]) THEN {}
  ELSE CASE check = "all-weights-zero" -> ZeroWeightRules(objects[k])
         [] check = "conflicting-route-match" -> ConflictingMatches(objects, k)
         [] check = "duplicate-rule-name" -> DuplicateRuleNames(objects[k])
         [] check = "rule-serves-nothing" -> RulesServingNothing(objects[k])
         [] check = "service-backend-without-port" -> ServiceRefsWithoutPort(objects[k])

Names ==
  {"all-weights-zero", "conflicting-route-match", "duplicate-rule-name",
   "rule-serves-nothing", "service-backend-without-port"}

Due ==
  UNION {UNION {{<<check, k, x>> : x \in Returns(check, k)} : k \in DOMAIN objects} :
           check \in Names}

(* Inductive: what has been recorded is exactly what is due so far. *)
IInv == LoopInv /\ findings = DueSoFar(Due)

-----------------------------------------------------------------------------
LEMMA DueIff ==
  /\ \A check, k, x :
       <<check, k, x>> \in Due <=>
         check \in Names /\ k \in DOMAIN objects /\ x \in Returns(check, k)
  /\ \A f \in Due : f = <<f[1], f[2], f[3]>> /\ f[2] \in DOMAIN objects
  BY DEF Due

LEMMA JudgePreserves ==
  ASSUME IInv, NEW check \in Names, NEW applies, NEW refs, Judge(check, applies, refs),
         \A x : x \in Returns(check, at[1]) <=> applies /\ x \in refs
  PROVE  IInv'
<1>1. at[1] \in DOMAIN objects /\ objects' = objects
  BY DEF Judge
<1>2. \A x : <<check, at[1], x>> \in Due <=> applies /\ x \in refs
  BY <1>1, DueIff
<1>3. LoopInv /\ findings = DueSoFar(Due)
  BY DEF IInv
<1>4. findings' = {f \in Due : Called(f[1], f[2])'}
  BY <1>1, <1>2, <1>3, DueIff, JudgeRecords
<1>5. Due' = Due
  BY <1>1 DEF Due, Returns
<1>6. DueSoFar(Due)' = {f \in Due' : Called(f[1], f[2])'}
  BY DEF DueSoFar
<1>7. LoopInv'
  BY <1>3, JudgeLoop
<1> QED BY <1>4, <1>5, <1>6, <1>7 DEF IInv

LEMMA LoadPreserves == ASSUME IInv, Load PROVE IInv'
<1>1. LoopInv /\ LoopInv'
  BY LoadLoop DEF IInv
<1>2. \A f \in Due' : f[2] \in DOMAIN objects'
  BY DEF Due
<1>3. findings' = {f \in Due' : Called(f[1], f[2])'}
  BY <1>1, <1>2, LoadRecords
<1>4. DueSoFar(Due)' = {f \in Due' : Called(f[1], f[2])'}
  BY DEF DueSoFar
<1> QED BY <1>1, <1>3, <1>4 DEF IInv

LEMMA JudgeRoutePreserves ==
  ASSUME IInv, NEW check \in Names, NEW refs, JudgeRoute(check, refs),
         IsRoute(objects[at[1]]) => refs = Returns(check, at[1])
  PROVE  IInv'
<1>1. Judge(check, IsRoute(objects[at[1]]), refs)
  BY DEF JudgeRoute, Current
<1>2. ~IsRoute(objects[at[1]]) => Returns(check, at[1]) = {}
  BY DEF Returns
<1>3. \A x : x \in Returns(check, at[1]) <=> IsRoute(objects[at[1]]) /\ x \in refs
  BY <1>2
<1> QED BY <1>1, <1>3, JudgePreserves

LEMMA Invariance == Spec => []IInv
<1>1. Init => IInv
  <2> SUFFICES ASSUME Init PROVE IInv
    OBVIOUS
  <2>1. LoopInv
    BY InitLoop
  <2>2. Due = {} /\ findings = {}
    BY DEF Init, Due
  <2> QED BY <2>1, <2>2 DEF IInv, DueSoFar
<1>2. IInv /\ [Next]_vars => IInv'
  <2> SUFFICES ASSUME IInv, [Next]_vars PROVE IInv'
    OBVIOUS
  <2>1. CASE Load
    BY <2>1, LoadPreserves
  <2>2. CASE AllWeightsZeroCheck
    BY <2>2, JudgeRoutePreserves DEF AllWeightsZeroCheck, Current, Returns, Names
  <2>3. CASE ConflictingRouteMatch
    BY <2>3, JudgeRoutePreserves DEF ConflictingRouteMatch, Returns, Names
  <2>4. CASE DuplicateRuleName
    BY <2>4, JudgeRoutePreserves DEF DuplicateRuleName, Current, Returns, Names
  <2>5. CASE RuleServesNothing
    BY <2>5, JudgeRoutePreserves DEF RuleServesNothing, Current, Returns, Names
  <2>6. CASE ServiceBackendWithoutPort
    BY <2>6, JudgeRoutePreserves DEF ServiceBackendWithoutPort, Current, Returns, Names
  <2>7. CASE Finish
    <3>1. LoopInv'
      BY <2>7, FinishLoop DEF IInv
    <3> QED BY <2>7, <3>1 DEF Finish, IInv, DueSoFar, Due, Returns, Called
  <2>8. CASE UNCHANGED vars
    <3>1. LoopInv'
      BY <2>8, StutterLoop DEF IInv
    <3> QED BY <2>8, <3>1 DEF vars, IInv, DueSoFar, Due, Returns, Called
  <2> QED BY <2>1, <2>2, <2>3, <2>4, <2>5, <2>6, <2>7, <2>8 DEF Next
<1> QED BY <1>1, <1>2, PTL DEF Spec

(* A finished run has reported exactly what the enabled check functions return of
   every object. *)
LEMMA FinishedRun ==
  ASSUME IInv, phase = "done", NEW check \in Names, check \in Enabled,
         NEW k \in DOMAIN objects, NEW x
  PROVE  <<check, k, x>> \in findings <=> x \in Returns(check, k)
<1>1. PICK c \in DOMAIN Checks : Checks[c] = check
  BY DEF Enabled
<1>2. Called(check, k)
  BY <1>1, AllCalled DEF IInv
<1>3. <<check, k, x>> \in findings <=> <<check, k, x>> \in Due
  BY <1>2 DEF IInv, DueSoFar
<1> QED BY <1>3, DueIff

LEMMA FindingIsDue ==
  ASSUME IInv, NEW check, NEW k, NEW x, <<check, k, x>> \in findings
  PROVE  check \in Names /\ k \in DOMAIN objects /\ x \in Returns(check, k)
  BY DueIff DEF IInv, DueSoFar

-----------------------------------------------------------------------------
(* all-weights-zero and rule-serves-nothing. *)

LEMMA DeadRules ==
  ASSUME objects \in ManifestSets, NEW k \in DOMAIN objects, IsRoute(objects[k]),
         NEW i \in DOMAIN objects[k].rules,
         NEW refs, refs = objects[k].rules[i].backendRefs,
         NEW zero, zero <=> i \in ZeroWeightRules(objects[k]),
         NEW nothing, nothing <=> i \in RulesServingNothing(objects[k]),
         NEW forwards, forwards <=> \E b \in DOMAIN refs : Default(refs[b].weight, 1) > 0
  PROVE  /\ ~(zero /\ nothing)
         /\ forwards => ~zero /\ ~nothing
         /\ ~forwards /\ FiltersOf(objects[k], i) \cap TerminatingFilters = {} => zero \/ nothing
<1>1. RulesOf(objects[k]) = objects[k].rules
  BY DEF RulesOf
<1>2. zero <=> refs # <<>> /\ \A b \in DOMAIN refs : refs[b].weight = 0
  BY <1>1 DEF ZeroWeightRules, AllWeightsZero
<1>3. nothing <=> refs = <<>> /\ FiltersOf(objects[k], i) \cap TerminatingFilters = {}
  BY <1>1 DEF RulesServingNothing, ServesAResponse
<1>4. \A b \in DOMAIN refs : refs[b].weight = Absent \/ refs[b].weight \in Nat
  BY WeightsAssumption
<1>5. \A b \in DOMAIN refs : refs[b].weight = 0 <=> ~(Default(refs[b].weight, 1) > 0)
  BY <1>4, WeightsAssumption DEF Default
<1>6. forwards <=> ~(\A b \in DOMAIN refs : refs[b].weight = 0)
  BY <1>5
<1>7. refs = <<>> => \A b \in DOMAIN refs : refs[b].weight = 0
  OBVIOUS
<1> QED BY <1>2, <1>3, <1>6, <1>7

LEMMA AtMostOne ==
  ASSUME NEW S, S = {} \/ \E c : S = {c}
  PROVE  Cardinality(S) <= 1
<1>1. CASE S = {}
  BY <1>1, FS_EmptySet
<1>2. CASE \E c : S = {c}
  <2>1. Cardinality(S) = 1
    BY <1>2, FS_Singleton
  <2> QED BY <2>1
<1> QED BY <1>1, <1>2

(* The two checks about rules that forward nothing divide those rules between
   them. *)
THEOREM DeadRulesReportedOnce == Spec => []DeadRuleReportedOnce
<1>1. IInv => DeadRuleReportedOnce
  <2> SUFFICES ASSUME IInv, phase = "done",
                      {"all-weights-zero", "rule-serves-nothing"} \subseteq Enabled,
                      NEW k \in DOMAIN objects, IsRoute(objects[k]),
                      NEW i \in DOMAIN objects[k].rules
               PROVE  LET reports == {c \in {"all-weights-zero", "rule-serves-nothing"} :
                                        Reported(c, k, i)}
                          refs == objects[k].rules[i].backendRefs
                          forwards == \E b \in DOMAIN refs : Default(refs[b].weight, 1) > 0
                      IN
                      /\ Cardinality(reports) <= 1
                      /\ forwards => reports = {}
                      /\ ~forwards /\ FiltersOf(objects[k], i) \cap TerminatingFilters = {}
                           => reports # {}
    BY DEF DeadRuleReportedOnce
  <2> DEFINE reports == {c \in {"all-weights-zero", "rule-serves-nothing"} : Reported(c, k, i)}
             refs == objects[k].rules[i].backendRefs
             forwards == \E b \in DOMAIN refs : Default(refs[b].weight, 1) > 0
             zero == Reported("all-weights-zero", k, i)
             nothing == Reported("rule-serves-nothing", k, i)
  <2>1. objects \in ManifestSets
    BY DEF IInv, LoopInv
  <2>2. zero <=> i \in ZeroWeightRules(objects[k])
    <3>1. Returns("all-weights-zero", k) = ZeroWeightRules(objects[k])
      BY DEF Returns
    <3> QED BY <3>1, FinishedRun DEF Reported, Names
  <2>3. nothing <=> i \in RulesServingNothing(objects[k])
    <3>1. Returns("rule-serves-nothing", k) = RulesServingNothing(objects[k])
      BY DEF Returns
    <3> QED BY <3>1, FinishedRun DEF Reported, Names
  <2>4. /\ ~(zero /\ nothing)
        /\ forwards => ~zero /\ ~nothing
        /\ ~forwards /\ FiltersOf(objects[k], i) \cap TerminatingFilters = {} => zero \/ nothing
    BY <2>1, <2>2, <2>3, DeadRules
  <2> HIDE DEF zero, nothing, forwards
  <2>5. reports = (IF zero THEN {"all-weights-zero"} ELSE {})
                    \cup (IF nothing THEN {"rule-serves-nothing"} ELSE {})
    BY DEF zero, nothing
  <2>6. reports = {} \/ \E c : reports = {c}
    BY <2>4, <2>5
  <2>7. Cardinality(reports) <= 1
    BY <2>6, AtMostOne
  <2>8. zero \/ nothing <=> reports # {}
    BY <2>5
  <2> HIDE DEF reports
  <2>9. /\ Cardinality(reports) <= 1
        /\ forwards => reports = {}
        /\ ~forwards /\ FiltersOf(objects[k], i) \cap TerminatingFilters = {} => reports # {}
    BY <2>4, <2>7, <2>8
  <2> QED BY <2>9 DEF reports, forwards
<1> QED BY <1>1, Invariance, PTL

-----------------------------------------------------------------------------
(* conflicting-route-match. *)

(* The order of two routes is strict and total. *)
LEMMA OneSortsBefore ==
  ASSUME objects \in ManifestSets, NEW k \in DOMAIN objects, NEW n \in DOMAIN objects, k # n,
         objects[k].type = objects[n].type
  PROVE  SortsBefore(RefOf(objects[k]), RefOf(objects[n]))
           <=> ~SortsBefore(RefOf(objects[n]), RefOf(objects[k]))
<1>1. RefOf(objects[k]) # RefOf(objects[n])
  BY IdentityAssumption
<1>2. objects[k].ns # objects[n].ns \/ objects[k].name # objects[n].name
  BY <1>1 DEF RefOf
<1>3. \A a \in DOMAIN Rank : Rank[a] \in Nat
  BY RankAssumption
<1>4. /\ objects[k].ns \in DOMAIN Rank /\ objects[k].name \in DOMAIN Rank
      /\ objects[n].ns \in DOMAIN Rank /\ objects[n].name \in DOMAIN Rank
  BY RankAssumption
<1>5. /\ Rank[objects[k].ns] \in Nat /\ Rank[objects[n].ns] \in Nat
      /\ Rank[objects[k].name] \in Nat /\ Rank[objects[n].name] \in Nat
      /\ Rank[objects[k].ns] = Rank[objects[n].ns] => objects[k].ns = objects[n].ns
      /\ Rank[objects[k].name] = Rank[objects[n].name] => objects[k].name = objects[n].name
  BY <1>3, <1>4, RankAssumption
<1> QED BY <1>2, <1>5 DEF SortsBefore, RefOf, ObjectRef

(* Listener names distinct, a listener's attachment names it. *)
LEMMA AttachedListener ==
  ASSUME NEW route, NEW t \in AttachesThrough(objects, route)
  PROVE  /\ t = <<t[1], t[2]>> /\ t[1] \in DOMAIN objects /\ OwnsListeners(objects[t[1]])
         /\ t[2] \in DOMAIN objects[t[1]].listeners
<1>1. PICK r \in DOMAIN route.parentRefs :
        t \in ListenersByOwner(objects, OwnerOf(ParentOf(route, r)))
  BY DEF AttachesThrough
<1> QED BY <1>1 DEF ListenersByOwner

LEMMA AttachmentNamesListener ==
  ASSUME objects \in ManifestSets, ListenerNamesDistinct,
         NEW route, NEW p \in AttachesThrough(objects, route),
         NEW other, NEW q \in AttachesThrough(objects, other),
         AttachmentAt(objects, p) = AttachmentAt(objects, q)
  PROVE  p = q
<1>1. p[1] = q[1]
  BY AttachedListener, IdentityAssumption DEF AttachmentAt
<1>2. objects[p[1]].listeners[p[2]].name = objects[p[1]].listeners[q[2]].name
  BY <1>1 DEF AttachmentAt, ListenerAt
<1>3. p[2] = q[2]
  BY AttachedListener, <1>1, <1>2 DEF ListenerNamesDistinct
<1> QED BY AttachedListener, <1>1, <1>3

LEMMA AllKept ==
  ASSUME objects \in ManifestSets, ListenerNamesDistinct, NEW route
  PROVE  AttachesThrough(objects, route) \subseteq KeptListeners(objects, route)
<1>1. ASSUME NEW p \in AttachesThrough(objects, route), NEW q \in AttachesThrough(objects, route),
             AttachmentAt(objects, q) = AttachmentAt(objects, p)
      PROVE  ~Before(p, q)
  <2>1. p = q
    BY <1>1, AttachmentNamesListener
  <2>2. p[1] \in Nat /\ p[2] \in Nat
    BY AttachedListener, SequencesAssumption
  <2>3. ~Before(p, p)
    BY <2>2 DEF Before
  <2> QED BY <2>1, <2>3
<1> QED BY <1>1 DEF KeptListeners

(* Every listener that admits and can carry a route is one the check sees it
   attached to. *)
LEMMA HTTPListenerAttached ==
  ASSUME NEW k \in DOMAIN objects, NEW p \in HTTPListeners(objects[k])
  PROVE  /\ p \in AttachesThrough(objects, objects[k])
         /\ p[1] \in DOMAIN objects /\ OwnsListeners(objects[p[1]])
         /\ p[2] \in DOMAIN objects[p[1]].listeners
<1> DEFINE route == objects[k]
<1>1. PICK i \in {n \in DOMAIN objects : OwnsListeners(objects[n])} :
        p \in {<<i, j>> : j \in {n \in DOMAIN objects[i].listeners :
            LET l == objects[i].listeners[n] IN
            /\ \E r \in DOMAIN route.parentRefs :
                 LET parent == ParentOf(route, r) IN
                 /\ parent.group = GroupName /\ OwnerOf(parent) = RefOf(objects[i])
                 /\ parent.section \in {Absent, l.name}
            /\ l.from \in {"All", "Selector"} \/ route.ns = objects[i].ns
            /\ AcceptsKind(l, "HTTPRoute")
            /\ RouteKindsFor(l.protocol) = {} \/ "HTTPRoute" \in RouteKindsFor(l.protocol)}}
  BY DEF HTTPListeners
<1>2. PICK j \in DOMAIN objects[i].listeners :
        /\ p = <<i, j>>
        /\ \E r \in DOMAIN route.parentRefs :
             LET parent == ParentOf(route, r) IN
             /\ parent.group = GroupName /\ OwnerOf(parent) = RefOf(objects[i])
             /\ parent.section \in {Absent, objects[i].listeners[j].name}
        /\ objects[i].listeners[j].from \in {"All", "Selector"} \/ route.ns = objects[i].ns
        /\ AcceptsKind(objects[i].listeners[j], "HTTPRoute")
  BY <1>1
<1> DEFINE l == objects[i].listeners[j]
<1>3. PICK r \in DOMAIN route.parentRefs :
        /\ ParentOf(route, r).group = GroupName
        /\ OwnerOf(ParentOf(route, r)) = RefOf(objects[i])
        /\ ParentOf(route, r).section \in {Absent, l.name}
  BY <1>2
<1> DEFINE parent == ParentOf(route, r)
<1>4. p[1] = i /\ p[2] = j /\ ListenerAt(objects, p) = l
  BY <1>2 DEF ListenerAt
<1>5. parent.ns = objects[i].ns
  BY <1>3 DEF OwnerOf, RefOf, ObjectRef
<1>6. AcceptsNamespace(l, parent.ns, route.ns)
  BY <1>2, <1>5, AbsentAssumption DEF AcceptsNamespace
<1>7. OwnsListeners(objects[i])
  BY <1>1
<1>8. p \in ListenersByOwner(objects, OwnerOf(parent))
  BY <1>2, <1>3, <1>7 DEF ListenersByOwner
<1> HIDE DEF l, parent
<1>9. p \in {t \in ListenersByOwner(objects, OwnerOf(parent)) :
               /\ parent.group = GroupName
               /\ parent.section \in {Absent, ListenerAt(objects, t).name}
               /\ AcceptsKind(ListenerAt(objects, t), "HTTPRoute")
               /\ AcceptsNamespace(ListenerAt(objects, t), parent.ns, route.ns)}
  BY <1>2, <1>3, <1>4, <1>6, <1>8 DEF l, parent
<1>10. p \in AttachesThrough(objects, route)
  BY <1>3, <1>9 DEF AttachesThrough, parent
<1> QED BY <1>4, <1>7, <1>10

(* The client hostname two routes both claim, by the same hostname of theirs, is
   one the check contests. *)
LEMMA SharedClaimContested ==
  ASSUME objects \in ManifestSets, NEW k \in DOMAIN objects, NEW n \in DOMAIN objects,
         IsRoute(objects[k]), IsRoute(objects[n]),
         NEW i \in DOMAIN objects, NEW j \in DOMAIN objects[i].listeners,
         OwnsListeners(objects[i]), NEW l, l = objects[i].listeners[j],
         NEW host \in Hosts, AnyHostname(l) \/ Covers(l.hostname, host),
         ClaimOf(objects[k], host) \cap ClaimOf(objects[n], host) # {}
  PROVE  \E h \in ContestedHostnames(objects[k].hostnames, objects[n].hostnames) :
           h = Absent \/ HostnamesIntersect(l, {h})
<1> DEFINE mine == objects[k].hostnames
           theirs == objects[n].hostnames
<1>1. Absent \notin Hostname /\ host \in Hostname
  BY HostnamesAssumption DEF Hostname
<1>2. mine \subseteq Hostname /\ theirs \subseteq Hostname
  BY HostnamesAssumption DEF Hostname
<1>3. l.hostname = Absent \/ l.hostname \in Hostname
  BY HostnamesAssumption DEF Hostname
<1>4. PICK g : g \in ClaimOf(objects[k], host) /\ g \in ClaimOf(objects[n], host)
  OBVIOUS
<1>5. IF mine = {} THEN g = Absent ELSE g \in mine /\ Covers(g, host)
  BY <1>4 DEF ClaimOf
<1>6. IF theirs = {} THEN g = Absent ELSE g \in theirs /\ Covers(g, host)
  BY <1>4 DEF ClaimOf
<1> HIDE DEF mine, theirs
<1>7. CASE g = Absent
  <2>1. mine = {} /\ theirs = {}
    BY <1>1, <1>2, <1>5, <1>6, <1>7
  <2>2. Absent \in ContestedHostnames(mine, theirs)
    BY <2>1 DEF ContestedHostnames
  <2> QED BY <2>2 DEF mine, theirs
<1>8. CASE g # Absent
  <2>1. g \in mine /\ g \in theirs /\ Covers(g, host) /\ g \in Hostname
    BY <1>2, <1>5, <1>6, <1>8
  <2>2. g \in ContestedHostnames(mine, theirs)
    BY <2>1 DEF ContestedHostnames
  <2>3. ~AnyHostname(l) => HostnamesOverlap(l.hostname, g)
    <3>1. ~AnyHostname(l) => CommonHost(l.hostname, g, Hostname)
      BY <1>1, <2>1 DEF CommonHost
    <3>2. ~AnyHostname(l) => l.hostname \in Hostname
      BY <1>3 DEF AnyHostname
    <3> QED BY <2>1, <3>1, <3>2, OverlapIsCommonHost
  <2>4. HostnamesIntersect(l, {g})
    BY <2>3 DEF HostnamesIntersect, AnyHostname
  <2> QED BY <2>2, <2>4 DEF mine, theirs
<1> QED BY <1>7, <1>8

LEMMA UndecidedConflicts ==
  ASSUME objects \in ManifestSets, ListenerNamesDistinct,
         NEW k \in Candidates, NEW n \in Candidates, Undecided(k, n)
  PROVE  Conflicts(objects, objects[k], objects[n])
<1>1. /\ k \in DOMAIN objects /\ IsRoute(objects[k])
      /\ n \in DOMAIN objects /\ IsRoute(objects[n])
  BY DEF Candidates, IsCandidate
<1>2. PICK p \in HTTPListeners(objects[k]) \cap HTTPListeners(objects[n]), host \in Hosts :
        /\ AnyHostname(ListenerAt(objects, p)) \/ Covers(ListenerAt(objects, p).hostname, host)
        /\ ClaimOf(objects[k], host) \cap ClaimOf(objects[n], host) # {}
  BY DEF Undecided
<1>3. /\ p \in AttachesThrough(objects, objects[k]) /\ p \in AttachesThrough(objects, objects[n])
      /\ p[1] \in DOMAIN objects /\ OwnsListeners(objects[p[1]])
      /\ p[2] \in DOMAIN objects[p[1]].listeners
  BY <1>1, <1>2, HTTPListenerAttached
<1>4. ListenerAt(objects, p) = objects[p[1]].listeners[p[2]]
  BY DEF ListenerAt
<1>5. \E h \in ContestedHostnames(objects[k].hostnames, objects[n].hostnames) :
        h = Absent \/ HostnamesIntersect(ListenerAt(objects, p), {h})
  BY <1>1, <1>2, <1>3, <1>4, SharedClaimContested
<1>6. p \in KeptListeners(objects, objects[k])
  BY <1>3, AllKept
<1>7. AttachmentAt(objects, p) \in AttachmentsOf(objects, objects[n])
  BY <1>3 DEF AttachmentsOf
<1>8. HTTPMatchesOf(objects[k]) \cap HTTPMatchesOf(objects[n]) # {}
  BY DEF Undecided
<1> QED BY <1>5, <1>6, <1>7, <1>8 DEF Conflicts

LEMMA UndecidedReported ==
  ASSUME IInv, phase = "done", "conflicting-route-match" \in Enabled, ListenerNamesDistinct,
         NEW k \in Candidates, NEW n \in Candidates, Undecided(k, n),
         SortsBefore(RefOf(objects[n]), RefOf(objects[k]))
  PROVE  Reported("conflicting-route-match", k, n)
<1>1. /\ k \in DOMAIN objects /\ IsCandidate(objects[k]) /\ IsRoute(objects[k])
      /\ n \in DOMAIN objects /\ IsCandidate(objects[n])
      /\ objects \in ManifestSets
  BY DEF Candidates, IsCandidate, IInv, LoopInv
<1>2. Conflicts(objects, objects[k], objects[n])
  BY <1>1, UndecidedConflicts
<1>3. ~SeparatedByAge(objects[k], objects[n])
  BY DEF Undecided
<1>4. n \in ConflictingMatches(objects, k)
  BY <1>1, <1>2, <1>3 DEF ConflictingMatches
<1>5. n \in Returns("conflicting-route-match", k)
  BY <1>1, <1>4 DEF Returns
<1> QED BY <1>1, <1>5, FinishedRun DEF Reported, Names

LEMMA UndecidedSymmetric ==
  ASSUME NEW k, NEW n, Undecided(k, n)
  PROVE  Undecided(n, k)
<1>1. ~SeparatedByAge(objects[n], objects[k])
  BY DEF Undecided, SeparatedByAge
<1>2. HTTPMatchesOf(objects[n]) \cap HTTPMatchesOf(objects[k]) # {}
  BY DEF Undecided
<1>3. \E p \in HTTPListeners(objects[n]) \cap HTTPListeners(objects[k]), host \in Hosts :
        /\ AnyHostname(ListenerAt(objects, p)) \/ Covers(ListenerAt(objects, p).hostname, host)
        /\ ClaimOf(objects[n], host) \cap ClaimOf(objects[k], host) # {}
  BY DEF Undecided
<1> QED BY <1>1, <1>2, <1>3 DEF Undecided

(* Of two routes that nothing decides between, exactly one is reported, by the
   one that sorts later; and no pair is reported twice. *)
THEOREM UndecidedPairsReportedOnce == Spec => []UndecidedPairReportedOnce
<1>1. IInv => UndecidedPairReportedOnce
  <2> SUFFICES ASSUME IInv, phase = "done", "conflicting-route-match" \in Enabled,
                      ListenerNamesDistinct, NEW k \in Candidates, NEW n \in Candidates, k # n
               PROVE  /\ Cardinality(ReportsOf(k, n)) <= 1
                      /\ Undecided(k, n) => ReportsOf(k, n) # {}
    BY DEF UndecidedPairReportedOnce
  <2> DEFINE check == "conflicting-route-match"
             later == SortsBefore(RefOf(objects[n]), RefOf(objects[k]))
             earlier == SortsBefore(RefOf(objects[k]), RefOf(objects[n]))
  <2>1. /\ k \in DOMAIN objects /\ n \in DOMAIN objects
        /\ objects[k].type = objects[n].type /\ objects \in ManifestSets
    BY DEF Candidates, IsCandidate, IInv, LoopInv
  <2>2. later <=> ~earlier
    BY <2>1, OneSortsBefore
  <2>3. <<check, k, n>> \in findings => later
    <3>1. SUFFICES ASSUME <<check, k, n>> \in findings PROVE later
      OBVIOUS
    <3>2. n \in Returns(check, k)
      BY <3>1, FindingIsDue
    <3> QED BY <3>2 DEF Returns, ConflictingMatches
  <2>4. <<check, n, k>> \in findings => earlier
    <3>1. SUFFICES ASSUME <<check, n, k>> \in findings PROVE earlier
      OBVIOUS
    <3>2. k \in Returns(check, n)
      BY <3>1, FindingIsDue
    <3> QED BY <3>2 DEF Returns, ConflictingMatches
  <2>5. ReportsOf(k, n) = {} \/ \E c : ReportsOf(k, n) = {c}
    BY <2>2, <2>3, <2>4 DEF ReportsOf
  <2>6. Undecided(k, n) => <<check, k, n>> \in findings \/ <<check, n, k>> \in findings
    BY <2>2, UndecidedReported, UndecidedSymmetric DEF Reported
  <2> QED BY <2>5, <2>6, AtMostOne DEF ReportsOf
<1> QED BY <1>1, Invariance, PTL

-----------------------------------------------------------------------------
(* A pair that is reported is undecided. *)

(* The listeners a route attaches through are those that admit and can carry it,
   if listeners carry what they accept. *)
LEMMA AttachedIsHTTPListener ==
  ASSUME objects \in ManifestSets, KindsCarried,
         NEW k \in DOMAIN objects, NEW p \in AttachesThrough(objects, objects[k])
  PROVE  p \in HTTPListeners(objects[k])
<1> DEFINE route == objects[k]
           i == p[1]
           j == p[2]
           l == objects[i].listeners[j]
<1>1. p = <<i, j>> /\ i \in DOMAIN objects /\ OwnsListeners(objects[i])
      /\ j \in DOMAIN objects[i].listeners
  BY AttachedListener
<1>2. ListenerAt(objects, p) = l
  BY DEF ListenerAt
<1>3. PICK r \in DOMAIN route.parentRefs :
        LET parent == ParentOf(route, r) IN
        /\ p \in ListenersByOwner(objects, OwnerOf(parent))
        /\ parent.group = GroupName
        /\ parent.section \in {Absent, l.name}
        /\ AcceptsKind(l, "HTTPRoute")
        /\ AcceptsNamespace(l, parent.ns, route.ns)
  BY <1>2 DEF AttachesThrough
<1> DEFINE parent == ParentOf(route, r)
<1>4. RefOf(objects[i]) = OwnerOf(parent)
  BY <1>1, <1>3 DEF ListenersByOwner
<1>5. parent.ns = objects[i].ns
  BY <1>4 DEF OwnerOf, RefOf, ObjectRef
<1>6. l.from \in {"All", "Selector"} \/ route.ns = objects[i].ns
  BY <1>1, <1>3, <1>5, FromAssumption DEF AcceptsNamespace
<1>7. RouteKindsFor(l.protocol) = {} \/ "HTTPRoute" \in RouteKindsFor(l.protocol)
  BY <1>1, <1>3 DEF KindsCarried
<1> HIDE DEF l, parent
<1>8. /\ \E m \in DOMAIN route.parentRefs :
           LET by == ParentOf(route, m) IN
           /\ by.group = GroupName /\ OwnerOf(by) = RefOf(objects[i])
           /\ by.section \in {Absent, l.name}
      /\ l.from \in {"All", "Selector"} \/ route.ns = objects[i].ns
      /\ AcceptsKind(l, "HTTPRoute")
      /\ RouteKindsFor(l.protocol) = {} \/ "HTTPRoute" \in RouteKindsFor(l.protocol)
  BY <1>3, <1>4, <1>6, <1>7 DEF parent
<1> HIDE DEF i, j
<1> QED BY <1>1, <1>8 DEF HTTPListeners, l

(* Every pattern covers some hostname a client can ask for. *)
LEMMA CoversSomeHost ==
  ASSUME NEW g \in Hostname
  PROVE  \E host \in Hostname : Covers(g, host)
<1>1. CASE ~IsWildcard(g)
  BY <1>1 DEF Covers
<1>2. CASE IsWildcard(g)
  <2>1. Tail(g) \in Seq(STRING)
    BY <1>2 DEF IsWildcard, Hostname
  <2>2. HasDNSSuffix(Tail(g), Tail(g))
    <3> DEFINE s == Tail(g)
    <3>1. s \in Seq(STRING)
      BY <2>1
    <3> HIDE DEF s
    <3>2. Len(s) \in Nat /\ Len(s) - Len(s) = 0 /\ \A i \in 1..Len(s) : 0 + i = i
      BY <3>1
    <3>3. HasDNSSuffix(s, s)
      BY <3>1, <3>2, SuffixByPosition
    <3> QED BY <3>3 DEF s
  <2>3. HostnamesOverlap(g, g)
    BY <1>2, <2>2 DEF HostnamesOverlap
  <2>4. CommonHost(g, g, Hostname)
    BY <2>3, OverlapIsCommonHost
  <2> QED BY <2>4 DEF CommonHost
<1> QED BY <1>1, <1>2

(* The list of checks is one more sequence of strings that is not empty. *)
LEMMA SomeHost == \E host : host \in Hostname
  BY ChecksAssumption DEF Hostname

(* A hostname that both routes have and no other of theirs narrows is the claim of
   both to every host under it. *)
LEMMA SharedIsClaimed ==
  ASSUME NEW k, NEW n, objects[k].hostnames \subseteq Hostname,
         objects[n].hostnames \subseteq Hostname, ~Narrowed(k, n),
         NEW h, h \in objects[k].hostnames, h \in objects[n].hostnames,
         NEW host \in Hostname, Covers(h, host)
  PROVE  h \in ClaimOf(objects[k], host) /\ h \in ClaimOf(objects[n], host)
<1>1. ASSUME NEW g \in objects[k].hostnames \cup objects[n].hostnames, Covers(g, host)
      PROVE  AtLeastAsSpecific(h, g)
  <2>1. g \in Hostname /\ h \in Hostname /\ Len(g) \in Nat /\ Len(h) \in Nat
    BY DEF Hostname
  <2>2. CASE g = h
    BY <2>1, <2>2 DEF AtLeastAsSpecific
  <2>3. CASE g # h
    <3>1. CommonHost(g, h, Hostname)
      BY <1>1 DEF CommonHost
    <3>2. HostnamesOverlap(g, h)
      BY <2>1, <3>1, OverlapIsCommonHost
    <3>3. ~AtLeastAsSpecific(g, h)
      BY <2>3, <3>2 DEF Narrowed
    <3> QED BY <2>1, <3>3 DEF AtLeastAsSpecific
  <2> QED BY <2>2, <2>3
<1> QED BY <1>1 DEF ClaimOf

LEMMA ContestedIsClaimed ==
  ASSUME objects \in ManifestSets, NEW k \in DOMAIN objects, NEW n \in DOMAIN objects,
         IsRoute(objects[k]), IsRoute(objects[n]), ~Narrowed(k, n),
         NEW l, l.hostname = Absent \/ l.hostname \in Hostname,
         NEW h \in ContestedHostnames(objects[k].hostnames, objects[n].hostnames),
         h = Absent \/ HostnamesIntersect(l, {h})
  PROVE  \E host \in Hostname :
           /\ AnyHostname(l) \/ Covers(l.hostname, host)
           /\ ClaimOf(objects[k], host) \cap ClaimOf(objects[n], host) # {}
<1> DEFINE mine == objects[k].hostnames
           theirs == objects[n].hostnames
<1>1. Absent \notin Hostname /\ mine \subseteq Hostname /\ theirs \subseteq Hostname
  BY HostnamesAssumption DEF Hostname
<1>2. CASE mine = {} /\ theirs = {}
  <2>1. \A host : ClaimOf(objects[k], host) = {Absent} /\ ClaimOf(objects[n], host) = {Absent}
    BY <1>2 DEF ClaimOf
  <2>2. \E host \in Hostname : AnyHostname(l) \/ Covers(l.hostname, host)
    <3>1. CASE AnyHostname(l)
      BY <3>1, SomeHost
    <3>2. CASE ~AnyHostname(l)
      <4>1. l.hostname \in Hostname
        BY <3>2 DEF AnyHostname
      <4> QED BY <4>1, CoversSomeHost
    <3> QED BY <3>1, <3>2
  <2> QED BY <2>1, <2>2
<1>3. CASE ~(mine = {} /\ theirs = {})
  <2>1. h \in mine /\ h \in theirs
    BY <1>3 DEF ContestedHostnames
  <2>2. h \in Hostname /\ h # Absent
    BY <1>1, <2>1
  <2>3. ASSUME NEW host \in Hostname, Covers(h, host)
        PROVE  h \in ClaimOf(objects[k], host) /\ h \in ClaimOf(objects[n], host)
    BY <1>1, <2>1, <2>3, SharedIsClaimed
  <2>4. \E host \in Hostname : (AnyHostname(l) \/ Covers(l.hostname, host)) /\ Covers(h, host)
    <3>1. CASE AnyHostname(l)
      BY <2>2, <3>1, CoversSomeHost
    <3>2. CASE ~AnyHostname(l)
      <4>1. l.hostname \in Hostname /\ HostnamesOverlap(l.hostname, h)
        BY <2>2, <3>2 DEF HostnamesIntersect, AnyHostname
      <4> QED BY <2>2, <4>1, OverlapIsCommonHost DEF CommonHost
    <3> QED BY <3>1, <3>2
  <2> QED BY <2>3, <2>4
<1> QED BY <1>2, <1>3

(* Once a client may ask for any hostname, a pair that is reported is one that
   nothing decides, unless a hostname of either route narrows one they share: the
   disagreement that DecidedPairQuiet runs into goes no further. *)
THEOREM ReportedPairsUndecided ==
  ASSUME Hosts = Hostname PROVE Spec => []ReportedPairUndecided
<1>1. IInv => ReportedPairUndecided
  <2> SUFFICES ASSUME IInv, ListenerNamesDistinct, KindsCarried,
                      NEW k \in Candidates, NEW n \in Candidates,
                      Reported("conflicting-route-match", k, n), ~Narrowed(k, n)
               PROVE  Undecided(k, n)
    BY DEF ReportedPairUndecided
  <2>1. /\ k \in DOMAIN objects /\ IsRoute(objects[k])
        /\ n \in DOMAIN objects /\ IsRoute(objects[n])
    BY DEF Candidates, IsCandidate
  <2>2. objects \in ManifestSets
    <3>1. objects # <<>>
      BY <2>1
    <3> QED BY <3>1 DEF IInv, LoopInv, TypeOK
  <2>3. n \in ConflictingMatches(objects, k)
    <3>1. n \in Returns("conflicting-route-match", k)
      BY FindingIsDue DEF Reported
    <3> QED BY <2>1, <3>1 DEF Returns
  <2>4. ~SeparatedByAge(objects[k], objects[n]) /\ Conflicts(objects, objects[k], objects[n])
    BY <2>3 DEF ConflictingMatches
  <2>5. HTTPMatchesOf(objects[k]) \cap HTTPMatchesOf(objects[n]) # {}
    BY <2>4 DEF Conflicts
  <2>6. PICK p \in KeptListeners(objects, objects[k]),
             h \in ContestedHostnames(objects[k].hostnames, objects[n].hostnames) :
          /\ AttachmentAt(objects, p) \in AttachmentsOf(objects, objects[n])
          /\ h = Absent \/ HostnamesIntersect(ListenerAt(objects, p), {h})
    BY <2>4 DEF Conflicts
  <2>7. p \in AttachesThrough(objects, objects[k])
    BY DEF KeptListeners
  <2>8. p \in AttachesThrough(objects, objects[n])
    <3>1. PICK q \in AttachesThrough(objects, objects[n]) :
            AttachmentAt(objects, p) = AttachmentAt(objects, q)
      BY <2>6 DEF AttachmentsOf
    <3> QED BY <2>2, <2>7, <3>1, AttachmentNamesListener
  <2>9. p \in HTTPListeners(objects[k]) \cap HTTPListeners(objects[n])
    BY <2>1, <2>2, <2>7, <2>8, AttachedIsHTTPListener
  <2> DEFINE l == ListenerAt(objects, p)
  <2>10. l.hostname = Absent \/ l.hostname \in Hostname
    BY <2>2, <2>7, AttachedListener, HostnamesAssumption DEF ListenerAt, Hostname
  <2> HIDE DEF l
  <2>11. PICK host \in Hostname :
           /\ AnyHostname(l) \/ Covers(l.hostname, host)
           /\ ClaimOf(objects[k], host) \cap ClaimOf(objects[n], host) # {}
    BY <2>1, <2>2, <2>6, <2>10, ContestedIsClaimed DEF l
  <2> QED BY <2>4, <2>5, <2>9, <2>11 DEF Undecided, l
<1> QED BY <1>1, Invariance, PTL

-----------------------------------------------------------------------------
(* Matches that select the same requests have one key. *)

(* The matches of an HTTPRoute that are written with no other words, methods, header
   pairs and parameter pairs than these. *)
WrittenOver(m, words, methods, headers, params) ==
  /\ m.path = Absent \/ m.path.value \in Seq(words) \cup {Absent}
  /\ m.method \in methods \cup {Absent}
  /\ \E n \in Nat : DOMAIN m.headers = 1..n
  /\ \E n \in Nat : DOMAIN m.params = 1..n
  /\ \A i \in DOMAIN m.headers :
       /\ m.headers[i].value \in Seq(words)
       /\ <<m.headers[i].name.folded, m.headers[i].value>> \in headers
  /\ \A i \in DOMAIN m.params :
       /\ m.params[i].value \in Seq(words)
       /\ <<m.params[i].name, m.params[i].value>> \in params

(* The paths of requests. *)
PathsOver(words) == {path \in Seq(words) : path # <<>> /\ path[1] = "/"}

RequestsOver(words, methods, headers, params) ==
  [path : PathsOver(words), method : methods, headers : SUBSET headers, params : SUBSET params]

HeaderPairs(m) == {<<m.headers[i].name.folded, m.headers[i].value>> : i \in DOMAIN m.headers}

ParamPairs(m) == {<<m.params[i].name, m.params[i].value>> : i \in DOMAIN m.params}

PathTypes == {"PathPrefix", "Exact"}

Tidy(type, value) == type = "PathPrefix" /\ value # Root => value[Len(value)] # "/"

(* A path takes itself, a prefix also itself with a slash appended, and an exact path
   takes nothing else. *)
LEMMA PathTakesItself ==
  ASSUME NEW Words, "/" \in Words, NEW v \in PathsOver(Words), NEW S \in PathTypes, Tidy(S, v)
  PROVE  /\ PathTaken(S, v, v)
         /\ Append(v, "/") \in PathsOver(Words) /\ Append(v, "/") # v
         /\ S = "PathPrefix" => PathTaken(S, v, Append(v, "/"))
<1>1. v \in Seq(Words) /\ Len(v) \in Nat /\ Len(v) >= 1 /\ v[1] = "/"
  BY DEF PathsOver
<1> DEFINE longer == Append(v, "/")
<1>2. longer \in Seq(Words) /\ Len(longer) = Len(v) + 1 /\ longer[Len(v) + 1] = "/"
      /\ \A i \in 1..Len(v) : longer[i] = v[i]
  BY <1>1
<1> HIDE DEF longer
<1>3. longer \in PathsOver(Words) /\ longer # v
  BY <1>1, <1>2 DEF PathsOver
<1>4. CASE S = "Exact"
  BY <1>3, <1>4 DEF PathTaken, longer
<1>5. CASE S = "PathPrefix" /\ v = Root
  <2>1. Len(v) = 1 /\ v[Len(v)] = "/"
    BY <1>1, <1>5 DEF Root
  <2>2. SubSeq(v, 1, 0) = <<>> /\ SubSeq(longer, 1, 0) = <<>>
    BY <1>1, <1>2
  <2>3. PathTaken(S, v, v)
    BY <1>1, <1>5, <2>1, <2>2 DEF PathTaken
  <2>4. longer[1] = "/"
    BY <1>2, <2>1, <1>1
  <2>5. PathTaken(S, v, longer)
    BY <1>2, <1>5, <2>1, <2>2, <2>4 DEF PathTaken
  <2> QED BY <1>3, <2>3, <2>5 DEF longer
<1>6. CASE S = "PathPrefix" /\ v # Root
  <2>1. v[Len(v)] # "/"
    BY <1>6 DEF Tidy
  <2>2. SubSeq(v, 1, Len(v)) = v
    BY <1>1, SubSeqFull
  <2>3. SubSeq(longer, 1, Len(v)) = v
    <3> DEFINE t == SubSeq(longer, 1, Len(v))
    <3>1. t \in Seq(Words) /\ Len(t) = Len(v) /\ \A i \in 1..Len(v) : t[i] = v[i]
      BY <1>1, <1>2
    <3> HIDE DEF t
    <3>2. t = v
      BY <1>1, <3>1
    <3> QED BY <3>2 DEF t
  <2>4. PathTaken(S, v, v)
    BY <1>1, <1>6, <2>1 DEF PathTaken
  <2>5. PathTaken(S, v, longer)
    <3> DEFINE n == IF v[Len(v)] = "/" THEN Len(v) - 1 ELSE Len(v)
    <3>1. n = Len(v)
      BY <2>1
    <3> HIDE DEF n
    <3>2. n <= Len(longer)
      BY <1>1, <1>2, <3>1
    <3>3. SubSeq(longer, 1, n) = SubSeq(v, 1, n) /\ longer[n + 1] = "/"
      BY <1>2, <2>2, <2>3, <3>1
    <3> QED BY <1>6, <3>2, <3>3 DEF PathTaken, n
  <2> QED BY <1>3, <2>4, <2>5 DEF longer
<1> QED BY <1>4, <1>5, <1>6 DEF PathTypes

(* A prefix other than the root takes only paths that begin with it. *)
LEMMA PrefixTaken ==
  ASSUME NEW v, v # Root, Tidy("PathPrefix", v), NEW path, PathTaken("PathPrefix", v, path)
  PROVE  Len(v) <= Len(path) /\ SubSeq(path, 1, Len(v)) = SubSeq(v, 1, Len(v))
  BY DEF Tidy, PathTaken

(* Paths that take the same requests are the same. *)
LEMMA PathsTakenDiffer ==
  ASSUME NEW Words, "/" \in Words,
         NEW v \in PathsOver(Words), NEW w \in PathsOver(Words),
         NEW S \in PathTypes, NEW T \in PathTypes, Tidy(S, v), Tidy(T, w),
         \A path \in PathsOver(Words) : PathTaken(S, v, path) <=> PathTaken(T, w, path)
  PROVE  S = T /\ v = w
<1>1. /\ v \in Seq(Words) /\ Len(v) \in Nat /\ Len(v) >= 1 /\ v[1] = "/"
      /\ w \in Seq(Words) /\ Len(w) \in Nat /\ Len(w) >= 1 /\ w[1] = "/"
  BY DEF PathsOver
<1>2. PathTaken(T, w, v) /\ PathTaken(S, v, w)
  BY PathTakesItself
<1>3. S = "PathPrefix" => PathTaken(T, w, Append(v, "/"))
  BY PathTakesItself
<1>4. T = "PathPrefix" => PathTaken(S, v, Append(w, "/"))
  BY PathTakesItself
<1>5. Append(v, "/") # v /\ Append(w, "/") # w
  BY PathTakesItself
<1>6. CASE S = "Exact"
  <2>1. v = w
    BY <1>2, <1>6 DEF PathTaken
  <2>2. T # "PathPrefix"
    BY <1>4, <1>5, <1>6, <2>1 DEF PathTaken
  <2> QED BY <1>6, <2>1, <2>2 DEF PathTypes
<1>7. CASE T = "Exact"
  <2>1. v = w
    BY <1>2, <1>7 DEF PathTaken
  <2>2. S # "PathPrefix"
    BY <1>3, <1>5, <1>7, <2>1 DEF PathTaken
  <2> QED BY <1>7, <2>1, <2>2 DEF PathTypes
<1>8. CASE S = "PathPrefix" /\ T = "PathPrefix"
  <2>1. SubSeq(v, 1, Len(v)) = v /\ SubSeq(w, 1, Len(w)) = w
    BY <1>1, SubSeqFull
  <2>2. v # Root => Len(v) <= Len(w) /\ SubSeq(w, 1, Len(v)) = v
    BY <1>2, <1>8, <2>1, PrefixTaken
  <2>3. w # Root => Len(w) <= Len(v) /\ SubSeq(v, 1, Len(w)) = w
    BY <1>2, <1>8, <2>1, PrefixTaken
  <2>4. Len(Root) = 1 /\ Root = <<"/">>
    BY DEF Root
  <2>5. CASE v # Root /\ w # Root
    <3>1. Len(v) = Len(w)
      <4>1. Len(v) \in Nat /\ Len(w) \in Nat
        BY <1>1
      <4>2. Len(v) <= Len(w) /\ Len(w) <= Len(v)
        BY <2>2, <2>3, <2>5
      <4> QED BY <4>1, <4>2
    <3>2. v = w
      BY <2>1, <2>2, <2>5, <3>1
    <3> QED BY <1>8, <3>2
  <2>6. CASE v = Root /\ w # Root
    <3>1. Len(w) = 1
      BY <1>1, <2>3, <2>4, <2>6
    <3> QED BY <1>1, <2>4, <2>6, <3>1
  <2>7. CASE w = Root /\ v # Root
    <3>1. Len(v) = 1
      BY <1>1, <2>2, <2>4, <2>7
    <3> QED BY <1>1, <2>4, <2>7, <3>1
  <2> QED BY <1>8, <2>5, <2>6, <2>7
<1> QED BY <1>6, <1>7, <1>8 DEF PathTypes

(* A match asks for its path, its method, its headers and its parameters. *)
LEMMA SelectsByParts ==
  ASSUME NEW Words, "/" \in Words, NEW methods, NEW headers, NEW params,
         NEW m, ReadBySelects(m), PathTidy(m), WrittenOver(m, Words, methods, headers, params)
  PROVE  /\ PathType(m) \in PathTypes /\ PathValue(m) \in PathsOver(Words)
         /\ Tidy(PathType(m), PathValue(m))
         /\ HeaderPairs(m) \subseteq headers /\ ParamPairs(m) \subseteq params
         /\ \A request : request.path \in PathsOver(Words) =>
              (Selects(m, request) <=>
                 /\ PathTaken(PathType(m), PathValue(m), request.path)
                 /\ m.method \in {Absent, request.method}
                 /\ HeaderPairs(m) \subseteq request.headers
                 /\ ParamPairs(m) \subseteq request.params)
<1>1. Root \in PathsOver(Words)
  BY DEF Root, PathsOver
<1>2. PathType(m) \in PathTypes /\ PathValue(m) \in PathsOver(Words)
  BY <1>1 DEF PathType, PathValue, PathTypes, ReadBySelects, WrittenOver, Default, PathsOver
<1>3. Tidy(PathType(m), PathValue(m))
  BY DEF Tidy, PathTidy
<1>4. HeaderPairs(m) \subseteq headers /\ ParamPairs(m) \subseteq params
  BY DEF WrittenOver, HeaderPairs, ParamPairs
<1>5. ASSUME NEW request, request.path \in PathsOver(Words)
      PROVE  Selects(m, request) <=>
               /\ PathTaken(PathType(m), PathValue(m), request.path)
               /\ m.method \in {Absent, request.method}
               /\ HeaderPairs(m) \subseteq request.headers
               /\ ParamPairs(m) \subseteq request.params
  <2>1. m.path = Absent =>
          /\ PathType(m) = "PathPrefix" /\ PathValue(m) = Root
          /\ PathTaken("PathPrefix", Root, request.path)
    <3>1. PathTaken("PathPrefix", Root, request.path)
      <4>1. Len(Root) = 1 /\ Root[1] = "/"
        BY DEF Root
      <4>2. SubSeq(request.path, 1, 0) = SubSeq(Root, 1, 0) /\ Len(request.path) \in Nat
            /\ request.path[1] = "/"
        BY <1>1, <1>5 DEF PathsOver
      <4> QED BY <4>1, <4>2 DEF PathTaken
    <3> QED BY <3>1 DEF PathType, PathValue
  <2>2. m.path # Absent =>
          /\ PathType(m) = Default(m.path.type, "PathPrefix")
          /\ PathValue(m) = Default(m.path.value, Root)
    BY DEF PathType, PathValue
  <2> QED BY <2>1, <2>2 DEF Selects, HeaderPairs, ParamPairs
<1> QED BY <1>2, <1>3, <1>4, <1>5

(* Entries that are all different are sorted by what they are, in whatever order
   they were written. *)
LEMMA SortedByContent ==
  ASSUME NEW e, NEW k \in Nat, DOMAIN e = 1..k,
         NEW f, NEW l \in Nat, DOMAIN f = 1..l,
         \A i, j \in DOMAIN e : e[i] = e[j] => i = j,
         \A i, j \in DOMAIN f : f[i] = f[j] => i = j,
         {e[i] : i \in DOMAIN e} = {f[i] : i \in DOMAIN f}
  PROVE  Sorted(e) = Sorted(f) /\ DOMAIN e = DOMAIN f
<1> DEFINE set(g) == {g[i] : i \in DOMAIN g}
           pick(D, R, O) == CHOOSE s \in [D -> R] :
                              /\ Occurrences(s) = O
                              /\ \A i, j \in DOMAIN s : i < j => ~TextBefore(s[j], s[i])
<1>1. ASSUME NEW g, NEW n \in Nat, DOMAIN g = 1..n, \A i, j \in DOMAIN g : g[i] = g[j] => i = j
      PROVE  Occurrences(g) = [x \in set(g) |-> 1] /\ Cardinality(set(g)) = n
  <2>1. ASSUME NEW i \in DOMAIN g PROVE Cardinality({j \in DOMAIN g : g[j] = g[i]}) = 1
    <3>1. {j \in DOMAIN g : g[j] = g[i]} = {i}
      BY <1>1
    <3> QED BY <3>1, FS_Singleton
  <2>2. Occurrences(g) = [x \in set(g) |-> 1]
    BY <2>1 DEF Occurrences
  <2>3. IsFiniteSet(1..n) /\ Cardinality(1..n) = n
    BY FS_Interval
  <2> DEFINE h == [i \in 1..n |-> g[i]]
  <2>4. h \in Bijection(1..n, set(g))
    <3>1. h \in [1..n -> set(g)]
      BY <1>1
    <3>2. \A i, j \in 1..n : h[i] = h[j] => i = j
      BY <1>1
    <3>3. \A x \in set(g) : \E i \in 1..n : h[i] = x
      BY <1>1
    <3> QED BY <3>1, <3>2, <3>3 DEF Bijection, Injection, Surjection, IsInjective
  <2>5. ExistsBijection(1..n, set(g))
    BY <2>4 DEF ExistsBijection
  <2>6. Cardinality(set(g)) = n
    <3> DEFINE D == 1..n
               T == set(g)
    <3>1. IsFiniteSet(D) /\ ExistsBijection(D, T) /\ Cardinality(D) = n
      BY <2>3, <2>5
    <3> HIDE DEF D, T
    <3>2. Cardinality(T) = Cardinality(D)
      BY <3>1, FS_Bijection
    <3> QED BY <3>1, <3>2 DEF D, T
  <2> QED BY <2>2, <2>6
<1>2. set(e) = set(f)
  OBVIOUS
<1>3. Sorted(e) = pick(DOMAIN e, set(e), Occurrences(e)) /\ Sorted(f) = pick(DOMAIN f, set(f), Occurrences(f))
  BY DEF Sorted
<1> HIDE DEF set, pick
<1>4. Occurrences(e) = [x \in set(e) |-> 1] /\ Cardinality(set(e)) = k
  BY <1>1
<1>5. Occurrences(f) = [x \in set(f) |-> 1] /\ Cardinality(set(f)) = l
  BY <1>1
<1>6. k = l /\ Occurrences(e) = Occurrences(f)
  BY <1>2, <1>4, <1>5
<1> QED BY <1>2, <1>3, <1>6

(* A name is read off its entry. *)
LEMMA EntryNamed ==
  ASSUME NEW Words, NEW value \in Seq(Words), NEW type, NEW name,
         NEW value2 \in Seq(Words), NEW type2, NEW name2,
         <<type, ":", name, ":">> \o value = <<type2, ":", name2, ":">> \o value2
  PROVE  name = name2
<1> DEFINE U == Words \cup {type, ":", name, type2, name2}
           head == <<type, ":", name, ":">>
           head2 == <<type2, ":", name2, ":">>
<1>1. head \in Seq(U) /\ Len(head) = 4 /\ head[3] = name
  OBVIOUS
<1>2. head2 \in Seq(U) /\ Len(head2) = 4 /\ head2[3] = name2
  OBVIOUS
<1>3. value \in Seq(U) /\ value2 \in Seq(U)
  OBVIOUS
<1>4. head \o value = head2 \o value2
  OBVIOUS
<1> HIDE DEF head, head2, U
<1>5. ASSUME NEW front \in Seq(U), Len(front) = 4, NEW back \in Seq(U)
      PROVE  (front \o back)[3] = front[3]
  <2>1. Len(back) \in Nat
    OBVIOUS
  <2>2. 3 \in 1..(Len(front) + Len(back)) /\ 3 <= Len(front)
    BY <1>5, <2>1
  <2> QED BY <2>2, ConcatProperties
<1> QED BY <1>1, <1>2, <1>3, <1>4, <1>5

LEMMA HeadersByPairs ==
  ASSUME NEW Words, NEW methods, NEW headers, NEW params,
         NEW m, ReadBySelects(m), WrittenOver(m, Words, methods, headers, params),
         NEW n, ReadBySelects(n), WrittenOver(n, Words, methods, headers, params),
         HeaderPairs(m) = HeaderPairs(n)
  PROVE  EntriesPart("headers=", HeaderEntries(m)) = EntriesPart("headers=", HeaderEntries(n))
<1> DEFINE text(q) == <<"Exact", ":", q[1], ":">> \o q[2]
<1>1. ASSUME NEW o, ReadBySelects(o), WrittenOver(o, Words, methods, headers, params)
      PROVE  LET e == HeaderEntries(o) IN
             /\ \E k \in Nat : DOMAIN e = 1..k
             /\ \A i, j \in DOMAIN e : e[i] = e[j] => i = j
             /\ {e[i] : i \in DOMAIN e} = {text(q) : q \in HeaderPairs(o)}
  <2> DEFINE e == HeaderEntries(o)
  <2>1. DOMAIN e = DOMAIN o.headers
        /\ \A i \in DOMAIN e : e[i] = <<"Exact", ":", o.headers[i].name.folded, ":">> \o o.headers[i].value
    BY <1>1 DEF HeaderEntries, HeaderEntry, ReadBySelects, Default
  <2> HIDE DEF e
  <2>2. \E k \in Nat : DOMAIN e = 1..k
    BY <1>1, <2>1 DEF WrittenOver
  <2>3. ASSUME NEW i \in DOMAIN e, NEW j \in DOMAIN e, e[i] = e[j] PROVE i = j
    <3>1. o.headers[i].value \in Seq(Words) /\ o.headers[j].value \in Seq(Words)
      BY <1>1, <2>1 DEF WrittenOver
    <3>2. <<"Exact", ":", o.headers[i].name.folded, ":">> \o o.headers[i].value
            = <<"Exact", ":", o.headers[j].name.folded, ":">> \o o.headers[j].value
      BY <2>1, <2>3
    <3>3. o.headers[i].name.folded = o.headers[j].name.folded
      BY <3>1, <3>2, EntryNamed
    <3> QED BY <1>1, <2>1, <3>3 DEF ReadBySelects
  <2>4. {e[i] : i \in DOMAIN e} = {text(q) : q \in HeaderPairs(o)}
    <3>1. \A i \in DOMAIN e : e[i] = text(<<o.headers[i].name.folded, o.headers[i].value>>)
      BY <2>1
    <3> HIDE DEF text
    <3>2. HeaderPairs(o) = {<<o.headers[i].name.folded, o.headers[i].value>> : i \in DOMAIN e}
      BY <2>1 DEF HeaderPairs
    <3> DEFINE pairs == HeaderPairs(o)
    <3> HIDE DEF pairs
    <3>3. \A i \in DOMAIN e : \E q \in pairs : e[i] = text(q)
      BY <3>1, <3>2 DEF pairs
    <3>4. \A q \in pairs : \E i \in DOMAIN e : text(q) = e[i]
      BY <3>1, <3>2 DEF pairs
    <3>5. {e[i] : i \in DOMAIN e} = {text(q) : q \in pairs}
      BY <3>3, <3>4
    <3> QED BY <3>5 DEF pairs
  <2> QED BY <2>2, <2>3, <2>4 DEF e
<1> HIDE DEF text
<1>2. Sorted(HeaderEntries(m)) = Sorted(HeaderEntries(n))
      /\ DOMAIN HeaderEntries(m) = DOMAIN HeaderEntries(n)
  <2>1. PICK k \in Nat : DOMAIN HeaderEntries(m) = 1..k
    BY <1>1
  <2>2. PICK l \in Nat : DOMAIN HeaderEntries(n) = 1..l
    BY <1>1
  <2>3. \A i, j \in DOMAIN HeaderEntries(m) : HeaderEntries(m)[i] = HeaderEntries(m)[j] => i = j
    BY <1>1
  <2>4. \A i, j \in DOMAIN HeaderEntries(n) : HeaderEntries(n)[i] = HeaderEntries(n)[j] => i = j
    BY <1>1
  <2>5. {HeaderEntries(m)[i] : i \in DOMAIN HeaderEntries(m)}
          = {HeaderEntries(n)[i] : i \in DOMAIN HeaderEntries(n)}
    BY <1>1
  <2> QED BY <2>1, <2>2, <2>3, <2>4, <2>5, SortedByContent
<1> QED BY <1>2 DEF EntriesPart

LEMMA ParamsByPairs ==
  ASSUME NEW Words, NEW methods, NEW headers, NEW params,
         NEW m, ReadBySelects(m), WrittenOver(m, Words, methods, headers, params),
         NEW n, ReadBySelects(n), WrittenOver(n, Words, methods, headers, params),
         ParamPairs(m) = ParamPairs(n)
  PROVE  EntriesPart("query=", ParamEntries(m)) = EntriesPart("query=", ParamEntries(n))
<1> DEFINE text(q) == <<"Exact", ":", q[1], ":">> \o q[2]
<1>1. ASSUME NEW o, ReadBySelects(o), WrittenOver(o, Words, methods, headers, params)
      PROVE  LET e == ParamEntries(o) IN
             /\ \E k \in Nat : DOMAIN e = 1..k
             /\ \A i, j \in DOMAIN e : e[i] = e[j] => i = j
             /\ {e[i] : i \in DOMAIN e} = {text(q) : q \in ParamPairs(o)}
  <2> DEFINE e == ParamEntries(o)
  <2>1. DOMAIN e = DOMAIN o.params
        /\ \A i \in DOMAIN e : e[i] = <<"Exact", ":", o.params[i].name, ":">> \o o.params[i].value
    BY <1>1 DEF ParamEntries, ParamEntry, ReadBySelects, Default
  <2> HIDE DEF e
  <2>2. \E k \in Nat : DOMAIN e = 1..k
    BY <1>1, <2>1 DEF WrittenOver
  <2>3. ASSUME NEW i \in DOMAIN e, NEW j \in DOMAIN e, e[i] = e[j] PROVE i = j
    <3>1. o.params[i].value \in Seq(Words) /\ o.params[j].value \in Seq(Words)
      BY <1>1, <2>1 DEF WrittenOver
    <3>2. <<"Exact", ":", o.params[i].name, ":">> \o o.params[i].value
            = <<"Exact", ":", o.params[j].name, ":">> \o o.params[j].value
      BY <2>1, <2>3
    <3>3. o.params[i].name = o.params[j].name
      BY <3>1, <3>2, EntryNamed
    <3> QED BY <1>1, <2>1, <3>3 DEF ReadBySelects
  <2>4. {e[i] : i \in DOMAIN e} = {text(q) : q \in ParamPairs(o)}
    <3>1. \A i \in DOMAIN e : e[i] = text(<<o.params[i].name, o.params[i].value>>)
      BY <2>1
    <3> HIDE DEF text
    <3>2. ParamPairs(o) = {<<o.params[i].name, o.params[i].value>> : i \in DOMAIN e}
      BY <2>1 DEF ParamPairs
    <3> DEFINE pairs == ParamPairs(o)
    <3> HIDE DEF pairs
    <3>3. \A i \in DOMAIN e : \E q \in pairs : e[i] = text(q)
      BY <3>1, <3>2 DEF pairs
    <3>4. \A q \in pairs : \E i \in DOMAIN e : text(q) = e[i]
      BY <3>1, <3>2 DEF pairs
    <3>5. {e[i] : i \in DOMAIN e} = {text(q) : q \in pairs}
      BY <3>3, <3>4
    <3> QED BY <3>5 DEF pairs
  <2> QED BY <2>2, <2>3, <2>4 DEF e
<1> HIDE DEF text
<1>2. Sorted(ParamEntries(m)) = Sorted(ParamEntries(n))
      /\ DOMAIN ParamEntries(m) = DOMAIN ParamEntries(n)
  <2>1. PICK k \in Nat : DOMAIN ParamEntries(m) = 1..k
    BY <1>1
  <2>2. PICK l \in Nat : DOMAIN ParamEntries(n) = 1..l
    BY <1>1
  <2>3. \A i, j \in DOMAIN ParamEntries(m) : ParamEntries(m)[i] = ParamEntries(m)[j] => i = j
    BY <1>1
  <2>4. \A i, j \in DOMAIN ParamEntries(n) : ParamEntries(n)[i] = ParamEntries(n)[j] => i = j
    BY <1>1
  <2>5. {ParamEntries(m)[i] : i \in DOMAIN ParamEntries(m)}
          = {ParamEntries(n)[i] : i \in DOMAIN ParamEntries(n)}
    BY <1>1
  <2> QED BY <2>1, <2>2, <2>3, <2>4, <2>5, SortedByContent
<1> QED BY <1>2 DEF EntriesPart

(* Of two matches that select the same requests, the one asks for no more than
   the other: each selects a request that has just what the other asks for. *)
LEMMA AsksForNoMore ==
  ASSUME NEW Words, "/" \in Words, NEW methods, NEW headers, NEW params,
         \E a, b \in methods : a # b,
         NEW m, ReadBySelects(m), PathTidy(m), WrittenOver(m, Words, methods, headers, params),
         NEW n, ReadBySelects(n), PathTidy(n), WrittenOver(n, Words, methods, headers, params),
         \A request \in RequestsOver(Words, methods, headers, params) :
           Selects(m, request) => Selects(n, request)
  PROVE  /\ HeaderPairs(n) \subseteq HeaderPairs(m) /\ ParamPairs(n) \subseteq ParamPairs(m)
         /\ n.method \in {Absent, m.method}
<1> DEFINE test(x) == [path |-> PathValue(m), method |-> x,
                       headers |-> HeaderPairs(m), params |-> ParamPairs(m)]
<1>1. /\ PathType(m) \in PathTypes /\ PathValue(m) \in PathsOver(Words)
      /\ Tidy(PathType(m), PathValue(m))
      /\ HeaderPairs(m) \subseteq headers /\ ParamPairs(m) \subseteq params
  BY SelectsByParts
<1>2. PathTaken(PathType(m), PathValue(m), PathValue(m))
  BY <1>1, PathTakesItself
<1>3. ASSUME NEW x \in methods, m.method \in {Absent, x}
      PROVE  /\ HeaderPairs(n) \subseteq HeaderPairs(m) /\ ParamPairs(n) \subseteq ParamPairs(m)
             /\ n.method \in {Absent, x}
  <2>1. test(x) \in RequestsOver(Words, methods, headers, params)
    BY <1>1, <1>3 DEF RequestsOver
  <2>2. /\ test(x).path = PathValue(m) /\ test(x).method = x
        /\ test(x).headers = HeaderPairs(m) /\ test(x).params = ParamPairs(m)
    OBVIOUS
  <2> HIDE DEF test
  <2>3. Selects(m, test(x))
    BY <1>1, <1>2, <1>3, <2>2, SelectsByParts
  <2>4. Selects(n, test(x))
    BY <2>1, <2>3
  <2> QED BY <1>1, <2>2, <2>4, SelectsByParts
<1>4. CASE m.method = Absent
  <2>1. PICK a \in methods, b \in methods : a # b
    OBVIOUS
  <2> QED BY <1>3, <1>4, <2>1
<1>5. CASE m.method # Absent
  BY <1>3, <1>5 DEF WrittenOver
<1> QED BY <1>4, <1>5

LEMMA SameSelectionSamePath ==
  ASSUME NEW Words, "/" \in Words, NEW methods, NEW headers, NEW params,
         NEW m, ReadBySelects(m), PathTidy(m), WrittenOver(m, Words, methods, headers, params),
         NEW n, ReadBySelects(n), PathTidy(n), WrittenOver(n, Words, methods, headers, params),
         NEW x \in methods, m.method \in {Absent, x}, n.method \in {Absent, x},
         \A request \in RequestsOver(Words, methods, headers, params) :
           Selects(m, request) <=> Selects(n, request)
  PROVE  PathType(m) = PathType(n) /\ PathValue(m) = PathValue(n)
<1>1. ASSUME NEW path \in PathsOver(Words)
      PROVE  PathTaken(PathType(m), PathValue(m), path) <=> PathTaken(PathType(n), PathValue(n), path)
  <2> DEFINE test == [path |-> path, method |-> x, headers |-> headers, params |-> params]
  <2>1. test \in RequestsOver(Words, methods, headers, params)
    BY DEF RequestsOver
  <2>2. test.path = path /\ test.method = x /\ test.headers = headers /\ test.params = params
    OBVIOUS
  <2> HIDE DEF test
  <2>3. Selects(m, test) <=> PathTaken(PathType(m), PathValue(m), path)
    BY <2>2, SelectsByParts
  <2>4. Selects(n, test) <=> PathTaken(PathType(n), PathValue(n), path)
    BY <2>2, SelectsByParts
  <2> QED BY <2>1, <2>3, <2>4
<1> DEFINE S == PathType(m)
           T == PathType(n)
           v == PathValue(m)
           w == PathValue(n)
<1>2. \A path \in PathsOver(Words) : PathTaken(S, v, path) <=> PathTaken(T, w, path)
  BY <1>1
<1>3. S \in PathTypes /\ T \in PathTypes /\ Tidy(S, v) /\ Tidy(T, w)
      /\ v \in PathsOver(Words) /\ w \in PathsOver(Words)
  BY SelectsByParts
<1> HIDE DEF S, T, v, w
<1>4. S = T /\ v = w
  BY <1>2, <1>3, PathsTakenDiffer
<1> QED BY <1>4 DEF S, T, v, w

LEMMA SameSelectionSameKey ==
  ASSUME NEW Words, "/" \in Words, NEW methods, NEW headers, NEW params,
         \E a, b \in methods : a # b,
         NEW m, ReadBySelects(m), PathTidy(m), WrittenOver(m, Words, methods, headers, params),
         NEW n, ReadBySelects(n), PathTidy(n), WrittenOver(n, Words, methods, headers, params),
         \A request \in RequestsOver(Words, methods, headers, params) :
           Selects(m, request) <=> Selects(n, request)
  PROVE  CanonicalHTTPMatch(m) = CanonicalHTTPMatch(n)
<1>1. /\ HeaderPairs(n) \subseteq HeaderPairs(m) /\ ParamPairs(n) \subseteq ParamPairs(m)
      /\ n.method \in {Absent, m.method}
  BY AsksForNoMore
<1>2. /\ HeaderPairs(m) \subseteq HeaderPairs(n) /\ ParamPairs(m) \subseteq ParamPairs(n)
      /\ m.method \in {Absent, n.method}
  BY AsksForNoMore
<1>3. m.method = n.method
  BY <1>1, <1>2
<1>4. PICK x \in methods : m.method \in {Absent, x} /\ n.method \in {Absent, x}
  BY <1>3 DEF WrittenOver
<1>5. PathType(m) = PathType(n) /\ PathValue(m) = PathValue(n)
  BY <1>4, SameSelectionSamePath
<1>6. MethodPart(m) = MethodPart(n)
  BY <1>3 DEF MethodPart
<1>7. EntriesPart("headers=", HeaderEntries(m)) = EntriesPart("headers=", HeaderEntries(n))
  <2>1. HeaderPairs(m) = HeaderPairs(n)
    BY <1>1, <1>2
  <2> QED BY <2>1, HeadersByPairs
<1>8. EntriesPart("query=", ParamEntries(m)) = EntriesPart("query=", ParamEntries(n))
  <2>1. ParamPairs(m) = ParamPairs(n)
    BY <1>1, <1>2
  <2> QED BY <2>1, ParamsByPairs
<1> QED BY <1>5, <1>6, <1>7, <1>8 DEF CanonicalHTTPMatch

(* Two matches that select the same requests have one HTTPMatch.Key, whichever way
   defaults, the case of header names and the order of entries are written, once
   Requests holds every request that can be written over the words, methods, header
   and parameter pairs of the matches, of which there are two methods. *)
THEOREM SameRequestsShareKeys ==
  ASSUME NEW Words, "/" \in Words, NEW Methods, \E a, b \in Methods : a # b,
         NEW Headers, NEW Params,
         Requests = RequestsOver(Words, Methods, Headers, Params),
         \A set \in ManifestSets : \A k \in DOMAIN set :
           IsCandidate(set[k]) =>
             \A i \in DOMAIN set[k].rules : \A m \in MatchesIn(set[k].rules[i]) :
               WrittenOver(m, Words, Methods, Headers, Params)
  PROVE  Spec => []SameRequestsSameKey
<1>1. IInv => SameRequestsSameKey
  <2> SUFFICES ASSUME IInv, NEW m \in LoadedMatches, ReadBySelects(m), PathTidy(m),
                      NEW n \in LoadedMatches, ReadBySelects(n), PathTidy(n),
                      SameSelection(m, n)
               PROVE  CanonicalHTTPMatch(m) = CanonicalHTTPMatch(n)
    BY DEF SameRequestsSameKey
  <2>1. ASSUME NEW o \in LoadedMatches PROVE WrittenOver(o, Words, Methods, Headers, Params)
    <3>1. PICK k \in Candidates :
            \E i \in DOMAIN objects[k].rules : o \in MatchesIn(objects[k].rules[i])
      BY DEF LoadedMatches
    <3>2. k \in DOMAIN objects /\ IsCandidate(objects[k])
      BY DEF Candidates
    <3>3. objects \in ManifestSets
      <4>1. objects # <<>>
        BY <3>2
      <4> QED BY <4>1 DEF IInv, LoopInv, TypeOK
    <3> QED BY <3>1, <3>2, <3>3
  <2>2. /\ WrittenOver(m, Words, Methods, Headers, Params)
        /\ WrittenOver(n, Words, Methods, Headers, Params)
    BY <2>1
  <2>3. \A request \in RequestsOver(Words, Methods, Headers, Params) :
          Selects(m, request) <=> Selects(n, request)
    BY DEF SameSelection
  <2> QED BY <2>2, <2>3, SameSelectionSameKey
<1> QED BY <1>1, Invariance, PTL

=============================================================================
