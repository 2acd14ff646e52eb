----------------------------- MODULE MCLintRun -----------------------------
(***************************************************************************)
(* A small instance of LintRun: three objects that only mean something     *)
(* together (a policy, its route and the route's backend), one the checks  *)
(* do not know, and a document that does not decode, spread in every way   *)
(* over at most two directories.                                           *)
(***************************************************************************)
EXTENDS LintRun, SequencesExt

CONSTANTS policy, route, backend, service, broken,  \* objects
          coldStart, servesNothing, emptyBackend,   \* checks
          btp, httproute, egBackend, svc            \* group-version-kinds

MCObject == {policy, route, backend, service}
MCInvalid == {broken}
MCGvk == {btp, httproute, egBackend, svc}
MCKind == {"BackendTrafficPolicy", "HTTPRoute", "Backend", "Service"}
MCCheck == {coldStart, servesNothing, emptyBackend}
MCPath == {"a.yaml", "b.yaml"}

MCFileOf ==
  policy :> "a.yaml" @@ route :> "a.yaml" @@ backend :> "b.yaml"
  @@ service :> "" @@ broken :> "b.yaml"

MCGvkOf ==
  policy :> btp @@ route :> httproute @@ backend :> egBackend @@ service :> svc

MCKindOf ==
  btp :> "BackendTrafficPolicy" @@ httproute :> "HTTPRoute"
  @@ egBackend :> "Backend" @@ svc :> "Service"

MCMatcher ==
  coldStart :> {btp} @@ servesNothing :> {httproute} @@ emptyBackend :> {egBackend}

MCScope ==
  coldStart :> {"BackendTrafficPolicy"} @@ servesNothing :> {"HTTPRoute"}
  @@ emptyBackend :> {"Backend"}

(* The backend is annotated to be left alone by the one check that matches it,
   the route by one that does not match it. *)
MCIgnored ==
  policy :> {} @@ route :> {coldStart} @@ backend :> {emptyBackend} @@ service :> {}

(* coldStart needs the policy, its route and the backend in one set, as
   fqdn-backend-cold-start does, and reports two rules of the route;
   servesNothing flags a route whose backend is missing; emptyBackend would
   flag every backend. *)
MCFinds ==
  LET Of(o, n) == [x \in MCObject |-> IF x = o THEN n ELSE 0] IN
  coldStart :> [S \in SUBSET MCObject |->
                  Of(policy, IF {policy, route, backend} \subseteq S THEN 2 ELSE 0)]
  @@ servesNothing :> [S \in SUBSET MCObject |->
                  Of(route, IF route \in S /\ backend \notin S THEN 1 ELSE 0)]
  @@ emptyBackend :> [S \in SUBSET MCObject |-> Of(backend, 1)]

MCBuiltin == {<<>>, <<coldStart, emptyBackend, servesNothing>>}

(* Every way to put each object and document into the first directory, the
   second, or neither. *)
Placement == [MCObject \cup MCInvalid -> 0..2]

Directory(place, d) ==
  [objects |-> SetToSeq({o \in MCObject : place[o] = d}),
   invalid |-> SetToSeq({x \in MCInvalid : place[x] = d})]

MCLoads ==
  {<<>>} \cup {<<Directory(place, 1), Directory(place, 2)>> : place \in Placement}

(* "yaml" is a format gwlint does not have. *)
MCRequests ==
  {<<"plain">>, <<"plain", "json">>, <<"sarif", "json", "plain">>, <<"json", "yaml">>}

=============================================================================
