----------------------------- MODULE Hostnames -----------------------------
(***************************************************************************)
(* The hostname comparison of pkg/gatewayapi/attach.go.  A hostname is the *)
(* sequence of its labels: "a.example.com" is <<"a", "example", "com">>    *)
(* and "*.example.com" is <<"*", "example", "com">>.  The code cuts and    *)
(* compares strings, but every cut falls just before a dot, so it cuts     *)
(* between labels.                                                         *)
(***************************************************************************)
EXTENDS Integers, Sequences

Star == "*"

(* "*." followed by something; a lone "*" is compared literally. *)
IsWildcard(h) == Len(h) > 1 /\ h[1] = Star

HasDNSSuffix(host, suffix) ==
  /\ Len(host) >= Len(suffix)
  /\ SubSeq(host, Len(host) - Len(suffix) + 1, Len(host)) = suffix

(* Mutant: the bare domain counts as covered too. *)
WildcardMatchesBareDomain(wildcard, host) == HasDNSSuffix(host, Tail(wildcard))

(* "*.example.com" covers one or more labels in front of its suffix.  The
   suffix starts with the dot, so a host equal to the rest is not covered. *)
WildcardMatches(wildcard, host) ==
  LET suffix == Tail(wildcard)
  IN  Len(host) > Len(suffix) /\ HasDNSSuffix(host, suffix)

HostnamesOverlap(a, b) ==
  CASE IsWildcard(a) /\ IsWildcard(b) ->
         HasDNSSuffix(Tail(a), Tail(b)) \/ HasDNSSuffix(Tail(b), Tail(a))
    [] IsWildcard(a) /\ ~IsWildcard(b) -> WildcardMatches(a, b)
    [] ~IsWildcard(a) /\ IsWildcard(b) -> WildcardMatches(b, a)
    [] OTHER -> a = b

-----------------------------------------------------------------------------
(* The reference meaning, stated without any string surgery: the hostname
   `host` a client asks for (no wildcard in it) falls under the pattern. *)
Covers(pattern, host) ==
  IF IsWildcard(pattern)
  THEN \E front \in 1..Len(host) :
         SubSeq(host, front + 1, Len(host)) = Tail(pattern)
  ELSE host = pattern

(* Some client can ask for a hostname both patterns cover. *)
CommonHost(a, b, hosts) == \E host \in hosts : Covers(a, host) /\ Covers(b, host)

=============================================================================
