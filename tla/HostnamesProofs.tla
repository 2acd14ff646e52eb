-------------------------- MODULE HostnamesProofs --------------------------
(***************************************************************************)
(* The hostname comparison means what it should, for hostnames of any      *)
(* number of labels: two patterns overlap exactly when some hostname a     *)
(* client can ask for falls under both.                                    *)
(***************************************************************************)
EXTENDS Hostnames, SequenceTheorems, TLAPS

Hostname == Seq(STRING) \ {<<>>}

(* A suffix, position by position. *)
LEMMA SuffixByPosition ==
  ASSUME NEW h \in Seq(STRING), NEW s \in Seq(STRING)
  PROVE  HasDNSSuffix(h, s) <=>
           /\ Len(h) >= Len(s)
           /\ \A i \in 1..Len(s) : s[i] = h[Len(h) - Len(s) + i]
<1>1. ASSUME Len(h) >= Len(s)
      PROVE  /\ SubSeq(h, Len(h) - Len(s) + 1, Len(h)) \in Seq(STRING)
             /\ Len(SubSeq(h, Len(h) - Len(s) + 1, Len(h))) = Len(s)
             /\ \A i \in 1..Len(s) :
                  SubSeq(h, Len(h) - Len(s) + 1, Len(h))[i] = h[Len(h) - Len(s) + i]
  BY <1>1
<1> DEFINE t == SubSeq(h, Len(h) - Len(s) + 1, Len(h))
<1>2. ASSUME HasDNSSuffix(h, s)
      PROVE  Len(h) >= Len(s) /\ \A i \in 1..Len(s) : s[i] = h[Len(h) - Len(s) + i]
  BY <1>1, <1>2 DEF HasDNSSuffix
<1>3. ASSUME Len(h) >= Len(s), \A i \in 1..Len(s) : s[i] = h[Len(h) - Len(s) + i]
      PROVE  HasDNSSuffix(h, s)
  <2>1. t = s
    <3>1. t \in Seq(STRING) /\ Len(t) = Len(s) /\ \A i \in 1..Len(s) : t[i] = s[i]
      BY <1>1, <1>3
    <3> HIDE DEF t
    <3> QED BY <3>1
  <2> QED BY <1>3, <2>1 DEF HasDNSSuffix
<1> QED BY <1>2, <1>3

(* A wildcard covers a host just when it matches it. *)
LEMMA CoversIsWildcardMatches ==
  ASSUME NEW w \in Hostname, NEW h \in Hostname, IsWildcard(w)
  PROVE  Covers(w, h) <=> WildcardMatches(w, h)
<1> DEFINE s == Tail(w)
<1>1. s \in Seq(STRING) /\ Len(s) = Len(w) - 1 /\ Len(w) \in Nat /\ Len(w) > 1
  BY DEF IsWildcard, Hostname
<1>2. h \in Seq(STRING) /\ Len(h) \in Nat
  BY DEF Hostname
<1> HIDE DEF s
<1>3. ASSUME NEW front \in 1..Len(h), SubSeq(h, front + 1, Len(h)) = s
      PROVE  Len(h) > Len(s) /\ HasDNSSuffix(h, s)
  <2>1. Len(SubSeq(h, front + 1, Len(h))) = Len(h) - front
    BY <1>2
  <2>2. Len(s) = Len(h) - front
    BY <1>3, <2>1
  <2>3. Len(h) - Len(s) + 1 = front + 1
    BY <1>1, <1>2, <2>2
  <2>4. SubSeq(h, Len(h) - Len(s) + 1, Len(h)) = s
    BY <1>3, <2>3
  <2>5. Len(h) > Len(s)
    BY <1>1, <1>2, <2>2
  <2> QED BY <1>1, <1>2, <2>4, <2>5 DEF HasDNSSuffix
<1>4. ASSUME Len(h) > Len(s), HasDNSSuffix(h, s)
      PROVE  \E front \in 1..Len(h) : SubSeq(h, front + 1, Len(h)) = s
  <2>1. Len(h) - Len(s) \in 1..Len(h)
    BY <1>1, <1>2, <1>4
  <2>2. SubSeq(h, (Len(h) - Len(s)) + 1, Len(h)) = s
    BY <1>4 DEF HasDNSSuffix
  <2> QED BY <2>1, <2>2
<1> QED BY <1>3, <1>4 DEF Covers, WildcardMatches, s

(* Of two suffixes of one host, the shorter is a suffix of the longer. *)
LEMMA SuffixesNest ==
  ASSUME NEW h \in Seq(STRING), NEW s \in Seq(STRING), NEW t \in Seq(STRING),
         HasDNSSuffix(h, s), HasDNSSuffix(h, t), Len(t) <= Len(s)
  PROVE  HasDNSSuffix(s, t)
<1>1. Len(h) \in Nat /\ Len(s) \in Nat /\ Len(t) \in Nat
  OBVIOUS
<1>2. ASSUME NEW i \in 1..Len(t) PROVE t[i] = s[Len(s) - Len(t) + i]
  <2>1. t[i] = h[Len(h) - Len(t) + i]
    BY SuffixByPosition
  <2>2. Len(s) - Len(t) + i \in 1..Len(s)
    BY <1>1
  <2>3. s[Len(s) - Len(t) + i] = h[Len(h) - Len(s) + (Len(s) - Len(t) + i)]
    BY <2>2, SuffixByPosition
  <2>4. Len(h) - Len(s) + (Len(s) - Len(t) + i) = Len(h) - Len(t) + i
    BY <1>1
  <2> QED BY <2>1, <2>3, <2>4
<1> QED BY <1>2, SuffixByPosition

(* A suffix of a suffix is a suffix. *)
LEMMA SuffixesChain ==
  ASSUME NEW h \in Seq(STRING), NEW s \in Seq(STRING), NEW t \in Seq(STRING),
         HasDNSSuffix(h, s), HasDNSSuffix(s, t)
  PROVE  HasDNSSuffix(h, t)
<1>1. Len(h) \in Nat /\ Len(s) \in Nat /\ Len(t) \in Nat
  OBVIOUS
<1>2. Len(h) >= Len(s) /\ Len(s) >= Len(t)
  BY SuffixByPosition
<1>3. ASSUME NEW i \in 1..Len(t) PROVE t[i] = h[Len(h) - Len(t) + i]
  <2>1. Len(s) - Len(t) + i \in 1..Len(s)
    BY <1>1, <1>2
  <2>2. t[i] = s[Len(s) - Len(t) + i]
    BY SuffixByPosition
  <2>3. s[Len(s) - Len(t) + i] = h[Len(h) - Len(s) + (Len(s) - Len(t) + i)]
    BY <2>1, SuffixByPosition
  <2>4. Len(h) - Len(s) + (Len(s) - Len(t) + i) = Len(h) - Len(t) + i
    BY <1>1
  <2> QED BY <2>2, <2>3, <2>4
<1> QED BY <1>1, <1>2, <1>3, SuffixByPosition

(* Every wildcard's suffix is the suffix of a host with one label more. *)
LEMMA ExtendedSuffix ==
  ASSUME NEW s \in Hostname
  PROVE  \E h \in Hostname : Len(h) = Len(s) + 1 /\ HasDNSSuffix(h, s)
<1> DEFINE h == [i \in 1..(Len(s) + 1) |-> IF i = 1 THEN s[1] ELSE s[i - 1]]
<1>1. /\ s \in Seq(STRING) /\ Len(s) \in Nat \ {0}
      /\ \A i \in 1..Len(s) : s[i] \in STRING
  BY DEF Hostname
<1>2. h \in Seq(STRING)
  <2>1. \A i \in 1..(Len(s) + 1) : h[i] \in STRING
    <3>1. 1 \in 1..Len(s) /\ \A i \in 1..(Len(s) + 1) : i # 1 => i - 1 \in 1..Len(s)
      BY <1>1
    <3> QED BY <1>1, <3>1
  <2>2. h \in [1..(Len(s) + 1) -> STRING]
    BY <2>1
  <2>3. Len(s) + 1 \in Nat
    BY <1>1
  <2> HIDE DEF h
  <2> QED BY <2>2, <2>3, SeqDef
<1>3. Len(h) = Len(s) + 1
  BY <1>1
<1>4. \A i \in 1..Len(s) : h[Len(h) - Len(s) + i] = s[i]
  <2>1. \A i \in 1..Len(s) : h[1 + i] = s[i]
    BY <1>1
  <2>2. Len(h) - Len(s) = 1
    BY <1>1, <1>3
  <2> HIDE DEF h
  <2> QED BY <2>1, <2>2
<1> HIDE DEF h
<1>5. HasDNSSuffix(h, s)
  BY <1>1, <1>2, <1>3, <1>4, SuffixByPosition
<1>6. h \in Hostname
  BY <1>1, <1>2, <1>3 DEF Hostname
<1> QED BY <1>3, <1>5, <1>6

(* Two patterns overlap exactly when a client can ask for a hostname that both
   cover (attach.go, HostnamesOverlap). *)
THEOREM OverlapIsCommonHost ==
  \A a, b \in Hostname :
    HostnamesOverlap(a, b) <=> CommonHost(a, b, Hostname)
<1> SUFFICES ASSUME NEW a \in Hostname, NEW b \in Hostname
             PROVE  HostnamesOverlap(a, b) <=> CommonHost(a, b, Hostname)
  OBVIOUS
<1>1. ASSUME NEW w \in Hostname, IsWildcard(w)
      PROVE  Tail(w) \in Seq(STRING) /\ Len(Tail(w)) \in Nat \ {0} /\ Tail(w) \in Hostname
  <2>1. w \in Seq(STRING) /\ Len(w) \in Nat /\ Len(w) > 1 /\ w # <<>>
    BY <1>1 DEF IsWildcard, Hostname
  <2>2. Tail(w) \in Seq(STRING) /\ Len(Tail(w)) = Len(w) - 1
    BY <2>1
  <2>3. Len(Tail(w)) \in Nat \ {0}
    BY <2>1, <2>2
  <2>4. Tail(w) # <<>>
    <3>1. \A x : x = <<>> => Len(x) = 0
      OBVIOUS
    <3> QED BY <2>3, <3>1, Zenon
  <2> QED BY <2>2, <2>3, <2>4 DEF Hostname
<1>2. CASE IsWildcard(a) /\ IsWildcard(b)
  <2> DEFINE s == Tail(a)
             t == Tail(b)
  <2>1. /\ s \in Seq(STRING) /\ Len(s) \in Nat \ {0} /\ s \in Hostname
        /\ t \in Seq(STRING) /\ Len(t) \in Nat \ {0} /\ t \in Hostname
    BY <1>1, <1>2
  <2> HIDE DEF s, t
  <2>2. HostnamesOverlap(a, b) <=> HasDNSSuffix(s, t) \/ HasDNSSuffix(t, s)
    BY <1>2 DEF HostnamesOverlap, s, t
  <2>3. \A h \in Hostname :
          Covers(a, h) /\ Covers(b, h) <=>
            /\ Len(h) > Len(s) /\ HasDNSSuffix(h, s)
            /\ Len(h) > Len(t) /\ HasDNSSuffix(h, t)
    BY <1>2, CoversIsWildcardMatches DEF WildcardMatches, s, t
  <2>4. ASSUME CommonHost(a, b, Hostname)
        PROVE  HasDNSSuffix(s, t) \/ HasDNSSuffix(t, s)
    <3>1. PICK h \in Hostname : HasDNSSuffix(h, s) /\ HasDNSSuffix(h, t)
      BY <2>3, <2>4 DEF CommonHost
    <3>2. h \in Seq(STRING)
      BY DEF Hostname
    <3> QED BY <2>1, <3>1, <3>2, SuffixesNest
  <2>5. ASSUME HasDNSSuffix(s, t) PROVE CommonHost(a, b, Hostname)
    <3>1. PICK h \in Hostname : Len(h) = Len(s) + 1 /\ HasDNSSuffix(h, s)
      BY <2>1, ExtendedSuffix
    <3>2. HasDNSSuffix(h, t) /\ Len(s) >= Len(t)
      BY <2>1, <2>5, <3>1, SuffixesChain DEF Hostname, HasDNSSuffix
    <3> QED BY <2>1, <2>3, <3>1, <3>2 DEF CommonHost
  <2>6. ASSUME HasDNSSuffix(t, s) PROVE CommonHost(a, b, Hostname)
    <3>1. PICK h \in Hostname : Len(h) = Len(t) + 1 /\ HasDNSSuffix(h, t)
      BY <2>1, ExtendedSuffix
    <3>2. HasDNSSuffix(h, s) /\ Len(t) >= Len(s)
      BY <2>1, <2>6, <3>1, SuffixesChain DEF Hostname, HasDNSSuffix
    <3> QED BY <2>1, <2>3, <3>1, <3>2 DEF CommonHost
  <2> QED BY <2>2, <2>4, <2>5, <2>6
<1>3. CASE IsWildcard(a) /\ ~IsWildcard(b)
  <2>1. CommonHost(a, b, Hostname) <=> Covers(a, b)
    BY <1>3 DEF CommonHost, Covers
  <2> QED BY <1>3, <2>1, CoversIsWildcardMatches DEF HostnamesOverlap
<1>4. CASE ~IsWildcard(a) /\ IsWildcard(b)
  <2>1. CommonHost(a, b, Hostname) <=> Covers(b, a)
    BY <1>4 DEF CommonHost, Covers
  <2> QED BY <1>4, <2>1, CoversIsWildcardMatches DEF HostnamesOverlap
<1>5. CASE ~IsWildcard(a) /\ ~IsWildcard(b)
  BY <1>5 DEF CommonHost, Covers, HostnamesOverlap
<1> QED BY <1>2, <1>3, <1>4, <1>5

=============================================================================
