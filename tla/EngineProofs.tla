--------------------------- MODULE EngineProofs ---------------------------
(***************************************************************************)
(* What holds of every run of the engine, whatever its checks report: the  *)
(* loop visits every object with every check, and what has been recorded   *)
(* at any time is exactly what is due of the calls made so far.  The       *)
(* modules about the checks instantiate `due` with what their check        *)
(* functions return.                                                       *)
(***************************************************************************)
EXTENDS Engine, TLAPS, WellFoundedInduction

(* The engine has called the check on the k-th object. *)
Called(check, k) ==
  \E c \in DOMAIN Checks :
    Checks[c] = check /\ (k < at[1] \/ (k = at[1] /\ c < at[2]))

(* What is due of the calls made so far. *)
DueSoFar(due) == {f \in due : Called(f[1], f[2])}

(* Where the loop is; strengthened by what it needs of the loaded set. *)
LoopInv ==
  /\ TypeOK
  /\ phase = "load" => at = <<1, 1>> /\ findings = {}
  /\ phase # "load" => objects \in ManifestSets
  /\ phase = "done" => at[1] \notin DOMAIN objects

-----------------------------------------------------------------------------
LEMMA CheckList ==
  /\ Len(Checks) \in Nat /\ DOMAIN Checks = 1..Len(Checks)
  /\ 1 \in DOMAIN Checks
  BY ChecksAssumption

LEMMA LoadedSet ==
  ASSUME LoopInv
  PROVE  Len(objects) \in Nat /\ DOMAIN objects = 1..Len(objects)
<1>1. CASE phase = "load"
  BY <1>1 DEF LoopInv, TypeOK
<1>2. CASE phase # "load"
  <2>1. objects \in Seq({objects[i] : i \in DOMAIN objects})
    BY <1>2, LoadOrderAssumption DEF LoopInv
  <2> QED BY <2>1
<1> QED BY <1>1, <1>2

(* The loop stays inside the object list and the check list, whatever is
   loaded and however many checks are enabled. *)
LEMMA JudgePreservesTypes ==
  ASSUME TypeOK, NEW check, NEW applies, NEW refs, Judge(check, applies, refs)
  PROVE  TypeOK'
<1>1. /\ phase = "check" /\ phase' = phase /\ objects' = objects
      /\ at[1] \in DOMAIN objects
      /\ Checks[at[2]] = check
      /\ findings' \subseteq findings \cup {<<check, at[1], x>> : x \in refs}
      /\ at' = IF at[2] < Len(Checks) THEN <<at[1], at[2] + 1>> ELSE <<at[1] + 1, 1>>
  BY DEF Judge
<1>2. at[1] \in Nat \ {0} /\ at[2] \in DOMAIN Checks
  BY DEF TypeOK
<1>3. at' \in (Nat \ {0}) \X DOMAIN Checks
  BY <1>1, <1>2, CheckList
<1>4. ASSUME NEW f \in findings'
      PROVE  f[1] \in Enabled /\ f[2] \in DOMAIN objects'
  <2>1. CASE f \in findings
    BY <1>1, <2>1 DEF TypeOK
  <2>2. CASE f \notin findings
    BY <1>1, <1>2, <1>4, <2>2 DEF Enabled
  <2> QED BY <2>1, <2>2
<1> QED BY <1>1, <1>3, <1>4 DEF TypeOK

LEMMA InitLoop == Init => LoopInv
  BY CheckList DEF Init, LoopInv, TypeOK

LEMMA LoadLoop == ASSUME LoopInv, Load PROVE LoopInv'
  BY DEF Load, LoopInv, TypeOK

LEMMA JudgeLoop ==
  ASSUME LoopInv, NEW check, NEW applies, NEW refs, Judge(check, applies, refs)
  PROVE  LoopInv'
<1>1. TypeOK'
  BY JudgePreservesTypes DEF LoopInv
<1>2. phase = "check" /\ phase' = phase /\ objects' = objects
  BY DEF Judge
<1> QED BY <1>1, <1>2 DEF LoopInv

LEMMA FinishLoop == ASSUME LoopInv, Finish PROVE LoopInv'
  BY DEF Finish, LoopInv, TypeOK

LEMMA StutterLoop == ASSUME LoopInv, UNCHANGED vars PROVE LoopInv'
  BY DEF vars, LoopInv, TypeOK

-----------------------------------------------------------------------------
(* One call more: of every object below the current one, and of the current
   one up to the current check. *)
LEMMA CalledNext ==
  ASSUME LoopInv, NEW check, NEW applies, NEW refs, Judge(check, applies, refs),
         NEW other, NEW k \in Nat
  PROVE  Called(other, k)' <=> Called(other, k) \/ (k = at[1] /\ other = check)
<1>1. /\ Checks[at[2]] = check
      /\ at[1] \in Nat \ {0} /\ at[2] \in 1..Len(Checks)
      /\ at' = IF at[2] < Len(Checks) THEN <<at[1], at[2] + 1>> ELSE <<at[1] + 1, 1>>
  BY CheckList DEF Judge, LoopInv, TypeOK
<1>2. CASE at[2] < Len(Checks)
  <2>1. at'[1] = at[1] /\ at'[2] = at[2] + 1
    BY <1>1, <1>2
  <2>2. \A c \in DOMAIN Checks : c < at[2] + 1 <=> c < at[2] \/ c = at[2]
    BY <1>1, CheckList
  <2> QED BY <1>1, <2>1, <2>2, CheckList DEF Called
<1>3. CASE ~(at[2] < Len(Checks))
  <2>1. at'[1] = at[1] + 1 /\ at'[2] = 1 /\ at[2] = Len(Checks)
    BY <1>1, <1>3, CheckList
  <2>2. k < at[1] + 1 <=> k < at[1] \/ k = at[1]
    BY <1>1
  <2>3. \A c \in DOMAIN Checks : ~(c < 1) /\ (c < at[2] \/ c = at[2])
    BY <2>1, CheckList
  <2> QED BY <1>1, <2>1, <2>2, <2>3, CheckList DEF Called
<1> QED BY <1>2, <1>3

(* A check that records exactly what is due of the current call keeps the
   record exact. *)
LEMMA JudgeRecords ==
  ASSUME LoopInv, NEW due, NEW check, NEW applies, NEW refs,
         Judge(check, applies, refs),
         findings = DueSoFar(due),
         \A f \in due : f = <<f[1], f[2], f[3]>> /\ f[2] \in DOMAIN objects,
         \A x : <<check, at[1], x>> \in due <=> applies /\ x \in refs
  PROVE  findings' = {f \in due : Called(f[1], f[2])'}
<1> DEFINE new == IF applies THEN {<<check, at[1], x>> : x \in refs} ELSE {}
<1>1. findings' = findings \cup new
  BY DEF Judge
<1>2. ASSUME NEW f \in due
      PROVE  Called(f[1], f[2])' <=> Called(f[1], f[2]) \/ f \in new
  <2>1. f[2] \in Nat
    BY LoadedSet
  <2>2. f[2] = at[1] /\ f[1] = check <=> f \in new
    <3>1. ASSUME f[2] = at[1], f[1] = check PROVE f \in new
      <4>1. f = <<check, at[1], f[3]>>
        BY <3>1
      <4>2. applies /\ f[3] \in refs
        BY <4>1
      <4> QED BY <4>1, <4>2
    <3>2. ASSUME f \in new PROVE f[2] = at[1] /\ f[1] = check
      BY <3>2
    <3> QED BY <3>1, <3>2
  <2> QED BY <2>1, <2>2, CalledNext
<1>3. new \subseteq due
  OBVIOUS
<1> HIDE DEF new
<1> QED BY <1>1, <1>2, <1>3 DEF DueSoFar

(* Right after a set is loaded nothing is due yet. *)
LEMMA LoadRecords ==
  ASSUME LoopInv, Load, NEW due, \A f \in due : f[2] \in DOMAIN objects'
  PROVE  findings' = {f \in due : Called(f[1], f[2])'}
<1>1. LoopInv'
  BY LoadLoop
<1>2. at' = <<1, 1>> /\ findings' = {}
  BY DEF Load, LoopInv
<1>3. \A k \in DOMAIN objects' : k \in Nat \ {0}
  <2>1. (Len(objects) \in Nat /\ DOMAIN objects = 1..Len(objects))'
    <3>1. (LoopInv => Len(objects) \in Nat /\ DOMAIN objects = 1..Len(objects))'
      BY LoadedSet, PTL
    <3> QED BY <1>1, <3>1
  <2> QED BY <2>1
<1>4. \A f \in due : ~Called(f[1], f[2])'
  BY <1>2, <1>3, CheckList DEF Called
<1> QED BY <1>2, <1>4

(* When the engine is done it has called every check on every object. *)
LEMMA AllCalled ==
  ASSUME LoopInv, phase = "done", NEW check, NEW c \in DOMAIN Checks, Checks[c] = check,
         NEW k \in DOMAIN objects
  PROVE  Called(check, k)
<1>1. at[1] \in Nat \ {0} /\ at[1] \notin 1..Len(objects) /\ Len(objects) \in Nat
  BY LoadedSet DEF LoopInv, TypeOK
<1>2. k < at[1]
  BY <1>1, LoadedSet
<1> QED BY <1>2 DEF Called

-----------------------------------------------------------------------------
(* Of several objects one comes first. *)
LEMMA Least ==
  ASSUME NEW T \in SUBSET Nat, T # {}
  PROVE  \E x \in T : \A y \in T : ~(y < x)
<1> DEFINE R == {ss \in Nat \X Nat : ss[1] < ss[2]}
<1>1. IsWellFoundedOn(R, Nat)
  BY NatLessThanWellFounded DEF OpToRel
<1>2. T \subseteq Nat
  OBVIOUS
<1> HIDE DEF R
<1>3. PICK x \in T : \A y \in T : ~(<<y, x>> \in R)
  BY <1>1, <1>2, WFMin
<1>4. \A y \in T : x \in Nat /\ y \in Nat /\ ~(y < x)
  BY <1>3 DEF R
<1> QED BY <1>3, <1>4

=============================================================================
