--------------------------- MODULE LintRunProofs ---------------------------
(***************************************************************************)
(* Theorems about the lint command, for every manifest set, check list,    *)
(* split into contexts and list of outputs: the type invariant, that the   *)
(* reports are those of the whole set, that a clean exit can be trusted,   *)
(* and that a run keeps the promise of LintVerdict.                        *)
(***************************************************************************)
EXTENDS LintRun, SequenceTheorems, FiniteSetTheorems, TLAPS

-----------------------------------------------------------------------------
(* The type invariant. *)

LEMMA ConcatContexts ==
  ASSUME NEW m \in Context, NEW c \in Context
  PROVE  [objects |-> m.objects \o c.objects,
          invalid |-> m.invalid \o c.invalid] \in Context
  BY ConcatProperties DEF Context

LEMMA InitTypeOK == Init => TypeOK
<1> SUFFICES ASSUME Init PROVE TypeOK
  OBVIOUS
<1>1. merged \in Context
  BY EmptySeq DEF Init, Context
<1>2. reports \in Seq(Report)
  BY EmptySeq DEF Init
<1>3. enabled \in Seq(Check) /\ contexts \in Seq(Context)
  BY InputAssumption DEF Init
<1>4. requested \in Seq(Format) \ {<<>>}
  BY InputAssumption DEF Init
<1>. QED  BY <1>1, <1>2, <1>3, <1>4 DEF Init, TypeOK

LEMMA ReturnTypeOK ==
  ASSUME TypeOK, NEW from, NEW how, Return(from, how),
         how \in {"ok", "setupError", "noObjects", "writeError", "lintErrors"}
  PROVE  TypeOK'
  BY DEF TypeOK, Return, Goto, input, result, written, Context

(* A slice of diagnostics is a sequence of reports. *)
LEMMA SliceIsSeq ==
  ASSUME NEW c \in Check, NEW o \in Object, NEW S \in SUBSET Object
  PROVE  /\ Slice(c, o, S) \in Seq(Report)
         /\ DOMAIN Slice(c, o, S) = 1..Finds[c][S][o]
         /\ \A i \in 1..Finds[c][S][o] : Slice(c, o, S)[i] = <<c, o, i>>
         /\ RangeOf(Slice(c, o, S)) = {<<c, o, i>> : i \in 1..Finds[c][S][o]}
<1>. DEFINE n == Finds[c][S][o]
            s == Slice(c, o, S)
<1>1. n \in Nat
  BY CheckAssumption
<1>2. s \in [1..n -> Report]
  <2>1. \A i \in 1..n : <<c, o, i>> \in Report
    BY <1>1 DEF Report
  <2>. QED  BY <2>1 DEF Slice
<1>3. DOMAIN s = 1..n /\ \A i \in 1..n : s[i] = <<c, o, i>>
  BY DEF Slice
<1>4. s \in Seq(Report)
  BY <1>1, <1>2, SeqDef
<1>5. RangeOf(s) = {<<c, o, i>> : i \in 1..n}
  BY <1>3 DEF RangeOf
<1>. QED  BY <1>3, <1>4, <1>5

LEMMA NextTypeOK == TypeOK /\ [Next]_vars => TypeOK'
<1> SUFFICES ASSUME TypeOK, [Next]_vars PROVE TypeOK'
  OBVIOUS
<1>1. CASE LoadChecks
  BY <1>1 DEF LoadChecks, Goto, TypeOK, input, result, written, Context
<1>2. CASE LoadChecksFails
  BY <1>2, ReturnTypeOK DEF LoadChecksFails
<1>3. CASE NoChecks
  BY <1>3, ReturnTypeOK DEF NoChecks
<1>4. CASE CreateContexts
  BY <1>4 DEF CreateContexts, Goto, TypeOK, input, result, written, Context
<1>5. CASE CreateContextsFails
  BY <1>5, ReturnTypeOK DEF CreateContextsFails
<1>6. CASE MergeContext
  <2>1. contexts[at[1]] \in Context
    BY <1>6 DEF MergeContext, TypeOK
  <2>2. merged' \in Context
    BY <1>6, <2>1, ConcatContexts DEF MergeContext, TypeOK
  <2>3. at' \in (Nat \ {0}) \X (Nat \ {0})
    BY <1>6 DEF MergeContext, TypeOK
  <2>. QED  BY <1>6, <2>2, <2>3 DEF MergeContext, TypeOK, input, result, written
<1>7. CASE MergeDone
  BY <1>7 DEF MergeDone, Goto, TypeOK, input, result, written, Context
<1>8. CASE NoValidObjects
  BY <1>8, ReturnTypeOK DEF NoValidObjects
<1>9. CASE StartRun
  BY <1>9 DEF StartRun, Goto, TypeOK, input, result, written, Context
<1>10. CASE RunFails
  BY <1>10, ReturnTypeOK DEF RunFails
<1>11. CASE RunCheck
  <2>. DEFINE o == merged.objects[at[1]]
              c == enabled[at[2]]
  <2>1. o \in Object /\ c \in Check
    BY <1>11 DEF RunCheck, TypeOK, Context
  <2>2. <<c, o>> \in Check \X Object
    BY <2>1
  <2>3. reports' \in Seq(Report)
    <3>1. RangeOf(merged.objects) \in SUBSET Object
      BY DEF TypeOK, Context, RangeOf
    <3>2. Slice(c, o, RangeOf(merged.objects)) \in Seq(Report)
      BY <2>1, <3>1, SliceIsSeq
    <3>3. PICK slice \in Seq(Report) : reports' = reports \o slice
      BY <1>11, <3>2, EmptySeq DEF RunCheck
    <3>. QED  BY <3>3, ConcatProperties DEF TypeOK
  <2>4. examined' \subseteq Check \X Object
    BY <1>11, <2>2 DEF RunCheck, TypeOK
  <2>5. at' \in (Nat \ {0}) \X (Nat \ {0})
    BY <1>11 DEF RunCheck, TypeOK
  <2>. QED  BY <1>11, <2>3, <2>4, <2>5 DEF RunCheck, TypeOK, input, written, Context
<1>12. CASE RunDone
  BY <1>12 DEF RunDone, Goto, TypeOK, input, result, written, Context
<1>13. CASE Summarize
  BY <1>13 DEF Summarize, Goto, TypeOK, input, result, written, Context
<1>14. CASE PairOutputs
  BY <1>14 DEF PairOutputs, Goto, TypeOK, input, result, written, Context
<1>15. CASE PairOutputsFails
  BY <1>15, ReturnTypeOK DEF PairOutputsFails
<1>17. CASE WritePair
  <2>1. at' \in (Nat \ {0}) \X (Nat \ {0})
    BY <1>17 DEF WritePair, TypeOK
  <2>. QED  BY <1>17, <2>1 DEF WritePair, TypeOK, input, result, Context
<1>18. CASE Conclude
  BY <1>18, ReturnTypeOK DEF Conclude
<1>19. CASE UNCHANGED vars
  BY <1>19 DEF vars, TypeOK, Context
<1>. QED
  BY <1>1, <1>2, <1>3, <1>4, <1>5, <1>6, <1>7, <1>8, <1>9, <1>10, <1>11,
     <1>12, <1>13, <1>14, <1>15, <1>17, <1>18, <1>19 DEF Next

(* Every variable of a run keeps its type. *)
THEOREM TypeCorrect == Spec => []TypeOK
  BY InitTypeOK, NextTypeOK, PTL DEF Spec

-----------------------------------------------------------------------------
(* Facts about the three loops. *)

LEMMA RangeConcat ==
  ASSUME NEW S, NEW s \in Seq(S), NEW t \in Seq(S)
  PROVE  RangeOf(s \o t) = RangeOf(s) \cup RangeOf(t)
<1>1. /\ DOMAIN s = 1..Len(s) /\ DOMAIN t = 1..Len(t)
      /\ Len(s) \in Nat /\ Len(t) \in Nat
      /\ DOMAIN (s \o t) = 1..(Len(s) + Len(t))
      /\ \A i \in 1..(Len(s) + Len(t)) :
           (s \o t)[i] = IF i <= Len(s) THEN s[i] ELSE t[i - Len(s)]
  BY ConcatProperties, LenProperties
<1>2. RangeOf(s \o t) \subseteq RangeOf(s) \cup RangeOf(t)
  BY <1>1 DEF RangeOf
<1>3. ASSUME NEW i \in DOMAIN s PROVE s[i] \in RangeOf(s \o t)
  BY <1>1, <1>3 DEF RangeOf
<1>4. ASSUME NEW i \in DOMAIN t PROVE t[i] \in RangeOf(s \o t)
  <2>1. /\ i + Len(s) \in DOMAIN (s \o t)
        /\ (s \o t)[i + Len(s)] = t[i]
    BY <1>1, <1>4
  <2>. QED  BY <2>1 DEF RangeOf
<1>5. RangeOf(s) \subseteq RangeOf(s \o t)
  BY <1>3 DEF RangeOf
<1>6. RangeOf(t) \subseteq RangeOf(s \o t)
  BY <1>4 DEF RangeOf
<1>. QED  BY <1>2, <1>5, <1>6

LEMMA RangeAppend ==
  ASSUME NEW S, NEW s \in Seq(S), NEW e \in S
  PROVE  RangeOf(Append(s, e)) = RangeOf(s) \cup {e}
<1>1. /\ DOMAIN s = 1..Len(s) /\ Len(s) \in Nat
      /\ DOMAIN Append(s, e) = 1..(Len(s) + 1)
      /\ \A i \in 1..Len(s) : Append(s, e)[i] = s[i]
      /\ Append(s, e)[Len(s) + 1] = e
  BY AppendProperties, LenProperties
<1>2. \A x \in RangeOf(Append(s, e)) : x \in RangeOf(s) \cup {e}
  BY <1>1 DEF RangeOf
<1>3. RangeOf(s) \subseteq RangeOf(Append(s, e))
  <2> SUFFICES ASSUME NEW i \in DOMAIN s PROVE s[i] \in RangeOf(Append(s, e))
    BY DEF RangeOf
  <2>. QED  BY <1>1 DEF RangeOf
<1>4. e \in RangeOf(Append(s, e))
  BY <1>1 DEF RangeOf
<1>. QED  BY <1>2, <1>3, <1>4

LEMMA RangeEmpty == ASSUME NEW S, NEW s \in Seq(S)
                    PROVE  RangeOf(s) = {} <=> s = <<>>
<1>1. DOMAIN s = 1..Len(s) /\ Len(s) \in Nat
  BY LenProperties
<1>2. s # <<>> => Len(s) \in Nat \ {0}
  BY EmptySeq
<1>3. s # <<>> => s[1] \in RangeOf(s)
  BY <1>1, <1>2 DEF RangeOf
<1>4. RangeOf(<<>>) = {}
  BY DEF RangeOf
<1>. QED  BY <1>3, <1>4

-----------------------------------------------------------------------------
(* What no step changes. *)

LEMMA InputFrozen ==
  [Next]_vars => UNCHANGED <<flag, enabled, contexts, requested>>
  BY DEF Next, vars, input, Return, LoadChecks, LoadChecksFails, NoChecks,
         CreateContexts, CreateContextsFails, MergeContext, MergeDone,
         NoValidObjects, StartRun, RunFails, RunCheck, RunDone, Summarize,
         PairOutputs, PairOutputsFails, WritePair, Conclude

LEMMA AllObjectsFrozen == [Next]_vars => AllObjects' = AllObjects
  BY InputFrozen DEF AllObjects

LEMMA ViolationsFrozen == [Next]_vars => Violations' = Violations
<1> SUFFICES ASSUME [Next]_vars PROVE Violations' = Violations
  OBVIOUS
<1>1. AllObjects' = AllObjects
  BY AllObjectsFrozen
<1>2. Due' = Due
  BY <1>1, InputFrozen DEF Due, Runs, Matches, RangeOf
<1>. QED  BY <1>1, <1>2 DEF Violations, Flagged, Slice, RangeOf

LEMMA AllObjectsType == TypeOK => AllObjects \subseteq Object
<1> SUFFICES ASSUME TypeOK, NEW i \in DOMAIN contexts
             PROVE  RangeOf(contexts[i].objects) \subseteq Object
  BY DEF AllObjects
<1>1. contexts[i] \in Context
  BY DEF TypeOK
<1>2. contexts[i].objects \in Seq(Object)
  BY <1>1 DEF Context
<1>. QED  BY <1>2 DEF RangeOf

-----------------------------------------------------------------------------
(* The merge loop. *)

LEMMA InitMergeInv == Init => MergeInv
  BY DEF Init, MergeInv

LEMMA NextMergeInv ==
  TypeOK /\ MergeInv /\ RunInv /\ [Next]_vars => MergeInv'
<1> SUFFICES ASSUME TypeOK, MergeInv, RunInv, [Next]_vars PROVE MergeInv'
  OBVIOUS
<1>1. AllObjects' = AllObjects /\ contexts' = contexts
  BY AllObjectsFrozen, InputFrozen
<1>2. CASE CreateContexts
  <2>1. at' = <<1, 1>> /\ merged'.objects = <<>> /\ pc' = "merge"
    BY <1>2 DEF CreateContexts, RunInv, Goto
  <2>2. RangeOf(merged'.objects) = {}
    BY <2>1 DEF RangeOf
  <2>3. 1..(at'[1] - 1) = {}
    BY <2>1
  <2>4. Len(contexts) \in Nat
    BY DEF TypeOK
  <2>. QED  BY <1>1, <2>1, <2>2, <2>3, <2>4 DEF MergeInv
<1>3. CASE MergeContext
  <2>. DEFINE n == at[1]
  <2>1. /\ n \in 1..Len(contexts) /\ Len(contexts) \in Nat
        /\ at'[1] = n + 1 /\ pc' = "merge" /\ pc = "merge"
    BY <1>3 DEF MergeContext, TypeOK
  <2>2. merged.objects \in Seq(Object) /\ contexts[n].objects \in Seq(Object)
    <3>1. merged \in Context /\ contexts[n] \in Context
      BY <2>1 DEF TypeOK
    <3>. QED  BY <3>1 DEF Context
  <2>3. merged'.objects = merged.objects \o contexts[n].objects
    BY <1>3 DEF MergeContext
  <2>4. RangeOf(merged'.objects)
          = RangeOf(merged.objects) \cup RangeOf(contexts[n].objects)
    BY <2>2, <2>3, RangeConcat
  <2>5. RangeOf(merged.objects) = UNION {RangeOf(contexts[i].objects) : i \in 1..(n - 1)}
    BY <2>1 DEF MergeInv
  <2>6. 1..((n + 1) - 1) = 1..(n - 1) \cup {n}
    BY <2>1
  <2>7. RangeOf(merged'.objects)
          = UNION {RangeOf(contexts[i].objects) : i \in 1..((n + 1) - 1)}
    BY <2>4, <2>5, <2>6
  <2>. QED  BY <1>1, <2>1, <2>7 DEF MergeInv
<1>4. CASE MergeDone
  <2>1. at[1] = Len(contexts) + 1 /\ 1..(at[1] - 1) = DOMAIN contexts
    BY <1>4 DEF MergeDone, Goto, MergeInv, TypeOK
  <2>2. RangeOf(merged.objects) = AllObjects
    BY <1>4, <2>1 DEF MergeDone, Goto, MergeInv, AllObjects
  <2>. QED  BY <1>1, <1>4, <2>2 DEF MergeDone, Goto, MergeInv
<1>5. CASE StartRun \/ RunCheck \/ RunDone \/ Summarize \/ PairOutputs \/ WritePair
  BY <1>1, <1>5 DEF MergeInv, StartRun, RunCheck, RunDone, Summarize, PairOutputs,
                    WritePair, Goto
<1>6. CASE pc' \in {"contexts", "exit"}
  BY <1>6 DEF MergeInv
<1>7. CASE UNCHANGED vars
  BY <1>1, <1>7 DEF vars, MergeInv
<1>. QED
  BY <1>2, <1>3, <1>4, <1>5, <1>6, <1>7
     DEF Next, LoadChecks, LoadChecksFails, NoChecks, CreateContextsFails,
         NoValidObjects, RunFails, PairOutputsFails, Conclude,
         Return, Goto

-----------------------------------------------------------------------------
(* The loop of run.Run. *)

LEMMA InitRunInv == Init => RunInv
  BY DEF Init, RunInv, RunComplete

LEMMA VisitedAtStart == TypeOK /\ at = <<1, 1>> => Visited = {}
<1> SUFFICES ASSUME TypeOK, at = <<1, 1>>,
                    NEW i \in DOMAIN merged.objects, NEW j \in DOMAIN enabled
             PROVE  ~ Early(i, j)
  BY DEF Visited
<1>1. merged \in Context
  BY DEF TypeOK
<1>2. merged.objects \in Seq(Object)
  BY <1>1 DEF Context
<1>3. i \in Nat \ {0} /\ j \in Nat \ {0}
  BY <1>2 DEF TypeOK
<1>. QED  BY <1>3 DEF Early

(* After the last object every pair of an enabled check and a manifest was
   visited. *)
LEMMA VisitedAtEnd ==
  ASSUME TypeOK, at[1] \notin DOMAIN merged.objects,
         at[1] <= Len(merged.objects) + 1, RangeOf(merged.objects) = AllObjects
  PROVE  Visited = Due
<1>1. merged \in Context
  BY DEF TypeOK
<1>2. merged.objects \in Seq(Object) /\ enabled \in Seq(Check)
  BY <1>1 DEF Context, TypeOK
<1>3. /\ DOMAIN merged.objects = 1..Len(merged.objects)
      /\ Len(merged.objects) \in Nat /\ at[1] \in Nat \ {0}
  BY <1>2 DEF TypeOK
<1>4. at[1] = Len(merged.objects) + 1
  BY <1>3
<1>5. \A i \in DOMAIN merged.objects, j \in DOMAIN enabled : Early(i, j)
  BY <1>3, <1>4 DEF Early
<1>6. ASSUME NEW f \in Visited
      PROVE  f \in Due
  <2>1. PICK i \in DOMAIN merged.objects, j \in DOMAIN enabled :
          f = <<enabled[j], merged.objects[i]>> /\ Runs(f[1], f[2])
    BY DEF Visited
  <2>2. enabled[j] \in RangeOf(enabled) /\ merged.objects[i] \in RangeOf(merged.objects)
    BY DEF RangeOf
  <2>. QED  BY <2>1, <2>2 DEF Due
<1>7. ASSUME NEW f \in RangeOf(enabled) \X AllObjects, Runs(f[1], f[2])
      PROVE  f \in Visited
  <2>1. PICK j \in DOMAIN enabled : f[1] = enabled[j]
    BY DEF RangeOf
  <2>2. f[2] \in RangeOf(merged.objects)
    OBVIOUS
  <2>3. PICK i \in DOMAIN merged.objects : f[2] = merged.objects[i]
    BY <2>2 DEF RangeOf
  <2>4. f = <<enabled[j], merged.objects[i]>>
    BY <2>1, <2>3
  <2>5. f \in Check \X Object
    BY <1>2, <2>4
  <2>. QED  BY <1>5, <1>7, <2>4, <2>5 DEF Visited
<1>. QED  BY <1>6, <1>7 DEF Due

(* One round of the loop visits exactly one pair more. *)
LEMMA VisitedStep ==
  ASSUME TypeOK, RunCheck
  PROVE  Visited' = IF Runs(enabled[at[2]], merged.objects[at[1]])
                    THEN Visited \cup {<<enabled[at[2]], merged.objects[at[1]]>>}
                    ELSE Visited
<1>. DEFINE o == merged.objects[at[1]]
            c == enabled[at[2]]
<1>1. merged \in Context
  BY DEF TypeOK
<1>2. merged.objects \in Seq(Object) /\ enabled \in Seq(Check)
  BY <1>1 DEF Context, TypeOK
<1>3. /\ at[1] \in DOMAIN merged.objects /\ at[2] \in DOMAIN enabled
      /\ merged' = merged /\ enabled' = enabled
      /\ at' = IF at[2] < Len(enabled) THEN <<at[1], at[2] + 1>> ELSE <<at[1] + 1, 1>>
  BY DEF RunCheck
<1>4. \A i \in DOMAIN merged.objects, j \in DOMAIN enabled :
        Early(i, j)' <=> Early(i, j) \/ (i = at[1] /\ j = at[2])
  BY <1>2, <1>3 DEF Early
<1>5. c \in Check /\ o \in Object
  BY <1>2, <1>3
<1>6. Visited' = {f \in Check \X Object :
         \E i \in DOMAIN merged.objects, j \in DOMAIN enabled :
            Early(i, j)' /\ f = <<enabled[j], merged.objects[i]>> /\ Runs(f[1], f[2])}
  BY <1>3 DEF Visited, Runs, Matches
<1>7. ASSUME NEW f \in Check \X Object
      PROVE  f \in Visited' <=> f \in Visited \/ (f = <<c, o>> /\ Runs(c, o))
  BY <1>3, <1>4, <1>6 DEF Visited
<1>8. Visited \subseteq Check \X Object /\ Visited' \subseteq Check \X Object
  BY <1>6 DEF Visited
<1>9. <<c, o>> \in Check \X Object
  BY <1>5
<1>. HIDE DEF o, c
<1>10. CASE Runs(c, o)
  BY <1>7, <1>8, <1>9, <1>10 DEF o, c
<1>11. CASE ~ Runs(c, o)
  BY <1>7, <1>8, <1>11 DEF o, c
<1>. QED  BY <1>10, <1>11

(* One pair more flags its own slice more. *)
LEMMA FlaggedStep ==
  ASSUME NEW F, NEW c, NEW o
  PROVE  Flagged(F \cup {<<c, o>>}) = Flagged(F) \cup RangeOf(Slice(c, o, AllObjects))
<1>. DEFINE of(f) == RangeOf(Slice(f[1], f[2], AllObjects))
            G == F \cup {<<c, o>>}
<1>1. Flagged(F) = UNION {of(f) : f \in F}
  BY DEF Flagged
<1>2. Flagged(G) = UNION {of(f) : f \in G}
  BY DEF Flagged
<1>3. of(<<c, o>>) = RangeOf(Slice(c, o, AllObjects))
  OBVIOUS
<1>. HIDE DEF of
<1>. QED  BY <1>1, <1>2, <1>3

LEMMA NextRunInv ==
  TypeOK /\ MergeInv /\ RunInv /\ [Next]_vars => RunInv'
<1> SUFFICES ASSUME TypeOK, MergeInv, RunInv, [Next]_vars PROVE RunInv'
  OBVIOUS
<1>1. /\ AllObjects' = AllObjects /\ Violations' = Violations
      /\ enabled' = enabled
  BY AllObjectsFrozen, ViolationsFrozen, InputFrozen
<1>2. merged \in Context
  BY DEF TypeOK
<1>3. /\ merged.objects \in Seq(Object) /\ Len(merged.objects) \in Nat
      /\ enabled \in Seq(Check) /\ Len(enabled) \in Nat
      /\ reports \in Seq(Report)
  BY <1>2 DEF Context, TypeOK
<1>4. CASE LoadChecks \/ CreateContexts \/ MergeContext \/ MergeDone
  BY <1>1, <1>4 DEF LoadChecks, CreateContexts, MergeContext, MergeDone, Goto,
     RunInv, RunComplete, result, input
<1>5. CASE StartRun
  <2>1. /\ pc' = "run" /\ pc = "guard" /\ at' = at /\ merged' = merged /\ at = <<1, 1>>
        /\ examined' = {} /\ reports' = <<>> /\ summary' = summary /\ ~ summary.present
        /\ enabled # <<>>
    BY <1>5 DEF StartRun, Goto, RunInv, result
  <2>2. Len(enabled) >= 1
    BY <1>3, <2>1, EmptySeq
  <2>3. Visited' = {}
    <3>1. Visited' = Visited
      BY <1>1, <2>1 DEF Visited, Early, Runs, Matches
    <3>. QED  BY <2>1, <3>1, VisitedAtStart
  <2>4. RangeOf(reports') = {} /\ Flagged({})' = {}
    BY <2>1 DEF RangeOf, Flagged
  <2>. QED  BY <1>1, <1>3, <2>1, <2>2, <2>3, <2>4 DEF RunInv, RunComplete, Flagged
<1>6. CASE RunCheck
  <2>. DEFINE o == merged.objects[at[1]]
              c == enabled[at[2]]
  <2>1. /\ pc = "run" /\ pc' = "run" /\ merged' = merged /\ summary' = summary
        /\ at[1] \in 1..Len(merged.objects) /\ at[2] \in 1..Len(enabled)
        /\ examined' = IF Runs(c, o) THEN examined \cup {<<c, o>>} ELSE examined
        /\ reports' = reports \o (IF Runs(c, o) THEN Slice(c, o, RangeOf(merged.objects)) ELSE <<>>)
        /\ at' = IF at[2] < Len(enabled) THEN <<at[1], at[2] + 1>> ELSE <<at[1] + 1, 1>>
    BY <1>3, <1>6 DEF RunCheck
  <2>2. /\ examined = Visited /\ RangeOf(reports) = Flagged(Visited)
        /\ enabled # <<>> /\ ~ summary.present
    BY <2>1 DEF RunInv
  <2>3. RangeOf(merged.objects) = AllObjects
    BY <2>1 DEF MergeInv
  <2>4. examined' = Visited'
    BY <1>6, <2>1, <2>2, VisitedStep
  <2>5. c \in Check /\ o \in Object /\ AllObjects \in SUBSET Object
    <3>1. c \in Check /\ o \in Object
      BY <1>3, <2>1
    <3>. QED  BY <3>1, AllObjectsType
  <2>6. RangeOf(reports') = Flagged(Visited)'
    <3>1. Flagged(Visited)' = Flagged(Visited')
      BY <1>1 DEF Flagged, Slice, RangeOf
    <3>2. CASE Runs(c, o)
      <4>1. RangeOf(reports') = RangeOf(reports) \cup RangeOf(Slice(c, o, AllObjects))
        <5>1. reports' = reports \o Slice(c, o, AllObjects)
          BY <2>1, <2>3, <3>2
        <5>2. Slice(c, o, AllObjects) \in Seq(Report)
          BY <2>5, SliceIsSeq
        <5>. QED  BY <1>3, <5>1, <5>2, RangeConcat
      <4>2. Visited' = Visited \cup {<<c, o>>}
        BY <1>6, <3>2, VisitedStep
      <4>3. Flagged(Visited \cup {<<c, o>>}) = Flagged(Visited) \cup RangeOf(Slice(c, o, AllObjects))
        BY FlaggedStep
      <4>. QED  BY <2>2, <3>1, <4>1, <4>2, <4>3
    <3>3. CASE ~ Runs(c, o)
      <4>1. reports' = reports
        <5>1. reports' = reports \o <<>>
          BY <2>1, <3>3
        <5>. QED  BY <1>3, <5>1, ConcatEmptySeq
      <4>2. Visited' = Visited
        BY <1>6, <3>3, VisitedStep
      <4>. QED  BY <2>2, <3>1, <4>1, <4>2
    <3>. QED  BY <3>2, <3>3
  <2>7. at'[1] <= Len(merged'.objects) + 1 /\ at'[2] <= Len(enabled')
    BY <1>1, <1>3, <2>1
  <2>. QED  BY <1>1, <2>1, <2>2, <2>4, <2>6, <2>7 DEF RunInv, RunComplete
<1>7. CASE RunDone
  <2>1. /\ pc = "run" /\ pc' = "summarize" /\ at' = <<1, 1>>
        /\ at[1] \notin DOMAIN merged.objects
        /\ examined' = examined /\ reports' = reports /\ summary' = summary
    BY <1>7 DEF RunDone, Goto, result
  <2>2. /\ at[1] <= Len(merged.objects) + 1
        /\ examined = Visited /\ RangeOf(reports) = Flagged(Visited)
        /\ enabled # <<>> /\ ~ summary.present
    BY <2>1 DEF RunInv
  <2>3. RangeOf(merged.objects) = AllObjects
    BY <2>1 DEF MergeInv
  <2>4. Visited = Due
    BY <2>1, <2>2, <2>3, VisitedAtEnd
  <2>5. Flagged(Visited) = Violations
    BY <2>4 DEF Violations
  <2>6. Due' = Due
    BY <1>1 DEF Due, Runs, Matches, RangeOf
  <2>. QED  BY <1>1, <2>1, <2>2, <2>4, <2>5, <2>6 DEF RunInv, RunComplete
<1>8. Due' = Due
  BY <1>1 DEF Due, Runs, Matches, RangeOf
<1>9. RangeOf(reports)' = RangeOf(reports')
  BY DEF RangeOf
<1>10. CASE Summarize
  BY <1>1, <1>8, <1>10 DEF Summarize, Goto, RunInv, RunComplete, result, RangeOf
<1>11. CASE PairOutputs \/ WritePair
  BY <1>1, <1>8, <1>11
     DEF PairOutputs, WritePair, Goto, RunInv, RunComplete, result, RangeOf
<1>12. CASE pc' = "exit" /\ UNCHANGED <<examined, reports, summary>>
  BY <1>1, <1>8, <1>12 DEF RunInv, RunComplete, RangeOf
<1>13. CASE UNCHANGED vars
  <2>1. Visited' = Visited
    BY <1>13 DEF vars, Visited, Early, Runs, Matches
  <2>2. Flagged(Visited)' = Flagged(Visited)
    BY <1>1, <2>1 DEF Flagged, Slice, RangeOf
  <2>3. RangeOf(reports)' = RangeOf(reports)
    BY <1>13 DEF vars, RangeOf
  <2>. QED
    BY <1>1, <1>8, <1>13, <2>1, <2>2, <2>3 DEF vars, RunInv, RunComplete
<1>. QED
  BY <1>4, <1>5, <1>6, <1>7, <1>10, <1>11, <1>12, <1>13
     DEF Next, LoadChecksFails, NoChecks, CreateContextsFails, NoValidObjects,
         RunFails, PairOutputsFails, Conclude, Return, Goto, result

-----------------------------------------------------------------------------
(* The write loop and the exit. *)

LEMMA InitOutputInv == Init => OutputInv
  BY DEF Init, OutputInv

(* An early return leaves the outputs alone; it answers "ok" or "lintErrors"
   only with a reason. *)
LEMMA ReturnOutputInv ==
  ASSUME TypeOK, OutputInv, NEW from, NEW how, Return(from, how),
         UNCHANGED <<enabled, AllObjects, requested>>,
         from # "exit", how # "none",
         how = "ok" =>
           \/ enabled = <<>> \/ AllObjects = {}
           \/ /\ summary.present /\ reports = <<>>
              /\ \A p \in DOMAIN requested : outputs[p] = "whole",
         how = "lintErrors" =>
           /\ reports # <<>>
           /\ \A p \in DOMAIN requested : outputs[p] = "whole"
  PROVE  OutputInv'
  BY DEF Return, Goto, OutputInv, result, written

LEMMA NextOutputInv ==
  TypeOK /\ MergeInv /\ RunInv /\ OutputInv /\ [Next]_vars => OutputInv'
<1> SUFFICES ASSUME TypeOK, MergeInv, RunInv, OutputInv, [Next]_vars
             PROVE  OutputInv'
  OBVIOUS
<1>1. /\ AllObjects' = AllObjects /\ enabled' = enabled
      /\ requested' = requested /\ contexts' = contexts
  BY AllObjectsFrozen, InputFrozen
<1>2. /\ DOMAIN requested = 1..Len(requested) /\ Len(requested) \in Nat
      /\ at[1] \in Nat \ {0}
  BY DEF TypeOK
<1>3. ASSUME LoadChecks \/ CreateContexts \/ MergeContext \/ MergeDone
             \/ StartRun \/ RunCheck \/ RunDone \/ Summarize
      PROVE  OutputInv'
  <2>1. /\ pc \notin {"write", "exit"} /\ pc' \notin {"write", "exit"}
        /\ UNCHANGED <<outputs, writeErrors, exit>>
    BY <1>3 DEF LoadChecks, CreateContexts, MergeContext, MergeDone, StartRun,
                RunCheck, RunDone, Summarize, Goto, written
  <2>. QED  BY <1>1, <2>1 DEF OutputInv
<1>4. CASE PairOutputs
  <2>1. /\ pc = "pair" /\ pc' = "write" /\ at' = <<1, 1>> /\ summary'.present
        /\ UNCHANGED <<outputs, writeErrors, exit>>
    BY <1>4 DEF PairOutputs, Goto, RunInv, written
  <2>. QED  BY <1>1, <1>2, <2>1 DEF OutputInv
<1>5. CASE WritePair
  <2>1. /\ pc = "write" /\ pc' = "write" /\ at[1] \in DOMAIN requested
        /\ at' = <<at[1] + 1, 1>> /\ exit' = exit /\ summary' = summary
        /\ summary.present
    BY <1>5 DEF WritePair, RunInv
  <2>2. PICK held \in {"unopened", "truncated", "unflushed", "whole"} :
          /\ outputs' = [outputs EXCEPT ![at[1]] = held]
          /\ writeErrors' = IF held = "whole" THEN writeErrors ELSE writeErrors + 1
    BY <1>5 DEF WritePair
  <2>3. DOMAIN outputs = DOMAIN requested /\ writeErrors \in Nat
    BY DEF TypeOK
  <2>4. \A p \in DOMAIN requested :
          outputs'[p] = IF p = at[1] THEN held ELSE outputs[p]
    BY <2>2, <2>3
  <2>5. at'[1] <= Len(requested') + 1
    BY <1>1, <1>2, <2>1
  <2>6. writeErrors' = 0 => held = "whole" /\ writeErrors = 0
    BY <2>2, <2>3
  <2>7. writeErrors' = 0 => \A p \in 1..(at'[1] - 1) : outputs'[p] = "whole"
    <3> SUFFICES ASSUME writeErrors' = 0, NEW p \in 1..(at'[1] - 1)
                 PROVE  outputs'[p] = "whole"
      OBVIOUS
    <3>1. p \in DOMAIN requested /\ (p = at[1] \/ p \in 1..(at[1] - 1))
      BY <1>2, <2>1
    <3>. QED  BY <2>1, <2>4, <2>6, <3>1 DEF OutputInv
  <2>8. \A p \in DOMAIN requested : p >= at'[1] => outputs'[p] = "absent"
    BY <1>2, <2>1, <2>4 DEF OutputInv
  <2>9. exit' = "none"
    BY <2>1 DEF OutputInv
  <2>. QED  BY <1>1, <2>1, <2>5, <2>7, <2>8, <2>9 DEF OutputInv
<1>6. CASE LoadChecksFails \/ CreateContextsFails \/ RunFails \/ PairOutputsFails
  BY <1>1, <1>6, ReturnOutputInv
     DEF LoadChecksFails, CreateContextsFails, RunFails, PairOutputsFails
<1>7. CASE NoChecks
  BY <1>1, <1>7, ReturnOutputInv DEF NoChecks
<1>8. CASE NoValidObjects
  <2>1. pc = "guard" /\ merged.objects = <<>>
    BY <1>8 DEF NoValidObjects, Return, Goto
  <2>2. AllObjects = {}
    BY <2>1 DEF MergeInv, RangeOf
  <2>. QED  BY <1>1, <1>8, <2>2, ReturnOutputInv DEF NoValidObjects
<1>9. CASE Conclude
  <2>1. pc = "write" /\ at[1] \notin DOMAIN requested /\ summary.present
    BY <1>9 DEF Conclude, Return, Goto, RunInv
  <2>2. at[1] = Len(requested) + 1
    BY <1>2, <2>1 DEF OutputInv
  <2>3. writeErrors = 0 => \A p \in DOMAIN requested : outputs[p] = "whole"
    <3>1. 1..(at[1] - 1) = DOMAIN requested
      BY <1>2, <2>2
    <3>. QED  BY <2>1, <3>1 DEF OutputInv
  <2>4. writeErrors \in Nat
    BY DEF TypeOK
  <2>5. CASE writeErrors > 0
    BY <1>1, <1>9, <2>5, ReturnOutputInv DEF Conclude
  <2>6. CASE writeErrors = 0 /\ reports # <<>>
    BY <1>1, <1>9, <2>3, <2>6, ReturnOutputInv DEF Conclude
  <2>7. CASE writeErrors = 0 /\ reports = <<>>
    BY <1>1, <1>9, <2>1, <2>3, <2>7, ReturnOutputInv DEF Conclude
  <2>. QED  BY <2>4, <2>5, <2>6, <2>7
<1>10. CASE UNCHANGED vars
  BY <1>1, <1>10 DEF vars, OutputInv
<1>. QED
  BY <1>3, <1>4, <1>5, <1>6, <1>7, <1>8, <1>9, <1>10 DEF Next

-----------------------------------------------------------------------------
(* The theorems. *)

(* What every loop of RunE has done so far, at any point of any run. *)
THEOREM Inductive == Spec => []IInv
<1>1. Init => IInv
  BY InitTypeOK, InitMergeInv, InitRunInv, InitOutputInv DEF IInv
<1>2. IInv /\ [Next]_vars => IInv'
  BY NextTypeOK, NextMergeInv, NextRunInv, NextOutputInv DEF IInv
<1>. QED  BY <1>1, <1>2, PTL DEF Spec

(* A complete run reports exactly the violations of the union of all
   contexts, however the manifests were split into them (merge.go). *)
THEOREM WholeSetReported == Spec => []ReportsWholeSet
<1>1. IInv => ReportsWholeSet
  BY DEF IInv, RunInv, ReportsWholeSet
<1>. QED  BY <1>1, Inductive, PTL

(* Exit status 0 means that everything was looked at, nothing was found and
   every requested output is whole (the tail of RunE in command.go). *)
THEOREM CleanExitTrustworthy == Spec => []CleanExitIsTrustworthy
<1>1. IInv => CleanExitIsTrustworthy
  <2> SUFFICES ASSUME IInv, exit = "ok", enabled # <<>>, AllObjects # {}
               PROVE  /\ \A c \in RangeOf(enabled), o \in AllObjects :
                           Runs(c, o) => <<c, o>> \in examined
                      /\ Violations = {}
                      /\ \A p \in DOMAIN requested : outputs[p] = "whole"
    BY DEF CleanExitIsTrustworthy
  <2>1. /\ summary.present /\ reports = <<>>
        /\ \A p \in DOMAIN requested : outputs[p] = "whole"
    BY DEF IInv, OutputInv
  <2>2. examined = Due /\ RangeOf(reports) = Violations
    BY <2>1 DEF IInv, RunInv, RunComplete
  <2>3. Violations = {}
    BY <2>1, <2>2 DEF RangeOf
  <2>. QED  BY <2>1, <2>2, <2>3 DEF Due
<1>. QED  BY <1>1, Inductive, PTL

-----------------------------------------------------------------------------
(* The outputs, counted. *)

FailedBefore(n) == {p \in 1..(n - 1) : outputs[p] # "whole"}

AccountInv ==
  /\ pc = "write" =>
       /\ \A p \in DOMAIN requested : p < at[1] => outputs[p] # "absent"
       /\ writeErrors = Cardinality(FailedBefore(at[1]))
  /\ OutputsAccountedFor

LEMMA NextInv == IInv /\ [Next]_vars => IInv'
  BY NextTypeOK, NextMergeInv, NextRunInv, NextOutputInv DEF IInv

LEMMA WritePairAccount ==
  ASSUME IInv, AccountInv, IInv', WritePair PROVE AccountInv'
<1>. DEFINE n == at[1]
<1>1. /\ pc = "write" /\ pc' = "write" /\ n \in DOMAIN requested
      /\ requested' = requested /\ at'[1] = n + 1
  BY DEF WritePair, input
<1>2. PICK held \in {"unopened", "truncated", "unflushed", "whole"} :
        /\ outputs' = [outputs EXCEPT ![n] = held]
        /\ writeErrors' = IF held = "whole" THEN writeErrors ELSE writeErrors + 1
  BY DEF WritePair
<1>3. /\ DOMAIN requested = 1..Len(requested) /\ Len(requested) \in Nat
      /\ DOMAIN outputs = DOMAIN requested /\ n \in Nat \ {0}
  BY DEF IInv, TypeOK
<1>4. \A p \in DOMAIN requested : outputs'[p] = IF p = n THEN held ELSE outputs[p]
  BY <1>2, <1>3
<1>5. \A p \in DOMAIN requested : p < at'[1] => outputs'[p] # "absent"
  BY <1>1, <1>3, <1>4 DEF AccountInv
<1>6. FailedBefore(at[1])' = IF held = "whole" THEN FailedBefore(n) ELSE FailedBefore(n) \cup {n}
  <2>1. FailedBefore(at[1])' = {p \in 1..n : outputs'[p] # "whole"}
    BY <1>1, <1>3 DEF FailedBefore
  <2>2. \A p : p \in 1..n <=> p \in 1..(n - 1) \/ p = n
    BY <1>3
  <2>3. \A p \in 1..(n - 1) : outputs'[p] = outputs[p]
    BY <1>1, <1>3, <1>4
  <2>4. outputs'[n] = held
    BY <1>1, <1>4
  <2>. QED  BY <2>1, <2>2, <2>3, <2>4 DEF FailedBefore
<1>7. IsFiniteSet(FailedBefore(n)) /\ n \notin FailedBefore(n)
  <2>1. IsFiniteSet(1..(n - 1))
    BY <1>3, FS_Interval
  <2>2. FailedBefore(n) \in SUBSET (1..(n - 1))
    BY DEF FailedBefore
  <2>. QED  BY <1>3, <2>1, <2>2, FS_Subset
<1>8. writeErrors' = Cardinality(FailedBefore(at[1])')
  BY <1>1, <1>2, <1>6, <1>7, FS_AddElement DEF AccountInv
<1>9. exit' = "none"
  BY <1>1 DEF IInv, OutputInv
<1>. QED  BY <1>1, <1>5, <1>8, <1>9 DEF AccountInv, OutputsAccountedFor

LEMMA ConcludeAccount ==
  ASSUME IInv, AccountInv, Conclude PROVE AccountInv'
<1>1. /\ pc = "write" /\ pc' = "exit" /\ at[1] \notin DOMAIN requested
      /\ UNCHANGED <<requested, outputs, writeErrors>>
  BY DEF Conclude, Return, Goto, input, written
<1>2. /\ DOMAIN requested = 1..Len(requested) /\ Len(requested) \in Nat
      /\ at[1] \in Nat \ {0} /\ at[1] <= Len(requested) + 1
  BY <1>1 DEF IInv, TypeOK, OutputInv
<1>3. 1..(at[1] - 1) = DOMAIN requested /\ \A p \in DOMAIN requested : p < at[1]
  BY <1>1, <1>2
<1>4. /\ \A p \in DOMAIN requested : outputs[p] # "absent"
      /\ writeErrors = Cardinality({p \in DOMAIN requested : outputs[p] # "whole"})
  BY <1>1, <1>3 DEF AccountInv, FailedBefore
<1>. QED  BY <1>1, <1>4 DEF AccountInv, OutputsAccountedFor

LEMMA NextAccount ==
  ASSUME IInv, AccountInv, [Next]_vars PROVE AccountInv'
<1>1. IInv'
  BY NextInv
<1>2. CASE WritePair
  BY <1>1, <1>2, WritePairAccount
<1>3. CASE Conclude
  BY <1>3, ConcludeAccount
<1>4. CASE PairOutputs
  <2>1. /\ pc' = "write" /\ at' = <<1, 1>> /\ writeErrors' = 0 /\ exit' = "none"
        /\ requested' = requested
    BY <1>1, <1>4 DEF PairOutputs, Goto, IInv, RunInv, OutputInv, written, input
  <2>2. FailedBefore(at[1])' = {}
    BY <2>1 DEF FailedBefore
  <2>3. \A p \in DOMAIN requested : ~(p < 1)
    BY DEF IInv, TypeOK
  <2>. QED  BY <2>1, <2>2, <2>3, FS_EmptySet DEF AccountInv, OutputsAccountedFor
<1>5. CASE LoadChecks \/ CreateContexts \/ MergeContext \/ MergeDone \/ StartRun
           \/ RunCheck \/ RunDone \/ Summarize
  <2>1. pc' \notin {"write", "exit"}
    BY <1>5 DEF LoadChecks, CreateContexts, MergeContext, MergeDone, StartRun, RunCheck,
                RunDone, Summarize, Goto
  <2>2. exit' = "none"
    BY <1>1, <2>1 DEF IInv, OutputInv
  <2>. QED  BY <2>1, <2>2 DEF AccountInv, OutputsAccountedFor
<1>6. CASE LoadChecksFails \/ CreateContextsFails \/ RunFails \/ PairOutputsFails
  BY <1>6 DEF LoadChecksFails, CreateContextsFails, RunFails, PairOutputsFails,
              Return, Goto, AccountInv, OutputsAccountedFor
<1>7. CASE NoChecks \/ NoValidObjects
  <2>1. pc \in {"checks", "guard"} /\ pc' = "exit" /\ summary' = summary
    BY <1>7 DEF NoChecks, NoValidObjects, Return, Goto
  <2>2. ~summary.present
    BY <2>1 DEF IInv, RunInv
  <2>. QED  BY <2>1, <2>2 DEF AccountInv, OutputsAccountedFor
<1>8. CASE UNCHANGED vars
  BY <1>8 DEF vars, AccountInv, OutputsAccountedFor, FailedBefore
<1>. QED
  BY <1>2, <1>3, <1>4, <1>5, <1>6, <1>7, <1>8 DEF Next

(* One output that fails costs no other one and is always counted: after the
   write loop every requested pair was attempted and writeErrors is the number of
   outputs that are not whole (command.go, the loop over pairs). *)
THEOREM OutputsCounted == Spec => []OutputsAccountedFor
<1>1. Init => AccountInv
  BY DEF Init, AccountInv, OutputsAccountedFor
<1>2. IInv /\ AccountInv /\ [Next]_vars => AccountInv'
  BY NextAccount
<1>3. AccountInv => OutputsAccountedFor
  BY DEF AccountInv
<1>. QED  BY <1>1, <1>2, <1>3, Inductive, PTL DEF Spec

-----------------------------------------------------------------------------
(* The findings and the summary, counted, for a set in which nothing was loaded
   twice. *)

Once(s) == \A i, j \in DOMAIN s : s[i] = s[j] => i = j

LEMMA OnceConcat ==
  ASSUME NEW S, NEW s \in Seq(S), NEW t \in Seq(S), Once(s), Once(t),
         RangeOf(s) \cap RangeOf(t) = {}
  PROVE  Once(s \o t)
<1>1. /\ DOMAIN s = 1..Len(s) /\ DOMAIN t = 1..Len(t)
      /\ Len(s) \in Nat /\ Len(t) \in Nat
      /\ DOMAIN (s \o t) = 1..(Len(s) + Len(t))
      /\ \A i \in 1..(Len(s) + Len(t)) :
           (s \o t)[i] = IF i <= Len(s) THEN s[i] ELSE t[i - Len(s)]
  BY ConcatProperties, LenProperties
<1>2. \A i \in DOMAIN s, j \in DOMAIN t : s[i] # t[j]
  BY DEF RangeOf
<1> SUFFICES ASSUME NEW i \in DOMAIN (s \o t), NEW j \in DOMAIN (s \o t),
                    (s \o t)[i] = (s \o t)[j]
             PROVE  i = j
  BY DEF Once
<1>3. CASE i <= Len(s) /\ j <= Len(s)
  BY <1>1, <1>3 DEF Once
<1>4. CASE i > Len(s) /\ j > Len(s)
  <2>1. i - Len(s) \in DOMAIN t /\ j - Len(s) \in DOMAIN t
    BY <1>1, <1>4
  <2>2. t[i - Len(s)] = t[j - Len(s)]
    BY <1>1, <1>4
  <2>3. i - Len(s) = j - Len(s)
    BY <2>1, <2>2 DEF Once
  <2>. QED  BY <1>1, <2>3
<1>5. CASE i <= Len(s) /\ j > Len(s)
  <2>1. i \in DOMAIN s /\ j - Len(s) \in DOMAIN t /\ s[i] = t[j - Len(s)]
    BY <1>1, <1>5
  <2>. QED  BY <1>2, <2>1
<1>6. CASE i > Len(s) /\ j <= Len(s)
  <2>1. j \in DOMAIN s /\ i - Len(s) \in DOMAIN t /\ s[j] = t[i - Len(s)]
    BY <1>1, <1>6
  <2>. QED  BY <1>2, <2>1
<1>. QED  BY <1>1, <1>3, <1>4, <1>5, <1>6

LEMMA OnceAppend ==
  ASSUME NEW S, NEW s \in Seq(S), NEW x \in S, Once(s), x \notin RangeOf(s)
  PROVE  Once(Append(s, x))
<1>1. /\ DOMAIN s = 1..Len(s) /\ Len(s) \in Nat
      /\ DOMAIN Append(s, x) = 1..(Len(s) + 1)
      /\ \A i \in 1..Len(s) : Append(s, x)[i] = s[i]
      /\ Append(s, x)[Len(s) + 1] = x
  BY AppendProperties, LenProperties
<1>2. \A i \in DOMAIN s : s[i] # x
  BY DEF RangeOf
<1>. QED  BY <1>1, <1>2 DEF Once

(* Positions and what stands there are equally many. *)
LEMMA CardImage ==
  ASSUME NEW S, NEW s \in Seq(S), Once(s), NEW D \in SUBSET DOMAIN s
  PROVE  Cardinality({s[i] : i \in D}) = Cardinality(D)
<1>. DEFINE f == [i \in D |-> s[i]]
            T == {s[i] : i \in D}
<1>1. IsFiniteSet(D)
  <2>1. DOMAIN s = 1..Len(s) /\ Len(s) \in Nat
    OBVIOUS
  <2>2. IsFiniteSet(DOMAIN s)
    BY <2>1, FS_Interval
  <2>. QED  BY <2>2, FS_Subset
<1>2. f \in Injection(D, T)
  <2>1. f \in [D -> T]
    OBVIOUS
  <2>2. \A i, j \in D : f[i] = f[j] => i = j
    BY DEF Once
  <2>. QED  BY <2>1, <2>2 DEF Injection, IsInjective
<1>3. f \in Surjection(D, T)
  BY DEF Surjection
<1>4. ExistsBijection(D, T)
  BY <1>2, <1>3 DEF ExistsBijection, Bijection
<1>. QED  BY <1>1, <1>4, FS_Bijection

CountsByKind ==
  [k \in {KindAt(i) : i \in CheckedAt} |-> Cardinality({i \in CheckedAt : KindAt(i) = k})]

OnceInv ==
  /\ LoadedOnce => Once(merged.objects)
  /\ LoadedOnce /\ EnabledOnce => Once(reports)
  /\ summary.present =>
       /\ RangeOf(merged.objects) = AllObjects
       /\ summary.checked = Cardinality(CheckedAt)
       /\ summary.checkedByKind = CountsByKind

LEMMA OnceFrozen ==
  [Next]_vars => (LoadedOnce' <=> LoadedOnce) /\ (EnabledOnce' <=> EnabledOnce)
  BY InputFrozen DEF LoadedOnce, EnabledOnce

LEMMA MergeContextOnce ==
  ASSUME IInv, OnceInv, MergeContext, LoadedOnce PROVE Once(merged'.objects)
<1>. DEFINE n == at[1]
<1>1. /\ pc = "merge" /\ n \in DOMAIN contexts /\ n \in Nat \ {0}
      /\ merged'.objects = merged.objects \o contexts[n].objects
  BY DEF MergeContext, IInv, TypeOK
<1>2. merged.objects \in Seq(Object) /\ contexts[n].objects \in Seq(Object)
  <2>1. merged \in Context /\ contexts[n] \in Context
    BY <1>1 DEF IInv, TypeOK
  <2>. QED  BY <2>1 DEF Context
<1>3. Once(contexts[n].objects)
  BY <1>1 DEF LoadedOnce, Once
<1>4. \A c \in 1..(n - 1) : RangeOf(contexts[c].objects) \cap RangeOf(contexts[n].objects) = {}
  <2> SUFFICES ASSUME NEW c \in 1..(n - 1), NEW i \in DOMAIN contexts[c].objects,
                      NEW j \in DOMAIN contexts[n].objects,
                      contexts[c].objects[i] = contexts[n].objects[j]
               PROVE  FALSE
    BY DEF RangeOf
  <2>1. c \in DOMAIN contexts /\ c # n
    <3>1. DOMAIN contexts = 1..Len(contexts) /\ Len(contexts) \in Nat
      BY DEF IInv, TypeOK
    <3>. QED  BY <1>1, <3>1
  <2>. QED  BY <1>1, <2>1 DEF LoadedOnce
<1>5. RangeOf(merged.objects) \cap RangeOf(contexts[n].objects) = {}
  <2>1. RangeOf(merged.objects) = UNION {RangeOf(contexts[c].objects) : c \in 1..(n - 1)}
    BY <1>1 DEF IInv, MergeInv
  <2>. QED  BY <1>4, <2>1
<1>. QED  BY <1>1, <1>2, <1>3, <1>5, OnceConcat DEF OnceInv

(* The pair the loop is at was not visited before. *)
LEMMA CurrentUnvisited ==
  ASSUME IInv, OnceInv, RunCheck, LoadedOnce, EnabledOnce
  PROVE  <<enabled[at[2]], merged.objects[at[1]]>> \notin Visited
<1> SUFFICES ASSUME NEW i \in DOMAIN merged.objects, NEW j \in DOMAIN enabled, Early(i, j),
                    <<enabled[at[2]], merged.objects[at[1]]>> = <<enabled[j], merged.objects[i]>>
             PROVE  FALSE
  BY DEF Visited
<1>1. at[1] \in DOMAIN merged.objects /\ at[2] \in DOMAIN enabled
  BY DEF RunCheck
<1>2. i = at[1] /\ j = at[2]
  BY <1>1 DEF OnceInv, Once, EnabledOnce
<1>3. at[1] \in Nat /\ at[2] \in Nat
  BY DEF IInv, TypeOK
<1>. QED  BY <1>2, <1>3 DEF Early

LEMMA RunCheckOnce ==
  ASSUME IInv, OnceInv, RunCheck, LoadedOnce, EnabledOnce PROVE Once(reports')
<1>. DEFINE o == merged.objects[at[1]]
            c == enabled[at[2]]
            slice == IF Runs(c, o) THEN Slice(c, o, AllObjects) ELSE <<>>
<1>1. /\ pc = "run"
      /\ at[1] \in DOMAIN merged.objects /\ at[2] \in DOMAIN enabled
      /\ reports' = reports \o slice
  <2>1. pc = "run"
    BY DEF RunCheck
  <2>2. RangeOf(merged.objects) = AllObjects
    BY <2>1 DEF IInv, MergeInv
  <2>. QED  BY <2>2 DEF RunCheck
<1>2. c \in Check /\ o \in Object /\ AllObjects \in SUBSET Object
  <2>1. merged.objects \in Seq(Object) /\ enabled \in Seq(Check)
    BY DEF IInv, TypeOK, Context
  <2>. QED  BY <1>1, <2>1, AllObjectsType DEF IInv
<1>3. slice \in Seq(Report) /\ Once(slice)
      /\ \A r \in RangeOf(slice) : r[1] = c /\ r[2] = o
  <2>1. CASE Runs(c, o)
    <3>1. /\ Slice(c, o, AllObjects) \in Seq(Report)
          /\ DOMAIN Slice(c, o, AllObjects) = 1..Finds[c][AllObjects][o]
          /\ \A i \in 1..Finds[c][AllObjects][o] : Slice(c, o, AllObjects)[i] = <<c, o, i>>
      BY <1>2, SliceIsSeq
    <3>2. slice = Slice(c, o, AllObjects)
      BY <2>1
    <3>. HIDE DEF c, o, slice
    <3>3. Once(slice)
      <4> SUFFICES ASSUME NEW i \in DOMAIN slice, NEW j \in DOMAIN slice, slice[i] = slice[j]
                   PROVE  i = j
        BY DEF Once
      <4>1. slice[i] = <<c, o, i>> /\ slice[j] = <<c, o, j>>
        BY <3>1, <3>2
      <4>2. <<c, o, i>>[3] = i /\ <<c, o, j>>[3] = j
        OBVIOUS
      <4>. QED  BY <4>1, <4>2
    <3>4. \A r \in RangeOf(slice) : r[1] = c /\ r[2] = o
      BY <3>1, <3>2 DEF RangeOf
    <3>. QED  BY <3>1, <3>2, <3>3, <3>4
  <2>2. CASE ~Runs(c, o)
    <3>1. slice = <<>>
      BY <2>2
    <3>. HIDE DEF c, o, slice
    <3>2. DOMAIN slice = {}
      BY <3>1
    <3>5. slice \in Seq(Report)
      BY <3>1
    <3>3. RangeOf(slice) = {}
      BY <3>2 DEF RangeOf
    <3>4. Once(slice)
      BY <3>2 DEF Once
    <3>. QED  BY <3>3, <3>4, <3>5
  <2>. QED  BY <2>1, <2>2
<1>4. Once(reports) /\ reports \in Seq(Report)
  BY DEF OnceInv, IInv, TypeOK
<1>5. \A r \in RangeOf(reports) : <<r[1], r[2]>> \in Visited
  <2>1. RangeOf(reports) = Flagged(Visited)
    BY <1>1 DEF IInv, RunInv
  <2>2. ASSUME NEW f \in Visited, NEW r \in RangeOf(Slice(f[1], f[2], AllObjects))
        PROVE  <<r[1], r[2]>> \in Visited
    <3>1. r[1] = f[1] /\ r[2] = f[2]
      <4>1. f[1] \in Check /\ f[2] \in Object
        BY DEF Visited
      <4>2. PICK i : r = <<f[1], f[2], i>>
        BY <1>2, <2>2, <4>1, SliceIsSeq
      <4>. QED  BY <4>2
    <3>2. f = <<f[1], f[2]>>
      BY DEF Visited
    <3>. QED  BY <3>1, <3>2
  <2>. QED  BY <2>1, <2>2 DEF Flagged
<1>6. <<c, o>> \notin Visited
  BY CurrentUnvisited
<1>. HIDE DEF o, c, slice
<1>7. RangeOf(reports) \cap RangeOf(slice) = {}
  BY <1>3, <1>5, <1>6
<1>8. Once(reports \o slice)
  BY <1>3, <1>4, <1>7, OnceConcat
<1>. QED  BY <1>1, <1>8

LEMMA NextOnce == ASSUME IInv, OnceInv, [Next]_vars PROVE OnceInv'
<1>1. /\ LoadedOnce' <=> LoadedOnce
      /\ EnabledOnce' <=> EnabledOnce
      /\ AllObjects' = AllObjects /\ enabled' = enabled
  BY OnceFrozen, AllObjectsFrozen, InputFrozen
<1>2. CASE MergeContext
  <2>1. LoadedOnce => Once(merged'.objects)
    BY <1>2, MergeContextOnce
  <2>2. reports' = reports /\ summary' = summary /\ pc = "merge"
    BY <1>2 DEF MergeContext, result
  <2>3. ~summary.present
    BY <2>2 DEF IInv, RunInv
  <2>. QED  BY <1>1, <2>1, <2>2, <2>3 DEF OnceInv
<1>3. CASE RunCheck
  <2>1. LoadedOnce /\ EnabledOnce => Once(reports')
    BY <1>3, RunCheckOnce
  <2>2. merged' = merged /\ summary' = summary /\ pc = "run"
    BY <1>3 DEF RunCheck
  <2>3. ~summary.present
    BY <2>2 DEF IInv, RunInv
  <2>. QED  BY <1>1, <2>1, <2>2, <2>3 DEF OnceInv
<1>4. CASE Summarize
  <2>1. /\ pc = "summarize" /\ merged' = merged /\ reports' = reports
        /\ summary'.checked = Cardinality(CheckedAt)
        /\ summary'.checkedByKind = CountsByKind
    BY <1>4 DEF Summarize, Goto, result, CountsByKind
  <2>2. RangeOf(merged.objects) = AllObjects
    BY <2>1 DEF IInv, MergeInv
  <2>3. CheckedAt' = CheckedAt /\ CountsByKind' = CountsByKind
    BY <1>1, <2>1 DEF CheckedAt, CountsByKind, InScope, KindAt, Matches
  <2>. QED  BY <1>1, <2>1, <2>2, <2>3 DEF OnceInv
<1>5. ASSUME UNCHANGED <<merged, reports, summary>> PROVE OnceInv'
  <2>1. CheckedAt' = CheckedAt /\ CountsByKind' = CountsByKind
    BY <1>1, <1>5 DEF CheckedAt, CountsByKind, InScope, KindAt, Matches
  <2>. QED  BY <1>1, <1>5, <2>1 DEF OnceInv
<1>. QED
  BY <1>2, <1>3, <1>4, <1>5
     DEF Next, vars, LoadChecks, LoadChecksFails, NoChecks, CreateContexts,
         CreateContextsFails, MergeDone, NoValidObjects, StartRun, RunFails, RunDone,
         PairOutputs, PairOutputsFails, WritePair, Conclude,
         Return, Goto, result

LEMMA OnceInvariance == Spec => [](IInv /\ OnceInv)
<1>1. Init => OnceInv
  BY DEF Init, OnceInv, Once
<1>2. IInv /\ OnceInv /\ [Next]_vars => OnceInv'
  BY NextOnce
<1>. QED  BY <1>1, <1>2, Inductive, PTL DEF Spec

(* No finding is counted twice, provided no object was loaded twice and no check
   is enabled twice ("found %d lint errors" in command.go). *)
THEOREM FindingsCounted == Spec => []EachReportOnce
<1>1. IInv /\ OnceInv => EachReportOnce
  <2> SUFFICES ASSUME IInv, OnceInv, RunComplete, LoadedOnce, EnabledOnce
               PROVE  Len(reports) = Cardinality(Violations)
    BY DEF EachReportOnce
  <2>1. reports \in Seq(Report) /\ Once(reports) /\ RangeOf(reports) = Violations
    BY DEF IInv, TypeOK, OnceInv, RunInv
  <2>2. DOMAIN reports = 1..Len(reports) /\ Len(reports) \in Nat
    BY <2>1
  <2>3. Cardinality({reports[i] : i \in DOMAIN reports}) = Cardinality(DOMAIN reports)
    BY <2>1, CardImage
  <2>4. Cardinality(1..Len(reports)) = Len(reports)
    <3>1. \A n \in Nat : Cardinality(1..n) = n
      <4> TAKE n \in Nat
      <4>1. Cardinality(1..n) = IF 1 > n THEN 0 ELSE n - 1 + 1
        BY FS_Interval
      <4>. QED  BY <4>1
    <3>. QED  BY <2>2, <3>1
  <2>. QED  BY <2>1, <2>2, <2>3, <2>4 DEF RangeOf
<1>. QED  BY <1>1, OnceInvariance, PTL

(* The summary's own count of the objects it calls checked is that of the objects
   some check function was run on and of those told to ignore every check that
   matches them, in all and for every kind (scanned.go, "Checked is how many
   objects a check was actually run against"). *)
THEOREM SummaryCounts == Spec => []SummaryMatchesRun
<1>1. IInv /\ OnceInv => SummaryMatchesRun
  <2> SUFFICES ASSUME IInv, OnceInv, summary.present, LoadedOnce
               PROVE  LET matching(o) == {c \in RangeOf(enabled) : Matches(c, o)}
                          silenced == {o \in AllObjects :
                                         matching(o) # {} /\ matching(o) \subseteq Ignored[o]}
                          counted == {f[2] : f \in examined} \cup silenced
                      IN
                      /\ summary.checked = Cardinality(counted)
                      /\ \A k \in Kind :
                           Cardinality({o \in counted : KindOf[GvkOf[o]] = k}) =
                             IF k \in DOMAIN summary.checkedByKind
                             THEN summary.checkedByKind[k] ELSE 0
    BY DEF SummaryMatchesRun
  <2>. DEFINE matching(o) == {c \in RangeOf(enabled) : Matches(c, o)}
              silenced == {o \in AllObjects :
                             matching(o) # {} /\ matching(o) \subseteq Ignored[o]}
              counted == {f[2] : f \in examined} \cup silenced
              s == merged.objects
              of(k) == {i \in CheckedAt : KindAt(i) = k}
  <2>1. s \in Seq(Object) /\ Once(s) /\ RangeOf(s) = AllObjects
    BY DEF IInv, TypeOK, Context, OnceInv
  <2>2. examined = Due
    BY DEF IInv, RunInv, RunComplete
  <2>3. counted = {o \in AllObjects : InScope(o)}
    <3>1. ASSUME NEW f \in examined PROVE f[2] \in AllObjects /\ InScope(f[2])
      BY <2>2 DEF InScope, Due, Runs
    <3>2. ASSUME NEW o \in silenced PROVE o \in AllObjects /\ InScope(o)
      BY DEF InScope
    <3>3. ASSUME NEW o \in AllObjects, InScope(o) PROVE o \in counted
      <4>1. CASE \A c \in RangeOf(enabled) : ~Runs(c, o)
        BY <3>3, <4>1 DEF InScope, Runs
      <4>2. CASE \E c \in RangeOf(enabled) : Runs(c, o)
        <5>1. PICK c \in RangeOf(enabled) : Runs(c, o)
          BY <4>2
        <5>2. <<c, o>> \in examined
          BY <2>2, <5>1 DEF Due
        <5>3. <<c, o>>[2] = o
          OBVIOUS
        <5>. QED  BY <5>2, <5>3
      <4>. QED  BY <4>1, <4>2
    <3>. QED  BY <3>1, <3>2, <3>3
  <2>. HIDE DEF silenced, counted
  <2>4. counted = {s[i] : i \in CheckedAt}
    BY <2>1, <2>3 DEF CheckedAt, RangeOf
  <2>5. CheckedAt \in SUBSET DOMAIN s
    BY DEF CheckedAt
  <2>6. summary.checked = Cardinality(counted)
    BY <2>1, <2>4, <2>5, CardImage DEF OnceInv
  <2>7. ASSUME NEW k \in Kind
        PROVE  Cardinality({o \in counted : KindOf[GvkOf[o]] = k}) =
                 IF k \in DOMAIN summary.checkedByKind
                 THEN summary.checkedByKind[k] ELSE 0
    <3>1. {o \in counted : KindOf[GvkOf[o]] = k} = {s[i] : i \in of(k)}
      BY <2>4 DEF KindAt
    <3>2. of(k) \in SUBSET DOMAIN s
      BY <2>5
    <3>3. Cardinality({o \in counted : KindOf[GvkOf[o]] = k}) = Cardinality(of(k))
      BY <2>1, <3>1, <3>2, CardImage
    <3>4. summary.checkedByKind = [m \in {KindAt(i) : i \in CheckedAt} |->
                                    Cardinality({i \in CheckedAt : KindAt(i) = m})]
      BY DEF OnceInv, CountsByKind
    <3>5. CASE k \in {KindAt(i) : i \in CheckedAt}
      BY <3>3, <3>4, <3>5
    <3>6. CASE k \notin {KindAt(i) : i \in CheckedAt}
      <4>1. of(k) = {}
        BY <3>6
      <4>. QED  BY <3>3, <3>4, <3>6, <4>1, FS_EmptySet
    <3>. QED  BY <3>5, <3>6
  <2>. QED  BY <2>6, <2>7 DEF counted, silenced
<1>. QED  BY <1>1, OnceInvariance, PTL

-----------------------------------------------------------------------------
(* The refinement: seen through Document and Verdict a run is a LintVerdict. *)

LEMMA PromisedViolations == TypeOK => Promise!Violations = Violations
<1> SUFFICES ASSUME TypeOK PROVE Promise!Violations = Violations
  OBVIOUS
<1>1. AllObjects \in SUBSET Object /\ RangeOf(enabled) \subseteq Check
  BY AllObjectsType DEF TypeOK, RangeOf
<1>. DEFINE of(f) == {<<f[1], f[2], i>> : i \in 1..JudgedFinds[f[1]][AllObjects][f[2]]}
            pairs == RangeOf(enabled) \X AllObjects
<1>2. ASSUME NEW f \in pairs
      PROVE  of(f) = IF Runs(f[1], f[2]) THEN RangeOf(Slice(f[1], f[2], AllObjects)) ELSE {}
  <2>1. f[1] \in Check /\ f[2] \in Object
    BY <1>1
  <2>2. JudgedFinds[f[1]][AllObjects][f[2]]
          = IF Runs(f[1], f[2]) THEN Finds[f[1]][AllObjects][f[2]] ELSE 0
    BY <1>1, <2>1 DEF JudgedFinds
  <2>3. CASE Runs(f[1], f[2])
    <3>1. RangeOf(Slice(f[1], f[2], AllObjects))
            = {<<f[1], f[2], i>> : i \in 1..Finds[f[1]][AllObjects][f[2]]}
      BY <1>1, <2>1, SliceIsSeq
    <3>. QED  BY <2>2, <2>3, <3>1
  <2>4. CASE ~Runs(f[1], f[2])
    <3>1. JudgedFinds[f[1]][AllObjects][f[2]] = 0
      BY <2>2, <2>4
    <3>2. 1..0 = {}
      OBVIOUS
    <3>. QED  BY <2>4, <3>1, <3>2
  <2>. QED  BY <2>3, <2>4
<1>3. Promise!Violations = UNION {of(f) : f \in pairs}
  BY DEF Promise!Violations
<1>4. Violations = UNION {RangeOf(Slice(f[1], f[2], AllObjects)) : f \in Due}
  BY DEF Violations, Flagged
<1>5. \A f : f \in Due <=> f \in pairs /\ Runs(f[1], f[2])
  BY DEF Due
<1>. HIDE DEF of, pairs
<1>. QED  BY <1>2, <1>3, <1>4, <1>5

LEMMA InitPromise == Init => Promise!Init
<1> SUFFICES ASSUME Init PROVE Promise!Init
  OBVIOUS
<1>1. TypeOK
  BY InitTypeOK
<1>2. AllObjects \in SUBSET Object
  BY <1>1, AllObjectsType
<1>3. RangeOf(enabled) \in SUBSET Check
  BY <1>1 DEF TypeOK, RangeOf
<1>4. Document = <<>>
  BY DEF Document, Init
<1>5. Verdict = "none"
  BY DEF Verdict, Init
<1>. QED  BY <1>2, <1>3, <1>4, <1>5 DEF Promise!Init

(* While nothing is whole, nothing is published. *)
LEMMA DocumentAbsent ==
  ASSUME \A p \in DOMAIN outputs : outputs[p] # "whole"
  PROVE  Document = <<>>
  BY DEF Document

LEMMA NextPromise ==
  IInv /\ [Next]_vars => [Promise!Next]_(Promise!vars)
<1> SUFFICES ASSUME IInv, [Next]_vars
             PROVE  Promise!Next \/ UNCHANGED Promise!vars
  OBVIOUS
<1>1. /\ AllObjects' = AllObjects /\ enabled' = enabled /\ requested' = requested
      /\ RangeOf(enabled)' = RangeOf(enabled)
  BY AllObjectsFrozen, InputFrozen DEF RangeOf
<1>2. TypeOK /\ MergeInv /\ RunInv /\ OutputInv
  BY DEF IInv
<1>3. DOMAIN outputs = DOMAIN requested
  BY <1>2 DEF TypeOK
<1>4. pc # "exit" => Verdict = "none"
  BY <1>2 DEF OutputInv, Verdict
<1>5. pc \notin {"write", "exit"} => Document = <<>>
  BY <1>2, <1>3 DEF OutputInv, Document
<1>6. ASSUME LoadChecks \/ CreateContexts \/ MergeContext \/ MergeDone
             \/ StartRun \/ RunCheck \/ RunDone \/ Summarize \/ PairOutputs
      PROVE  UNCHANGED Promise!vars
  <2>1. /\ pc \notin {"write", "exit"} /\ UNCHANGED <<outputs, exit>>
    BY <1>6 DEF LoadChecks, CreateContexts, MergeContext, MergeDone, StartRun,
                RunCheck, RunDone, Summarize, PairOutputs, Goto, written
  <2>2. \A p \in DOMAIN outputs : outputs[p] = "absent"
    BY <1>2, <1>3, <2>1 DEF OutputInv
  <2>3. Document = <<>> /\ Document' = <<>>
    BY <2>1, <2>2 DEF Document
  <2>4. Verdict' = Verdict
    BY <2>1 DEF Verdict
  <2>. QED  BY <1>1, <2>3, <2>4 DEF Promise!vars
<1>7. CASE WritePair
  <2>1. /\ pc = "write" /\ at[1] \in DOMAIN requested
        /\ UNCHANGED <<reports, exit>>
    BY <1>7 DEF WritePair, result
  <2>2. PICK held : outputs' = [outputs EXCEPT ![at[1]] = held]
    BY <1>7 DEF WritePair
  <2>3. outputs[at[1]] = "absent"
    <3>1. at[1] \in Nat
      BY <1>2 DEF TypeOK
    <3>. QED  BY <1>2, <2>1, <3>1 DEF OutputInv
  <2>4. RangeOf(reports)' = RangeOf(reports) /\ Verdict' = Verdict
    BY <2>1 DEF RangeOf, Verdict
  <2>5. CASE \E p \in DOMAIN outputs : outputs[p] = "whole"
    <3>1. \E p \in DOMAIN outputs' : outputs'[p] = "whole"
      BY <2>2, <2>3, <2>5
    <3>2. Document' = Document
      BY <2>4, <2>5, <3>1 DEF Document
    <3>. QED  BY <1>1, <2>4, <3>2 DEF Promise!vars
  <2>6. CASE \A p \in DOMAIN outputs : outputs[p] # "whole"
    <3>1. Document = <<>>
      BY <2>6 DEF Document
    <3>2. CASE \E p \in DOMAIN outputs' : outputs'[p] = "whole"
      <4>1. Document' = <<RangeOf(reports)>>
        BY <2>4, <3>2 DEF Document
      <4>2. RangeOf(reports) = Promise!Violations
        BY <1>2, <2>1, PromisedViolations DEF RunInv, RunComplete
      <4>. QED  BY <1>1, <1>4, <2>1, <2>4, <3>1, <4>1, <4>2
                DEF Promise!Next, Promise!Publish
    <3>3. CASE ~ \E p \in DOMAIN outputs' : outputs'[p] = "whole"
      <4>1. Document' = <<>>
        BY <3>3 DEF Document
      <4>. QED  BY <1>1, <2>4, <3>1, <4>1 DEF Promise!vars
    <3>. QED  BY <3>2, <3>3
  <2>. QED  BY <2>5, <2>6
<1>8. ASSUME NEW from, NEW how, Return(from, how)
      PROVE  Document' = Document /\ exit' = how /\ pc = from
  BY <1>8 DEF Return, Goto, Document, written, result, RangeOf
<1>9. ASSUME NEW from, NEW how, Return(from, how), from # "exit",
             how \in {"setupError", "noObjects", "writeError"}
      PROVE  Promise!Next
  <2>1. Document' = Document /\ Verdict' = "error" /\ Verdict = "none"
    BY <1>4, <1>8, <1>9 DEF Verdict
  <2>. QED  BY <1>1, <2>1 DEF Promise!Next, Promise!Judge
<1>10. CASE LoadChecksFails \/ CreateContextsFails \/ RunFails \/ PairOutputsFails
  BY <1>9, <1>10
     DEF LoadChecksFails, CreateContextsFails, RunFails, PairOutputsFails
<1>11. CASE NoChecks
  <2>1. Document' = Document /\ exit' = "ok" /\ pc = "checks"
    BY <1>8, <1>11 DEF NoChecks
  <2>2. Verdict' = "clean" /\ Verdict = "none" /\ Document = <<>>
    BY <1>4, <1>5, <2>1 DEF Verdict
  <2>3. RangeOf(enabled) = {}
    BY <1>11 DEF NoChecks, RangeOf
  <2>. QED  BY <1>1, <2>1, <2>2, <2>3 DEF Promise!Next, Promise!Judge
<1>12. CASE NoValidObjects
  <2>1. CASE flag
    BY <1>9, <1>12, <2>1 DEF NoValidObjects
  <2>2. CASE ~ flag
    <3>1. Document' = Document /\ exit' = "ok" /\ pc = "guard"
      BY <1>8, <1>12, <2>2 DEF NoValidObjects
    <3>2. Verdict' = "clean" /\ Verdict = "none" /\ Document = <<>>
      BY <1>4, <1>5, <3>1 DEF Verdict
    <3>3. AllObjects = {}
      BY <1>2, <1>12, <3>1 DEF NoValidObjects, MergeInv, RangeOf
    <3>. QED  BY <1>1, <3>1, <3>2, <3>3 DEF Promise!Next, Promise!Judge
  <2>. QED  BY <2>1, <2>2
<1>13. CASE Conclude
  <2>1. CASE writeErrors > 0
    BY <1>9, <1>13, <2>1 DEF Conclude
  <2>2. CASE ~ (writeErrors > 0)
    <3>1. /\ Document' = Document /\ pc = "write"
          /\ exit' = IF reports # <<>> THEN "lintErrors" ELSE "ok"
      BY <1>8, <1>13, <2>2 DEF Conclude
    <3>2. OutputInv'
      BY <1>2, NextOutputInv
    <3>3. requested' = requested /\ outputs' = outputs /\ reports' = reports
      BY <1>1, <1>13 DEF Conclude, Return, written, result
    <3>4. \A p \in DOMAIN requested : outputs[p] = "whole"
      <4>1. writeErrors = 0
        BY <1>2, <2>2 DEF TypeOK
      <4>2. at[1] \notin DOMAIN requested
        BY <1>13 DEF Conclude
      <4>3. 1..(at[1] - 1) = DOMAIN requested
        BY <1>2, <3>1, <4>2 DEF TypeOK, OutputInv
      <4>. QED  BY <1>2, <3>1, <4>1, <4>3 DEF OutputInv
    <3>5. 1 \in DOMAIN requested
      BY <1>2, EmptySeq, LenProperties DEF TypeOK
    <3>6. Document = <<RangeOf(reports)>>
      BY <1>3, <3>4, <3>5 DEF Document
    <3>7. Verdict = "none"
      BY <1>4, <3>1
    <3>8. reports \in Seq(Report)
      BY <1>2 DEF TypeOK
    <3>9. CASE reports = <<>>
      <4>1. Verdict' = "clean" /\ Document = <<{}>>
        BY <3>1, <3>6, <3>9 DEF Verdict, RangeOf
      <4>. QED  BY <1>1, <3>1, <3>7, <4>1 DEF Promise!Next, Promise!Judge
    <3>10. CASE reports # <<>>
      <4>1. Verdict' = "findings"
        BY <3>1, <3>10 DEF Verdict
      <4>2. RangeOf(reports) # {}
        BY <3>8, <3>10, RangeEmpty
      <4>3. Document # <<{}>> /\ Document # <<>>
        BY <3>6, <4>2
      <4>. QED  BY <1>1, <3>1, <3>7, <4>1, <4>3 DEF Promise!Next, Promise!Judge
    <3>. QED  BY <3>9, <3>10
  <2>. QED  BY <2>1, <2>2
<1>14. CASE UNCHANGED vars
  BY <1>1, <1>14 DEF vars, Promise!vars, Document, Verdict, RangeOf
<1>. QED
  BY <1>6, <1>7, <1>10, <1>11, <1>12, <1>13, <1>14 DEF Next

(* However the manifests are split and whichever step fails, what a run
   publishes and answers is what LintVerdict promises (merge.go). *)
THEOREM PromiseKept == Spec => KeepsPromise
<1>1. IInv /\ [Next]_vars => [Promise!Next]_(Promise!vars)
  BY NextPromise
<1>. QED  BY <1>1, InitPromise, Inductive, PTL DEF Spec, Promise!Spec, KeepsPromise

=============================================================================
