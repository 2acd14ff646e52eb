------------------------------ MODULE LintRun ------------------------------
(***************************************************************************)
(* The "gwlint lint" command: RunE in pkg/command/lint/command.go with     *)
(* mergeContexts (merge.go), summarize (scanned.go) and the exit status of *)
(* cmd/gwlint/main.go.  One run walks once through                         *)
(*                                                                         *)
(*   checks -> contexts -> merge -> guard -> run -> summarize              *)
(*          -> pair -> write -> conclude -> exit                           *)
(*                                                                         *)
(* and returns early from most of them.  What kube-linter does for the     *)
(* command (CreateContexts, run.Run, ValidateAndPairFormatsOutputs, the    *)
(* output destinations) is external: any outcome its callers handle may    *)
(* happen.  A check returns a slice of diagnostics; a report is            *)
(* <<check, object, i>>, the i-th of the slice it returned of the object.  *)
(***************************************************************************)
EXTENDS Naturals, Sequences, FiniteSets

CONSTANTS
  Object,       \* objects the decoder accepts
  Invalid,      \* documents it rejects
  Path,         \* file paths; NoPath is the empty string (stdin)
  NoPath,
  Gvk,          \* group-version-kinds
  Kind,         \* kind names
  Check,        \* built-in checks
  Format,       \* values of --format
  KnownFormat,  \* those FormatterByType knows
  FileOf,       \* Metadata.FilePath of an object or invalid object
  GvkOf,        \* GroupVersionKind of an object
  KindOf,       \* kind name of a GroupVersionKind
  Matcher,      \* the GroupVersionKinds a check's Matcher accepts
  Scope,        \* the object kinds a check's config names
  Ignored,      \* the checks an object's annotations tell kube-linter to skip
  Finds,        \* Finds[c][S][o]: how many diagnostics check c returns of o, given S
  Builtin,      \* the check lists the embedded yamls can hold
  Loads,        \* the context lists CreateContexts can return
  Requests      \* the format lists a command line can ask for

Context == [objects : Seq(Object), invalid : Seq(Invalid)]

Report == Check \X Object \X Nat

ASSUME PathAssumption == NoPath \notin Path
ASSUME ObjectAssumption ==
  /\ FileOf \in [Object \cup Invalid -> Path \cup {NoPath}]
  /\ GvkOf \in [Object -> Gvk]
  /\ KindOf \in [Gvk -> Kind]
ASSUME CheckAssumption ==
  /\ Matcher \in [Check -> SUBSET Gvk]
  /\ Scope \in [Check -> SUBSET Kind]
  /\ Ignored \in [Object -> SUBSET Check]
  /\ Finds \in [Check -> [SUBSET Object -> [Object -> Nat]]]
ASSUME InputAssumption ==
  /\ Builtin \subseteq Seq(Check)
  /\ Loads \subseteq Seq(Context)
  /\ KnownFormat \subseteq Format
  /\ Requests \subseteq Seq(Format) \ {<<>>}

VARIABLES
  pc,           \* where RunE stands
  flag,         \* --fail-if-no-objects-found
  enabled,      \* enabledChecks
  contexts,     \* what CreateContexts finds under the arguments
  merged,       \* the mergedLintContext
  requested,    \* the (format, output) pairs
  at,           \* position of the loop RunE is in: <<outer, inner>>
  examined,     \* history: (check, object) pairs a check function was run on
  reports,      \* result.Reports
  summary,      \* scanned.Scanned
  outputs,      \* per pair, what its destination holds
  writeErrors,  \* len(writeErrors)
  exit          \* how RunE returned

input  == <<flag, contexts, requested>>
result == <<examined, reports>>
written == <<outputs, writeErrors>>
vars == <<pc, flag, enabled, contexts, merged, requested, at, examined,
          reports, summary, outputs, writeErrors, exit>>

RangeOf(s) == {s[i] : i \in DOMAIN s}

Init ==
  /\ pc = "checks"
  /\ flag \in BOOLEAN
  /\ enabled \in Builtin
  /\ contexts \in Loads
  /\ merged = [objects |-> <<>>, invalid |-> <<>>]
  /\ requested \in Requests
  /\ at = <<1, 1>>
  /\ examined = {}
  /\ reports = <<>>
  /\ summary = [present |-> FALSE]
  /\ outputs = [p \in DOMAIN requested |-> "absent"]
  /\ writeErrors = 0
  /\ exit = "none"

Goto(from, to) == pc = from /\ pc' = to

(* RunE returns from `from`: nil for "ok", an error otherwise. *)
Return(from, how) ==
  /\ Goto(from, "exit")
  /\ exit' = how
  /\ UNCHANGED <<input, enabled, merged, at, result, summary, written>>

(* LoadInto and List succeed, and at least one check is enabled. *)
LoadChecks ==
  /\ enabled # <<>>
  /\ Goto("checks", "contexts")
  /\ UNCHANGED <<input, enabled, merged, at, result, summary, written, exit>>

(* The embedded yamls do not load or register. *)
LoadChecksFails == Return("checks", "setupError")

(* "Warning: no checks enabled." *)
NoChecks == enabled = <<>> /\ Return("checks", "ok")

(* Arguments resolve and CreateContextsWithOptions succeeds. *)
CreateContexts ==
  /\ Goto("contexts", "merge")
  /\ UNCHANGED <<input, enabled, merged, at, result, summary, written, exit>>

CreateContextsFails == Return("contexts", "setupError")

(* Mutant: each round appends every context so far again. *)
MergeContextRepeating ==
  /\ pc = "merge"
  /\ at[1] \in DOMAIN contexts
  /\ merged' = [objects |-> merged.objects \o merged.objects \o contexts[at[1]].objects,
                invalid |-> merged.invalid \o contexts[at[1]].invalid]
  /\ at' = <<at[1] + 1, 1>>
  /\ UNCHANGED <<pc, input, enabled, result, summary, written, exit>>

(* One round of the loop of mergeContexts. *)
MergeContext ==
  /\ pc = "merge"
  /\ at[1] \in DOMAIN contexts
  /\ merged' = [objects |-> merged.objects \o contexts[at[1]].objects,
                invalid |-> merged.invalid \o contexts[at[1]].invalid]
  /\ at' = <<at[1] + 1, 1>>
  /\ UNCHANGED <<pc, input, enabled, result, summary, written, exit>>

(* Mutant: the object loop starts one too early. *)
MergeDoneAtZero ==
  /\ Goto("merge", "guard")
  /\ at[1] \notin DOMAIN contexts
  /\ at' = <<0, 1>>
  /\ UNCHANGED <<input, enabled, merged, result, summary, written, exit>>

MergeDone ==
  /\ Goto("merge", "guard")
  /\ at[1] \notin DOMAIN contexts
  /\ at' = <<1, 1>>
  /\ UNCHANGED <<input, enabled, merged, result, summary, written, exit>>

(* "no valid objects found": a warning, or an error when asked for one. *)
NoValidObjects ==
  /\ merged.objects = <<>>
  /\ Return("guard", IF flag THEN "noObjects" ELSE "ok")

StartRun ==
  /\ merged.objects # <<>>
  /\ Goto("guard", "run")
  /\ UNCHANGED <<input, enabled, merged, at, result, summary, written, exit>>

(* run.Run refuses the check list before it looks at an object. *)
RunFails == at = <<1, 1>> /\ Return("run", "setupError")

Matches(c, o) == GvkOf[o] \in Matcher[c]

(* The matcher first, then the annotations. *)
Runs(c, o) == Matches(c, o) /\ c \notin Ignored[o]

(* The diagnostics check c returns of o. *)
Slice(c, o, S) == [i \in 1..Finds[c][S][o] |-> <<c, o, i>>]

(* Mutant: the check sees the object's own directory only, as it would
   without mergeContexts. *)
RunCheckPerContext ==
  LET o == merged.objects[at[1]]
      c == enabled[at[2]]
      near == UNION {RangeOf(contexts[i].objects) :
                i \in {n \in DOMAIN contexts : o \in RangeOf(contexts[n].objects)}}
      slice == IF Runs(c, o) THEN Slice(c, o, near) ELSE <<>>
  IN
  /\ pc = "run"
  /\ at[1] \in DOMAIN merged.objects
  /\ at[2] \in DOMAIN enabled
  /\ examined' = IF Runs(c, o) THEN examined \cup {<<c, o>>} ELSE examined
  /\ reports' = reports \o slice
  /\ at' = IF at[2] < Len(enabled) THEN <<at[1], at[2] + 1>>
                                   ELSE <<at[1] + 1, 1>>
  /\ UNCHANGED <<pc, input, enabled, merged, summary, written, exit>>

(* run.Run on one object and one check: unless the matcher or the annotations
   skip it, the check function is handed the one merged context, and every
   diagnostic it returns becomes a report. *)
RunCheck ==
  LET o == merged.objects[at[1]]
      c == enabled[at[2]]
      slice == IF Runs(c, o) THEN Slice(c, o, RangeOf(merged.objects)) ELSE <<>>
  IN
  /\ pc = "run"
  /\ at[1] \in DOMAIN merged.objects
  /\ at[2] \in DOMAIN enabled
  /\ examined' = IF Runs(c, o) THEN examined \cup {<<c, o>>} ELSE examined
  /\ reports' = reports \o slice
  /\ at' = IF at[2] < Len(enabled) THEN <<at[1], at[2] + 1>>
                                   ELSE <<at[1] + 1, 1>>
  /\ UNCHANGED <<pc, input, enabled, merged, summary, written, exit>>

RunDone ==
  /\ Goto("run", "summarize")
  /\ at[1] \notin DOMAIN merged.objects
  /\ at' = <<1, 1>>
  /\ UNCHANGED <<input, enabled, merged, result, summary, written, exit>>

(* Mutant: an object counts only if every check matches it. *)
InScopeOfAll(o) == \A c \in RangeOf(enabled) : Matches(c, o)

(* summarize walks the objects again, on its own, with the matchers only. *)
InScope(o) == \E c \in RangeOf(enabled) : Matches(c, o)

CheckedAt == {i \in DOMAIN merged.objects : InScope(merged.objects[i])}

KindAt(i) == KindOf[GvkOf[merged.objects[i]]]

Summarize ==
  /\ Goto("summarize", "pair")
  /\ summary' =
       [present  |-> TRUE,
        objects  |-> Len(merged.objects),
        unparsed |-> Len(merged.invalid),
        files    |-> Cardinality({FileOf[x] : x \in RangeOf(merged.objects)
                                   \cup RangeOf(merged.invalid)} \ {NoPath}),
        checked  |-> Cardinality(CheckedAt),
        checkedByKind |-> [k \in {KindAt(i) : i \in CheckedAt} |->
                             Cardinality({i \in CheckedAt : KindAt(i) = k})],
        looksFor |-> UNION {Scope[c] : c \in RangeOf(enabled)}]
  /\ UNCHANGED <<input, enabled, merged, at, result, written, exit>>

(* ValidateAndPairFormatsOutputs accepts the --format and --output lists.  It
   knows the formats FormatterByType knows, so that the error return of the
   latter (command.go:149) is never taken. *)
PairOutputs ==
  /\ RangeOf(requested) \subseteq KnownFormat
  /\ Goto("pair", "write")
  /\ UNCHANGED <<input, enabled, merged, at, result, summary, written, exit>>

PairOutputsFails == Return("pair", "setupError")

(* Mutant: an error from Close is dropped. *)
WritePairIgnoringClose ==
  /\ pc = "write"
  /\ at[1] \in DOMAIN requested
  /\ \E held \in {"unopened", "truncated", "unflushed", "whole"} :
       /\ outputs' = [outputs EXCEPT ![at[1]] = held]
       /\ writeErrors' = IF held \in {"whole", "unflushed"} THEN writeErrors ELSE writeErrors + 1
  /\ at' = <<at[1] + 1, 1>>
  /\ UNCHANGED <<pc, input, enabled, merged, result, summary, exit>>

(* Mutant: a pair that fails to open starts the loop over. *)
WritePairRetrying ==
  /\ pc = "write"
  /\ at[1] \in DOMAIN requested
  /\ \E held \in {"unopened", "truncated", "unflushed", "whole"} :
       /\ outputs' = [outputs EXCEPT ![at[1]] = held]
       /\ writeErrors' = IF held \in {"whole", "unopened"} THEN writeErrors ELSE writeErrors + 1
       /\ at' = IF held = "unopened" THEN <<1, 1>> ELSE <<at[1] + 1, 1>>
  /\ UNCHANGED <<pc, input, enabled, merged, result, summary, exit>>

(* One pair of the write loop.  "unopened": no destination; "truncated": the
   formatter failed midway (Close still runs); "unflushed": only Close failed. *)
WritePair ==
  /\ pc = "write"
  /\ at[1] \in DOMAIN requested
  /\ \E held \in {"unopened", "truncated", "unflushed", "whole"} :
       /\ outputs' = [outputs EXCEPT ![at[1]] = held]
       /\ writeErrors' = IF held = "whole" THEN writeErrors ELSE writeErrors + 1
  /\ at' = <<at[1] + 1, 1>>
  /\ UNCHANGED <<pc, input, enabled, merged, result, summary, exit>>

(* Mutant: write errors do not reach the exit status. *)
ConcludeIgnoringWriteErrors ==
  /\ at[1] \notin DOMAIN requested
  /\ Return("write", IF reports # <<>> THEN "lintErrors" ELSE "ok")

(* Mutant: findings outrank write errors. *)
ConcludeFindingsFirst ==
  /\ at[1] \notin DOMAIN requested
  /\ Return("write", IF reports # <<>> THEN "lintErrors"
                     ELSE IF writeErrors > 0 THEN "writeError" ELSE "ok")

(* After the loop: write errors first, then findings, then nil. *)
Conclude ==
  /\ at[1] \notin DOMAIN requested
  /\ Return("write", IF writeErrors > 0 THEN "writeError"
                     ELSE IF reports # <<>> THEN "lintErrors" ELSE "ok")

Next ==
  \/ LoadChecks \/ LoadChecksFails \/ NoChecks
  \/ CreateContexts \/ CreateContextsFails
  \/ MergeContext \/ MergeDone
  \/ NoValidObjects \/ StartRun
  \/ RunFails \/ RunCheck \/ RunDone
  \/ Summarize
  \/ PairOutputs \/ PairOutputsFails
  \/ WritePair \/ Conclude

Done == pc = "exit"

Spec == Init /\ [][Next]_vars

(* The command is one goroutine that never waits for anything. *)
FairSpec == Spec /\ WF_vars(Next)

(* os.Exit(1) for any error. *)
ExitStatus == IF exit = "ok" THEN 0 ELSE 1

-----------------------------------------------------------------------------
(* The values every variable takes. *)
TypeOK ==
  /\ pc \in {"checks", "contexts", "merge", "guard", "run", "summarize",
             "pair", "write", "exit"}
  /\ flag \in BOOLEAN
  /\ enabled \in Seq(Check)
  /\ contexts \in Seq(Context)
  /\ merged \in Context
  /\ requested \in Seq(Format) \ {<<>>}
  /\ at \in (Nat \ {0}) \X (Nat \ {0})
  /\ examined \subseteq Check \X Object
  /\ reports \in Seq(Report)
  /\ outputs \in [DOMAIN requested ->
                   {"absent", "unopened", "truncated", "unflushed", "whole"}]
  /\ writeErrors \in Nat
  /\ exit \in {"none", "ok", "setupError", "noObjects", "writeError", "lintErrors"}

(* Every valid object any discovered context holds. *)
AllObjects == UNION {RangeOf(contexts[i].objects) : i \in DOMAIN contexts}

(* The pairs of an enabled check and an object it has to look at. *)
Due == {f \in RangeOf(enabled) \X AllObjects : Runs(f[1], f[2])}

(* What checks have to say of objects, each pair in F seeing the whole set. *)
Flagged(F) == UNION {RangeOf(Slice(f[1], f[2], AllObjects)) : f \in F}

Violations == Flagged(Due)

RunComplete == pc \in {"summarize", "pair", "write"} \/ summary.present

(* merge.go: splitting one manifest set over directories never changes what
   is reported.  Once the run is complete its reports are exactly the
   violations of the union of all contexts. *)
ReportsWholeSet == RunComplete => RangeOf(reports) = Violations

(* No object was loaded twice, and no check is enabled twice. *)
LoadedOnce ==
  \A c, d \in DOMAIN contexts :
    \A i \in DOMAIN contexts[c].objects, j \in DOMAIN contexts[d].objects :
      contexts[c].objects[i] = contexts[d].objects[j] => c = d /\ i = j

EnabledOnce == \A i, j \in DOMAIN enabled : enabled[i] = enabled[j] => i = j

(* command.go "found %d lint errors": every diagnostic of every check is counted
   and none twice, provided no object was loaded twice. *)
EachReportOnce ==
  RunComplete /\ LoadedOnce /\ EnabledOnce => Len(reports) = Cardinality(Violations)

(* scanned.go "Checked is how many objects a check was actually run against":
   the count summarize makes on its own is, in all and by kind, that of the
   objects run.Run did run a check on and of those told to ignore every check
   that matches them, which summarize cannot tell apart. *)
SummaryMatchesRun ==
  summary.present /\ LoadedOnce =>
    LET matching(o) == {c \in RangeOf(enabled) : Matches(c, o)}
        silenced == {o \in AllObjects : matching(o) # {} /\ matching(o) \subseteq Ignored[o]}
        counted == {f[2] : f \in examined} \cup silenced
    IN
    /\ summary.checked = Cardinality(counted)
    /\ \A k \in Kind :
         Cardinality({o \in counted : KindOf[GvkOf[o]] = k}) =
           IF k \in DOMAIN summary.checkedByKind
           THEN summary.checkedByKind[k] ELSE 0

(* Exit status 0 after a run can be trusted: all that any check had to look at
   was looked at, nothing was found, and every requested file is whole. *)
CleanExitIsTrustworthy ==
  exit = "ok" /\ enabled # <<>> /\ AllObjects # {} =>
    /\ \A c \in RangeOf(enabled), o \in AllObjects :
         Runs(c, o) => <<c, o>> \in examined
    /\ Violations = {}
    /\ \A p \in DOMAIN requested : outputs[p] = "whole"

(* One output that fails never costs the reader another one, and none fails
   without being counted: at the end of the write loop every pair was
   attempted, and the error count is the number of outputs not whole. *)
OutputsAccountedFor ==
  exit \in {"ok", "lintErrors", "writeError"} /\ summary.present =>
    /\ \A p \in DOMAIN requested : outputs[p] # "absent"
    /\ writeErrors = Cardinality({p \in DOMAIN requested : outputs[p] # "whole"})

(* RunE always returns. *)
Terminates == <>Done

-----------------------------------------------------------------------------
(* What is published and answered, seen from outside. *)
Verdict ==
  CASE exit = "none" -> "none"
    [] exit = "ok" -> "clean"
    [] exit = "lintErrors" -> "findings"
    [] OTHER -> "error"

Document ==
  IF \E p \in DOMAIN outputs : outputs[p] = "whole"
  THEN <<RangeOf(reports)>> ELSE <<>>

(* How many diagnostics a run gets from a check, the skipped pairs included. *)
JudgedFinds ==
  [c \in Check |-> [S \in SUBSET Object |-> [o \in Object |->
     IF Runs(c, o) THEN Finds[c][S][o] ELSE 0]]]

Promise == INSTANCE LintVerdict WITH
  Finds <- JudgedFinds, checks <- RangeOf(enabled), manifests <- AllObjects,
  document <- Document, answer <- Verdict

(* However the manifests are split and whichever step fails, a run publishes
   and answers what LintVerdict promises (merge.go, README "Linting across
   multiple charts, directories, or repos"). *)
KeepsPromise == Promise!Spec

-----------------------------------------------------------------------------
(* The inductive invariant behind the safety properties: what each loop has
   done so far, phase by phase. *)

Early(i, j) == i < at[1] \/ (i = at[1] /\ j < at[2])

(* The pairs run.Run has been through. *)
Visited ==
  {f \in Check \X Object :
     \E i \in DOMAIN merged.objects, j \in DOMAIN enabled :
       Early(i, j) /\ f = <<enabled[j], merged.objects[i]>> /\ Runs(f[1], f[2])}

MergeInv ==
  /\ pc = "merge" =>
       /\ at[1] <= Len(contexts) + 1
       /\ RangeOf(merged.objects) =
            UNION {RangeOf(contexts[i].objects) : i \in 1..(at[1] - 1)}
  /\ pc \in {"guard", "run", "summarize", "pair", "write"} =>
       RangeOf(merged.objects) = AllObjects

RunInv ==
  /\ pc \in {"checks", "contexts"} =>
       at = <<1, 1>> /\ merged.objects = <<>>
  /\ pc \in {"guard", "summarize", "pair"} => at = <<1, 1>>
  /\ pc \in {"checks", "contexts", "merge", "guard"} => reports = <<>> /\ examined = {}
  /\ pc \notin {"checks", "exit"} => enabled # <<>>
  /\ pc = "run" =>
       /\ at[1] <= Len(merged.objects) + 1
       /\ at[2] <= Len(enabled)
       /\ examined = Visited
       /\ RangeOf(reports) = Flagged(Visited)
  /\ pc \in {"pair", "write"} => summary.present
  /\ summary.present => pc \in {"pair", "write", "exit"}
  /\ RunComplete =>
       /\ examined = Due
       /\ RangeOf(reports) = Violations

OutputInv ==
  /\ pc = "write" =>
       /\ at[1] <= Len(requested) + 1
       /\ writeErrors = 0 => \A p \in 1..(at[1] - 1) : outputs[p] = "whole"
       /\ \A p \in DOMAIN requested : p >= at[1] => outputs[p] = "absent"
  /\ pc \notin {"write", "exit"} =>
       /\ writeErrors = 0
       /\ \A p \in DOMAIN requested : outputs[p] = "absent"
  /\ pc = "exit" <=> exit # "none"
  /\ exit = "ok" =>
       \/ enabled = <<>>
       \/ AllObjects = {}
       \/ /\ summary.present
          /\ reports = <<>>
          /\ \A p \in DOMAIN requested : outputs[p] = "whole"
  /\ exit = "lintErrors" =>
       /\ reports # <<>>
       /\ \A p \in DOMAIN requested : outputs[p] = "whole"
  /\ (\E p \in DOMAIN requested : outputs[p] # "absent") => summary.present

IInv == TypeOK /\ MergeInv /\ RunInv /\ OutputInv

=============================================================================
