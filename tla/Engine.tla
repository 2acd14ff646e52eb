------------------------------ MODULE Engine ------------------------------
(***************************************************************************)
(* A lint run as the checks live it: a manifest set is loaded, then        *)
(* kube-linter's run.Run calls every enabled check on every object with    *)
(* the whole set at hand.  LintRun models the command around this; the     *)
(* modules that extend Engine say what the checks themselves do.           *)
(***************************************************************************)
EXTENDS GatewayAPI

CONSTANTS
  ManifestSets,  \* the manifest sets a run may be given, in load order
  Checks         \* the enabled checks, in the order the engine runs them

(* Object identity is unique within one run (README, "Linting across multiple
   charts, directories, or repos"). *)
ASSUME IdentityAssumption ==
  \A set \in ManifestSets : \A i, j \in DOMAIN set : RefOf(set[i]) = RefOf(set[j]) => i = j

(* A manifest set is a sequence, in load order. *)
ASSUME LoadOrderAssumption ==
  \A set \in ManifestSets : set \in Seq({set[i] : i \in DOMAIN set})

ASSUME ChecksAssumption == Checks \in Seq(STRING) /\ Checks # <<>>

VARIABLES
  objects,     \* lintCtx.Objects()
  phase,       \* "load", "check" or "done"
  at,          \* the engine's loop: <<object, check>>
  findings     \* what the checks reported: <<check, object, what>>

vars == <<objects, phase, at, findings>>

-----------------------------------------------------------------------------
Init ==
  /\ objects = <<>>
  /\ phase = "load"
  /\ at = <<1, 1>>
  /\ findings = {}

Load ==
  /\ phase = "load"
  /\ objects' \in ManifestSets \ {<<>>}
  /\ phase' = "check"
  /\ UNCHANGED <<at, findings>>

(* The object the engine is at. *)
Current == objects[at[1]]

(* Mutant: the check loop runs one past its end. *)
JudgePastEnd(check, applies, reported) ==
  /\ phase = "check"
  /\ at[1] \in DOMAIN objects
  /\ Checks[at[2]] = check
  /\ findings' = findings \cup
       IF applies THEN {<<check, at[1], x>> : x \in reported} ELSE {}
  /\ at' = <<at[1], at[2] + 1>>
  /\ UNCHANGED <<objects, phase>>

(* The engine calls one check function on the current object; the function
   turns away an object of a type it does not judge. *)
Judge(check, applies, reported) ==
  /\ phase = "check"
  /\ at[1] \in DOMAIN objects
  /\ Checks[at[2]] = check
  /\ findings' = findings \cup
       IF applies THEN {<<check, at[1], x>> : x \in reported} ELSE {}
  /\ at' = IF at[2] < Len(Checks) THEN <<at[1], at[2] + 1>> ELSE <<at[1] + 1, 1>>
  /\ UNCHANGED <<objects, phase>>

Finish ==
  /\ phase = "check"
  /\ at[1] \notin DOMAIN objects
  /\ phase' = "done"
  /\ UNCHANGED <<objects, at, findings>>

-----------------------------------------------------------------------------
Enabled == {Checks[c] : c \in DOMAIN Checks}

(* The type of the run's state; that `objects` is one of ManifestSets is left to
   the proofs, as TLC would enumerate the set in every state. *)
TypeOK ==
  /\ phase \in {"load", "check", "done"}
  /\ phase = "load" <=> objects = <<>>
  /\ at \in (Nat \ {0}) \X DOMAIN Checks
  /\ \A f \in findings :
       f[1] \in Enabled /\ f[2] \in DOMAIN objects

Reported(check, k, x) == <<check, k, x>> \in findings

=============================================================================
