---------------------------- MODULE LintVerdict ----------------------------
(***************************************************************************)
(* What one invocation of "gwlint lint" promises, however the manifests    *)
(* are split over files, directories and charts: every enabled check is    *)
(* judged against the whole manifest set, the documents written hold       *)
(* exactly those findings, and the exit status says whether there are any. *)
(* LintRun is the detailed specification that implements this one.         *)
(***************************************************************************)
EXTENDS Naturals

CONSTANTS
  Object,     \* the objects that can be decoded
  Check,      \* the checks there are
  Finds       \* Finds[c][S][o]: how many diagnostics check c has of o when it sees S

VARIABLES
  checks,     \* the enabled checks
  manifests,  \* every valid object found under the paths given
  document,   \* <<>>, then <<the findings a reader of an output file sees>>
  answer      \* what the exit status says

vars == <<checks, manifests, document, answer>>

Violations ==
  UNION {{<<f[1], f[2], i>> : i \in 1..Finds[f[1]][manifests][f[2]]} : f \in checks \X manifests}

Init ==
  /\ checks \in SUBSET Check
  /\ manifests \in SUBSET Object
  /\ document = <<>>
  /\ answer = "none"

(* The first complete output file appears. *)
Publish ==
  /\ answer = "none"
  /\ document = <<>>
  /\ document' = <<Violations>>
  /\ UNCHANGED <<checks, manifests, answer>>

(* Exit status 0 needs a published, empty result, unless there was nothing
   to check; a "found N lint errors" exit needs a published, non-empty one. *)
Judge ==
  /\ answer = "none"
  /\ \/ /\ answer' = "clean"
        /\ \/ document = <<{}>>
           \/ document = <<>> /\ (manifests = {} \/ checks = {})
     \/ /\ answer' = "findings"
        /\ document \notin {<<>>, <<{}>>}
     \/ answer' = "error"
  /\ UNCHANGED <<checks, manifests, document>>

Next == Publish \/ Judge

Spec == Init /\ [][Next]_vars

=============================================================================
