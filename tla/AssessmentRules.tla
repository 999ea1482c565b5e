-------------------------- MODULE AssessmentRules --------------------------
(***************************************************************************)
(* What the kinds of evidence next to the solver's conclude from what a    *)
(* tool has put out (scenario.rs, quint.rs, native_test.rs,                *)
(* correspondence.rs), what a parent obligation concludes from its         *)
(* children (scenario.rs aggregate), and what a waiver policy leaves of a  *)
(* list of findings (policy.rs).                                           *)
(***************************************************************************)
EXTENDS Naturals, Sequences

CONSTANT None   \* no evidence, hence no validity

Results == {"PASS", "FAIL", "UNKNOWN", "ERROR", "UNVERIFIED", "NOT_APPLICABLE", "STALE"}

Validities == {"CURRENT", "STALE"}

\* Any of a list of partial results decides in this order; PASS takes all of
\* them, and at least one.
Combined(results) ==
  CASE "ERROR" \in results -> "ERROR"
    [] "ERROR" \notin results /\ "FAIL" \in results -> "FAIL"
    [] results \cap {"ERROR", "FAIL"} = {} /\ "STALE" \in results -> "STALE"
    [] results = {"PASS"} -> "PASS"
    [] OTHER -> "UNVERIFIED"

-----------------------------------------------------------------------------
\* A runner's output: `broken` stands for a timeout, output that does not
\* parse and an infrastructure error it reports; `met` are the
\* postconditions observed as expected.  The trace decides nothing.
ScenarioResult(expected, output) ==
  CASE output.broken -> "ERROR"
    [] ~output.broken /\ expected \subseteq output.met -> "PASS"
    [] OTHER -> "FAIL"

\* What there is to see of `quint --version` and `quint verify`.
ModelOutputs ==
  [bound : BOOLEAN,                                \* model_bindings hold
   version : {"pinned", "other", "timeout"},
   ended : BOOLEAN,                                \* before its timeout
   backend : {"pinned", "other", "undetected"},
   marks : SUBSET {"violation", "no violation"}]

Ran(output) == output.bound /\ output.version = "pinned" /\ output.ended

\* A temporal property is not given to Apalache at all.
ModelResult(check, output) ==
  CASE output.bound /\ check.unsupported -> "UNVERIFIED"
    [] /\ ~(output.bound /\ check.unsupported)
       /\ Ran(output) /\ output.backend = "pinned"
       /\ output.marks = {check.expected} -> "PASS"
    [] /\ ~(output.bound /\ check.unsupported)
       /\ Ran(output) /\ output.backend = "pinned"
       /\ output.marks = {"violation", "no violation"} \ {check.expected} -> "FAIL"
    [] OTHER -> "ERROR"

\* The backend version put into the evidence.
RecordedBackend(check, output) ==
  IF Ran(output) /\ ~check.unsupported THEN output.backend ELSE "pinned"

\* `declared`: schema, command and working directory are the declared ones.
NativeResult(definition, report) ==
  IF /\ report.declared
     /\ report.result = "PASS"
     /\ report.failed = 0
     /\ report.passed >= definition.minimum
     /\ report.skipped <= definition.maximum
     /\ report.passed + report.failed > 0
     /\ definition.required \subseteq report.passing
    THEN "PASS" ELSE "FAIL"

\* One transition: its file parses, and of the required calls, orders,
\* strings, fragments and actions these are missing - all, if the function is
\* missing or ambiguous.
TransitionResult(transition) ==
  CASE ~transition.parses -> "ERROR"
    [] transition.parses /\ transition.missing = {} -> "PASS"
    [] OTHER -> "FAIL"

CorrespondenceResult(transitions) ==
  Combined({TransitionResult(transition) : transition \in transitions})

-----------------------------------------------------------------------------
\* trace_subsequence, is_subsequence: match greedily, one cursor, one pass.
Subsequence(pattern, observed) ==
  LET cursor[i \in 0..Len(observed)] ==
        IF i = 0 THEN 0
        ELSE LET at == cursor[i - 1]
             IN  IF at < Len(pattern) /\ pattern[at + 1] = observed[i]
                   THEN at + 1 ELSE at
  IN  cursor[Len(observed)] = Len(pattern)

\* mapping_status, of two assessments, None where there is no evidence.
MappingResult(expected, scenario, model, matches) ==
  LET some == {scenario, model} \ {None}
  IN  CASE \E a \in some : a.result = "ERROR" -> "ERROR"
        [] /\ \A a \in some : a.result # "ERROR"
           /\ \E a \in some : a.validity = "STALE" -> "STALE"
        [] /\ \A a \in some : a.result # "ERROR" /\ a.validity # "STALE"
           /\ None \in {scenario, model} -> "UNVERIFIED"
        [] OTHER -> IF /\ scenario.result = expected
                       /\ model.result = "PASS"
                       /\ matches
                      THEN "PASS" ELSE "FAIL"

\* What aggregate_parents hands over of one child.
ChildOf(assessment) ==
  IF assessment = None THEN [result |-> "UNVERIFIED", validity |-> None]
  ELSE [result |-> assessment.result, validity |-> assessment.validity]

\* aggregate, of what was supplied for the required children.  An error
\* counts even if stale, a failure only if current.
ParentResult(required, children) ==
  LET supplied == DOMAIN children
      error == \E c \in supplied : children[c].result = "ERROR"
      fail == \E c \in supplied :
                children[c].result = "FAIL" /\ children[c].validity = "CURRENT"
      stale == \E c \in supplied : children[c].validity = "STALE"
  IN  CASE error -> "ERROR"
        [] ~error /\ fail -> "FAIL"
        [] ~error /\ ~fail /\ stale -> "STALE"
        [] /\ ~error /\ ~fail /\ ~stale
           /\ required # {} /\ required = supplied
           /\ \A c \in supplied :
                children[c].result = "PASS" /\ children[c].validity = "CURRENT" -> "PASS"
        [] OTHER -> "UNVERIFIED"

-----------------------------------------------------------------------------
\* diagnose lists what is not a current PASS, and what has no evidence.
NeedsAttention(assessment) ==
  assessment = None \/ assessment.result # "PASS" \/ assessment.validity # "CURRENT"

\* apply: a policy gives some findings an expiry.  It must be clean: no
\* waiver has expired, and each one matches a finding.
Active(policy, now) == {f \in DOMAIN policy : policy[f] > now}

PolicyClean(policy, findings, now) ==
  Active(policy, now) = DOMAIN policy /\ DOMAIN policy \subseteq findings

DiagnoseResult(policy, findings, now) ==
  CASE ~PolicyClean(policy, findings, now) -> "ATTENTION"
    [] PolicyClean(policy, findings, now) /\ findings = {} -> "PASS"
    [] OTHER -> IF findings \subseteq Active(policy, now) THEN "WAIVED_ATTENTION"
                ELSE "ATTENTION"
=============================================================================
