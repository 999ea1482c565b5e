----------------------------- MODULE MCEvidence -----------------------------
(***************************************************************************)
(* The evidence graph, the evidence bundle and the project's obligation, in *)
(* one run that chooses between them at the start; they share no state.    *)
(* The graph has one check of each kind, a validation that links the       *)
(* scenario to the model, a parent that requires those two and one for the *)
(* others; the bundle is made of a state root of four records in two       *)
(* directories and a ledger; MCProjectObligation has the third instance.   *)
(***************************************************************************)
EXTENDS EvidenceGraph, EvidenceBundle, MCProjectObligation

VARIABLE part   \* "graph", "bundle" or "obligation"

MCInputsOf ==
  [s |-> {"code"}, m |-> {"model"}, n |-> {"code"}, c |-> {"code", "model"}]
MCDefinedIn == [v |-> "mapping"]
MCMappingsOf ==
  [v |-> [n \in Versions |->
     <<[scenario |-> "s", expected |-> "PASS", model |-> "m",
        pattern |-> IF n = 0 THEN <<"take", "give">> ELSE <<"give", "take">>]>>]]
MCChildrenOf == [p |-> <<"m", "v">>, q |-> <<"c", "n", "s">>]
MCExpectedOf == [s |-> {"kept"}]
MCCheckOf == [m |-> [expected |-> "violation", unsupported |-> FALSE]]
MCTestsOf == [n |-> [minimum |-> 1, maximum |-> 0, required |-> {"t"}]]
MCPolicies ==
  {<<>>, [c |-> 1, n |-> 1, p |-> 1, v |-> 1], [c |-> 1, q |-> 1], [n |-> 1, q |-> 2]}

\* All is well at first, though the trace is not always the one wanted.  The new
\* code breaks the test and has the trace that the new definition of the
\* validation asks for, the new model admits nothing, and any edit of the code
\* or the model breaks the correspondence.
MCMet(d, seen) == {"kept"}
MCTracesOf(d, seen) ==
  IF seen["code"] = 0 THEN {<<"take", "hold", "give">>, <<"take">>} ELSE {<<"give", "take">>}
MCViolates(d, seen) == seen["model"] = 0
MCReport(d, seen) ==
  [declared |-> TRUE, result |-> "PASS", passed |-> 1, failed |-> 0, skipped |-> 0,
   passing |-> IF seen["code"] = 1 THEN {"u"} ELSE {"t"}]
MCTransitions(d, seen) ==
  {[parses |-> TRUE, missing |-> IF \A f \in DOMAIN seen : seen[f] = 0 THEN {} ELSE {"call"}]}

MCDirectoryOf ==
  [r \in Bundled |-> IF r \in {"validation1", "validation2"} THEN 1 ELSE 2]
MCCites == [r \in Bundled |-> IF r = "validation2" THEN {"scenario2"} ELSE {}]

MCInit ==
  /\ Init
  /\ BundleInit
  /\ ObligationInit
  /\ part \in {"graph", "bundle", "obligation"}
  /\ part # "bundle" => artifact = "old"

MCNext ==
  \/ part = "graph" /\ Next /\ UNCHANGED <<part, bundleVars, modelVars>>
  \/ part = "bundle" /\ BundleNext /\ UNCHANGED <<part, vars, modelVars>>
  \/ part = "obligation" /\ ObligationNext /\ UNCHANGED <<part, vars, bundleVars>>

MCSpec == MCInit /\ [][MCNext]_<<part, vars, bundleVars, modelVars>>
=============================================================================
