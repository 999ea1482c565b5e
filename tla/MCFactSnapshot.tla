--------------------------- MODULE MCFactSnapshot ---------------------------
(***************************************************************************)
(* An ADR, the configuration, one executable and one other project file.   *)
(* One configuration names the executable, the other names none.           *)
(***************************************************************************)
EXTENDS FactSnapshot

CONSTANTS adr, settings, tool, data, v1, v2

MCPaths == {adr, settings, tool, data}
MCSpecPaths == {adr, settings}
MCSources == {adr, data}
MCDecisions == {adr}
MCContents == {v1, v2}
MCExecutablesOf == [v \in {v1, v2, Absent} |-> IF v = v1 THEN {tool} ELSE {}]
MCObligationsOf == [v \in {v1, v2, Absent} |-> v]
MCOrder == [p \in MCPaths |-> CASE p = adr -> 1 [] p = settings -> 2
                                 [] p = tool -> 4 [] p = data -> 3]

\* The trees start out complete and with the provider configured.
MCInit == Init /\ \A p \in MCPaths : tree[p] = v1

MCSpec == MCInit /\ [][Next]_vars
=============================================================================
