--------------------------- MODULE ClauseFormulas ---------------------------
(***************************************************************************)
(* The formulas of ADR clauses (project.rs RelationalFormula) and what the *)
(* obligation does with them (lib.rs): type checking, what the SMT text    *)
(* says of a world, which facts are relevant, and whether the formula      *)
(* needs an absence that no provider answers for.                          *)
(*                                                                         *)
(* A formula is a record whose `op` is bool, name, relation, eq, ne, not,  *)
(* and, or, implies, forall or exists.  A world is the set of atoms        *)
(* <<relation, arguments>> that are true in it; a proposition `name` is    *)
(* the atom <<name, <<>>>>.  An absent guard is the formula TRUE.          *)
(***************************************************************************)
EXTENDS Naturals, Sequences, FiniteSets

Binary == {"and", "or", "implies"}
Quantifiers == {"forall", "exists"}

Bind(env, variable, value) ==
  [v \in DOMAIN env \cup {variable} |-> IF v = variable THEN value ELSE env[v]]

Denoted(term, env) == IF term \in DOMAIN env THEN env[term] ELSE term

Ground(arguments, env) == [i \in DOMAIN arguments |-> Denoted(arguments[i], env)]

\* emit_intent, expand_intent: the text quantifies over the declared members.
RECURSIVE TrueIn(_, _, _, _)
TrueIn(f, entities, world, env) ==
  LET Sub(g) == TrueIn(g, entities, world, env)
      For(v, g) == TrueIn(g, entities, world, Bind(env, f.variable, v))
  IN  CASE f.op = "bool" -> f.value
        [] f.op = "name" -> <<f.name, <<>>>> \in world
        [] f.op = "relation" -> <<f.name, Ground(f.arguments, env)>> \in world
        [] f.op = "eq" -> Denoted(f.left, env) = Denoted(f.right, env)
        [] f.op = "ne" -> Denoted(f.left, env) # Denoted(f.right, env)
        [] f.op = "not" -> ~Sub(f.of)
        [] f.op = "and" -> Sub(f.left) /\ Sub(f.right)
        [] f.op = "or" -> Sub(f.left) \/ Sub(f.right)
        [] f.op = "implies" -> Sub(f.left) => Sub(f.right)
        [] f.op = "forall" -> \A v \in entities[f.type] : For(v, f.guard) => For(v, f.body)
        [] f.op = "exists" -> \E v \in entities[f.type] : For(v, f.guard) /\ For(v, f.body)

\* The atoms of a formula, each with the variables that are bound around it
\* and the types they range over (formula_references_fact, relations_in_formula
\* and formula_requires_uncovered_absence all visit every one of them).
RECURSIVE AtomsWithin(_, _)
AtomsWithin(f, env) ==
  CASE f.op = "relation" -> {[name |-> f.name, arguments |-> f.arguments, env |-> env]}
    [] f.op = "not" -> AtomsWithin(f.of, env)
    [] f.op \in Binary -> AtomsWithin(f.left, env) \cup AtomsWithin(f.right, env)
    [] f.op \in Quantifiers ->
         LET inner == Bind(env, f.variable, f.type)
         IN  AtomsWithin(f.guard, inner) \cup AtomsWithin(f.body, inner)
    [] OTHER -> {}

Unbound == <<>>

Atoms(f) == AtomsWithin(f, Unbound)

\* term_type
TypesOf(term, entities, env) ==
  IF term \in DOMAIN env THEN {env[term]} ELSE {t \in DOMAIN entities : term \in entities[t]}

\* check_expr, for formulas that do not bind a variable twice.
RECURSIVE WellTyped(_, _, _, _, _)
WellTyped(f, propositions, entities, relations, env) ==
  LET Sub(g) == WellTyped(g, propositions, entities, relations, env)
  IN  CASE f.op = "bool" -> TRUE
        [] f.op = "name" -> f.name \in propositions
        [] f.op = "relation" ->
             /\ f.name \in DOMAIN relations
             /\ Len(relations[f.name]) = Len(f.arguments)
             /\ \A i \in DOMAIN f.arguments :
                  LET type == relations[f.name][i]
                  IN  \/ f.arguments[i] \in DOMAIN env /\ env[f.arguments[i]] = type
                      \/ type \in DOMAIN entities /\ f.arguments[i] \in entities[type]
        [] f.op \in {"eq", "ne"} ->
             TypesOf(f.left, entities, env) \cap TypesOf(f.right, entities, env) # {}
        [] f.op = "not" -> Sub(f.of)
        [] f.op \in Binary -> Sub(f.left) /\ Sub(f.right)
        [] f.op \in Quantifiers ->
             /\ f.type \in DOMAIN entities
             /\ LET inner == Bind(env, f.variable, f.type)
                IN  /\ WellTyped(f.guard, propositions, entities, relations, inner)
                    /\ WellTyped(f.body, propositions, entities, relations, inner)
=============================================================================
