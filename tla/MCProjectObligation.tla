------------------------ MODULE MCProjectObligation ------------------------
(***************************************************************************)
(* A schema of two tables and a view with two columns, a workspace of one  *)
(* package, and four ADRs.  The first requires a column of every table     *)
(* that it lists to be not null; the second declares the second table and  *)
(* forbids it a column; the third forbids a dependency unless a            *)
(* proposition holds; the fourth, proposed, takes the place of the first   *)
(* and only declares tables, columns and a relation.                       *)
(***************************************************************************)
EXTENDS ProjectObligation, TLC

CONSTANTS t, u, v, x, y, int, text, core, net

F == INSTANCE ClauseFormulas
MCAtomsOf(f) == F!Atoms(f)
MCHoldsIn(f, entities, world) == F!TrueIn(f, entities, world, F!Unbound)
MCHasType(f, propositions, entities, relations) ==
  F!WellTyped(f, propositions, entities, relations, F!Unbound)

MCSchemaOf == [k \in {t, u, v} |-> "public"]

MCDecisions == 1..4
MCInitial ==
  [a \in MCDecisions |->
     [status |-> IF a = 4 THEN "proposed" ELSE "accepted",
      supersedes |-> IF a = 4 THEN {1} ELSE {}, refers |-> IF a = 2 THEN {1} ELSE {}]]
MCSupersessions == {<<1, 4>>, <<2, 1>>, <<3, 3>>, <<4, 2>>}
MCPropositions == [a \in MCDecisions |-> IF a = 3 THEN {"exempt"} ELSE {}]
MCMembers ==
  << [Table |-> {t}, Column |-> {x, y}], [Table |-> {u}], [Package |-> {core, net}],
     [Table |-> {t}, Column |-> {x, y}] >>
MCSignatures ==
  << [column |-> <<"Table", "Column">>, column_not_null |-> <<"Table", "Column">>],
     <<>>, [declares_direct_dependency |-> <<"Package", "Package">>],
     [column |-> <<"Table", "Column">>] >>

Atom(r, arguments) == [op |-> "relation", name |-> r, arguments |-> arguments]
Yes == [op |-> "bool", value |-> TRUE]
Neg(f) == [op |-> "not", of |-> f]

MCClauses ==
  << {[op |-> "forall", variable |-> "k", type |-> "Table",
       guard |-> Atom("column", <<"k", x>>), body |-> Atom("column_not_null", <<"k", x>>)]},
     {Neg(Atom("column", <<u, y>>))},
     {[op |-> "or", left |-> Neg(Atom(Depends, <<core, net>>)),
       right |-> [op |-> "name", name |-> "exempt"]],
      Neg([op |-> "name", name |-> "exempt"])},
     {} >>

-----------------------------------------------------------------------------

Col(type, notNull) == [type |-> type, notNull |-> notNull]
Key(columns) == [kind |-> "primary", columns |-> columns, target |-> Nobody, name |-> ""]
Named == [kind |-> "primary", columns |-> {y}, target |-> Nobody, name |-> "key"]

CreateTable(table, columns, constraints) ==
  [do |-> "create_table", table |-> table, columns |-> columns, constraints |-> constraints,
   parent |-> Nobody, partition |-> FALSE, guarded |-> FALSE, like |-> Nobody, typed |-> FALSE]

Alter(table, command, column) ==
  [do |-> "alter_table", table |-> table, command |-> command, column |-> column]

MCStatements ==
  {CreateTable(t, x :> Col(int, FALSE), {Key({x})}),
   CreateTable(u, y :> Col(text, FALSE), {}),
   [CreateTable(u, <<>>, {}) EXCEPT !.parent = t],
   [CreateTable(u, <<>>, {Key({x})}) EXCEPT !.parent = t, !.partition = TRUE],
   [CreateTable(u, <<>>, {}) EXCEPT !.like = t],
   [CreateTable(t, y :> Col(int, FALSE), {Named}) EXCEPT !.guarded = TRUE],
   [CreateTable(v, <<>>, {}) EXCEPT !.guarded = TRUE],
   [do |-> "create_as", table |-> t, view |-> FALSE, columns |-> x :> Col(int, FALSE)],
   [do |-> "create_as", table |-> v, view |-> TRUE, columns |-> x :> Col(int, FALSE)],
   [do |-> "drop", table |-> t, view |-> FALSE],
   [do |-> "drop", table |-> u, view |-> FALSE],
   [do |-> "rename", table |-> t, to |-> u],
   [do |-> "block", table |-> t, suspect |-> TRUE, columns |-> y :> Col(int, FALSE)],
   Alter(t, "add_column", y) @@ [state |-> Col(text, TRUE)],
   Alter(t, "drop_column", x), Alter(t, "set_not_null", x), Alter(t, "drop_not_null", x),
   Alter(t, "alter_type", x) @@ [type |-> text],
   Alter(t, "add_constraint", x) @@ [constraint |-> Key({x})],
   Alter(t, "drop_constraint", x) @@ [constraint |-> Key({})],
   Alter(t, "drop_constraint", x) @@ [constraint |-> Named],
   Alter(u, "other", x) @@ [parent |-> t]}

MCDeclarations ==
  {[name |-> net, kind |-> "normal", optional |-> FALSE, targeted |-> FALSE, alias |-> 1],
   [name |-> net, kind |-> "normal", optional |-> TRUE, targeted |-> FALSE, alias |-> 2]}
=============================================================================
