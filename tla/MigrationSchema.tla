-------------------------- MODULE MigrationSchema --------------------------
(***************************************************************************)
(* PostgreSQL migrations as sql_migrations.rs reads them: each statement   *)
(* changes an effective schema, or leaves a gap in the coverage where the  *)
(* extractor knows that it does not know.  A statement is a record, its    *)
(* `do` names the node of the parse tree.                                  *)
(*                                                                         *)
(* Below it is what the same statement does to a database, for the few     *)
(* properties the runs compare: the reference that nothing in src/ holds.  *)
(***************************************************************************)
EXTENDS Naturals, Sequences, FiniteSets

CONSTANTS
  SchemaOf,   \* schema of each table and view
  Nobody      \* no parent, no source of a LIKE

\* RELATIONS
SqlRelations ==
  {"schema", "table", "column", "column_type", "column_not_null", "primary_key",
   "unique_constraint", "foreign_key", "check_constraint", "partition_of", "inherits",
   "materialized_view"}

Global == [kind |-> "global", name |-> ""]
OfTable(t) == [kind |-> "table", name |-> t]
OfView(v) == [kind |-> "view", name |-> v]

Gap(relations, scope) == {[relation |-> r, scope |-> scope] : r \in relations}

\* Maps, empty at first; f, with the entries of g instead of its own.
Empty == [k \in {} |-> k]
Over(f, g) == [k \in DOMAIN f \cup DOMAIN g |-> IF k \in DOMAIN g THEN g[k] ELSE f[k]]
Entry(k, v) == [j \in {k} |-> v]
Without(f, keys) == [k \in DOMAIN f \ keys |-> f[k]]

\* EffectiveDatabaseSchema, and the gaps
EmptySchema ==
  [schemas |-> {}, tables |-> Empty, views |-> {}, partitions |-> Empty,
   inheritance |-> Empty, gaps |-> {}]

NoTable == [columns |-> Empty, constraints |-> Empty]

PrimaryColumns(table) ==
  UNION {table.constraints[n].columns :
           n \in {m \in DOMAIN table.constraints : table.constraints[m].kind = "primary"}}

\* generated_constraint_name; a given name is <<"given", name>>.
ConstraintName(c) ==
  CASE c.name # "" -> <<"given", c.name>>
    [] c.kind = "primary" -> <<"primary", {}>>
    [] OTHER -> <<c.kind, c.columns>>

\* add_constraint: a constraint takes the place of one of its name.
AddConstraints(table, constraints) ==
  [table EXCEPT !.constraints =
     Over(@, [n \in {ConstraintName(c) : c \in constraints} |->
                LET c == CHOOSE k \in constraints : ConstraintName(k) = n
                IN  [kind |-> c.kind, columns |-> c.columns, target |-> c.target]])]

\* add_column: name, type and NOT NULL of one column replace what was there.
AddColumn(table, column, state) ==
  [table EXCEPT !.columns = Over(@, Entry(column, state))]

\* inherit_safe_properties
Inherited(parent) ==
  [columns |->
     [c \in DOMAIN parent.columns |->
        [parent.columns[c] EXCEPT !.notNull = @ \/ c \in PrimaryColumns(parent)]],
   constraints |->
     Without(parent.constraints,
             {n \in DOMAIN parent.constraints : parent.constraints[n].kind # "check"})]

-----------------------------------------------------------------------------
(* apply_file                                                              *)

\* apply_create, with at most one parent.
ApplyCreate(e, s) ==
  LET known == s.parent \in DOMAIN e.tables
      start == IF known THEN Inherited(e.tables[s.parent]) ELSE NoTable
      table == AddConstraints([start EXCEPT !.columns = Over(@, s.columns)], s.constraints)
      parent == IF known THEN Entry(s.table, s.parent) ELSE Empty
      before == IF s.table \in DOMAIN e.inheritance THEN e.inheritance[s.table] ELSE {}
      heir == IF known THEN Entry(s.table, before \cup {s.parent}) ELSE Empty
      gaps ==
        CASE s.parent = Nobody -> {}
          [] ~known ->
               Gap({"column", "column_type", "column_not_null", "check_constraint"},
                   OfTable(s.table))
          [] s.partition ->
               Gap({"primary_key", "unique_constraint", "foreign_key"}, OfTable(s.table))
          [] OTHER -> {}
      expanded ==
        (IF s.typed THEN Gap({"column", "column_type", "column_not_null"}, OfTable(s.table))
         ELSE {})
        \cup
        (IF s.like = Nobody THEN {}
         ELSE Gap({"column", "column_type", "column_not_null", "check_constraint",
                   "primary_key", "unique_constraint"}, OfTable(s.table)))
  IN  IF s.guarded /\ s.table \in DOMAIN e.tables THEN e
      ELSE [schemas |-> e.schemas \cup {SchemaOf[s.table]},
            tables |-> Over(e.tables, Entry(s.table, table)),
            views |-> e.views,
            partitions |-> IF s.partition THEN Over(e.partitions, parent) ELSE e.partitions,
            inheritance |-> IF s.partition THEN e.inheritance ELSE Over(e.inheritance, heir),
            gaps |-> e.gaps \cup gaps \cup expanded]

\* apply_create_table_as
ApplyCreateAs(e, s) ==
  LET named == [e EXCEPT !.schemas = @ \cup {SchemaOf[s.table]}]
      unknown(scope) == Gap({"column", "column_type"}, scope)
  IN  IF s.view
      THEN [named EXCEPT !.views = @ \cup {s.table},
                         !.gaps = @ \cup unknown(OfView(s.table))]
      ELSE [named EXCEPT !.tables = Over(@, Entry(s.table, NoTable)),
                         !.gaps = @ \cup unknown(OfTable(s.table))]

\* apply_alter_command.  A column that is not known stays so.
AlteredTable(table, s) ==
  LET SetNotNull(b) ==
        IF s.column \notin DOMAIN table.columns THEN table
        ELSE [table EXCEPT !.columns[s.column].notNull = b]
  IN  CASE s.command = "add_column" -> AddColumn(table, s.column, s.state)
        [] s.command = "drop_column" ->
             [columns |-> Without(table.columns, {s.column}),
              constraints |->
                Without(table.constraints,
                        {n \in DOMAIN table.constraints :
                           /\ table.constraints[n].kind # "check"
                           /\ s.column \in table.constraints[n].columns})]
        [] s.command = "set_not_null" -> SetNotNull(TRUE)
        [] s.command = "drop_not_null" -> SetNotNull(FALSE)
        [] s.command = "add_constraint" -> AddConstraints(table, {s.constraint})
        [] s.command = "drop_constraint" ->
             [table EXCEPT !.constraints = Without(@, {ConstraintName(s.constraint)})]
        [] s.command \in {"alter_type", "other"} -> table

\* apply_alter_command without the statement it cannot classify.
ApplyAlter_Ignoring(e, s) ==
  IF s.table \notin DOMAIN e.tables
  THEN [e EXCEPT !.gaps = @ \cup Gap(SqlRelations, OfTable(s.table))]
  ELSE [e EXCEPT !.tables[s.table] = AlteredTable(@, s)]

\* apply_alter.  ALTER COLUMN TYPE is among what is passed over in silence.
ApplyAlter(e, s) ==
  IF s.table \notin DOMAIN e.tables
  THEN [e EXCEPT !.gaps = @ \cup Gap(SqlRelations, OfTable(s.table))]
  ELSE [e EXCEPT !.tables[s.table] = AlteredTable(@, s),
                 !.gaps = IF s.command = "other"
                          THEN @ \cup Gap(SqlRelations, OfTable(s.table)) ELSE @]

\* DROP TABLE that forgets the table, not whose child it was.
ApplyDrop_TableOnly(e, s) ==
  IF s.view THEN [e EXCEPT !.views = @ \ {s.table}]
  ELSE [e EXCEPT !.tables = Without(@, {s.table})]

\* apply_drop: the table and its own entries, whoever depends on it.
ApplyDrop(e, s) ==
  IF s.view THEN [e EXCEPT !.views = @ \ {s.table}]
  ELSE [e EXCEPT !.tables = Without(@, {s.table}),
                 !.partitions = Without(@, {s.table}),
                 !.inheritance = Without(@, {s.table})]

\* A statement with an unknown effect on the schema; classify_do decides it by
\* the words of the block.
ApplyUnknown(e) == [e EXCEPT !.gaps = @ \cup Gap(SqlRelations, Global)]

Apply(e, s) ==
  CASE s.do = "create_schema" -> [e EXCEPT !.schemas = @ \cup {s.schema}]
    [] s.do = "create_table" -> ApplyCreate(e, s)
    [] s.do = "create_as" -> ApplyCreateAs(e, s)
    [] s.do = "alter_table" -> ApplyAlter(e, s)
    [] s.do = "drop" -> ApplyDrop(e, s)
    [] s.do \in {"rename", "drop_schema"} -> ApplyUnknown(e)
    [] s.do = "block" -> IF s.suspect THEN ApplyUnknown(e) ELSE e
    [] s.do = "other" -> e

-----------------------------------------------------------------------------
(* emit_facts: the observed atoms.                                         *)

ConstraintAtom(t, n, c) ==
  CASE c.kind = "primary" -> <<"primary_key", <<t, c.columns>>>>
    [] c.kind = "unique" -> <<"unique_constraint", <<t, c.columns>>>>
    [] c.kind = "foreign" -> <<"foreign_key", <<t, c.columns, c.target>>>>
    [] OTHER -> <<"check_constraint", <<t, n>>>>

TableAtoms(t, table) ==
  {<<"table", <<t>>>>}
    \cup {<<"column", <<t, c>>>> : c \in DOMAIN table.columns}
    \cup {<<"column_type", <<t, c, table.columns[c].type>>>> : c \in DOMAIN table.columns}
    \cup {<<"column_not_null", <<t, c>>>> :
            c \in {k \in DOMAIN table.columns :
                     table.columns[k].notNull \/ k \in PrimaryColumns(table)}}
    \cup {ConstraintAtom(t, n, table.constraints[n]) : n \in DOMAIN table.constraints}

SqlAtoms(e) ==
  {<<"schema", <<n>>>> : n \in e.schemas}
    \cup (UNION {TableAtoms(t, e.tables[t]) : t \in DOMAIN e.tables})
    \cup {<<"materialized_view", <<v>>>> : v \in e.views}
    \cup {<<"partition_of", <<t, e.partitions[t]>>>> : t \in DOMAIN e.partitions}
    \cup UNION {{<<"inherits", <<t, p>>>> : p \in e.inheritance[t]} : t \in DOMAIN e.inheritance}

\* extract: every relation is closed but for the gaps.
SqlCoverage(e) ==
  {[relation |-> r, closed |-> TRUE, scope |-> Global] : r \in SqlRelations}
    \cup {[relation |-> g.relation, closed |-> FALSE, scope |-> g.scope] : g \in e.gaps}

-----------------------------------------------------------------------------
(* The database.  A relation has columns, keys by their names (one or none),  *)
(* and possibly a parent.                                                    *)

EmptyDatabase == Empty

Relation(columns, keys, parent, partition, view) ==
  [columns |-> columns, keys |-> keys, parent |-> parent, partition |-> partition,
   view |-> view]

Heirs(d, t) == {h \in DOMAIN d : d[h].parent = t}

ColumnsOf(d, t) == IF t = Nobody THEN Empty ELSE d[t].columns

KeysOf(constraints) ==
  [n \in {ConstraintName(c) : c \in {k \in constraints : k.kind = "primary"}} |->
     (CHOOSE c \in constraints : ConstraintName(c) = n).columns]

KeyColumns(keys) == UNION {keys[n] : n \in DOMAIN keys}

\* The relation of a CREATE TABLE.
Made(d, s) ==
  LET base == ColumnsOf(d, s.parent)
      like == ColumnsOf(d, s.like)
      states == Over(Over(like, base), s.columns)
      keys == KeysOf(s.constraints)
      NotNull(c) == \/ c \in KeyColumns(keys)
                    \/ \E part \in {base, like, s.columns} : c \in DOMAIN part /\ part[c].notNull
  IN  Relation([c \in DOMAIN states |-> [type |-> states[c].type, notNull |-> NotNull(c)]],
               keys, s.parent, s.partition, FALSE)

\* A migration that was run holds only what PostgreSQL accepts.  Inheritance
\* has one level, and only keys are added to a table.
Accepted(d, s) ==
  CASE s.do = "create_table" ->
         \/ s.guarded /\ s.table \in DOMAIN d
         \/ /\ s.table \notin DOMAIN d
            /\ s.parent = Nobody \/ (s.parent \in DOMAIN d /\ d[s.parent].parent = Nobody
                                      /\ ~d[s.parent].view)
            /\ s.like \in DOMAIN d \cup {Nobody}
            /\ KeyColumns(KeysOf(s.constraints)) \subseteq DOMAIN Made(d, s).columns
    [] s.do = "create_as" -> s.table \notin DOMAIN d
    [] s.do = "alter_table" ->
         /\ s.table \in DOMAIN d
         /\ LET old == d[s.table]
            IN  /\ ~old.view
                /\ CASE s.command = "add_column" -> s.column \notin DOMAIN old.columns
                     [] s.command = "add_constraint" ->
                          DOMAIN old.keys = {} /\ s.constraint.columns \subseteq DOMAIN old.columns
                     [] s.command = "drop_constraint" -> DOMAIN old.keys # {}
                     [] s.command = "other" ->
                          /\ s.parent \in DOMAIN d \ {s.table} /\ old.parent = Nobody
                          /\ Heirs(d, s.table) = {}
                          /\ d[s.parent].parent = Nobody /\ ~d[s.parent].view
                          /\ \A c \in DOMAIN d[s.parent].columns :
                               /\ c \in DOMAIN old.columns
                               /\ old.columns[c].type = d[s.parent].columns[c].type
                               /\ d[s.parent].columns[c].notNull => old.columns[c].notNull
                     [] OTHER ->
                          /\ s.column \in DOMAIN old.columns
                          /\ s.command # "set_not_null" => old.parent = Nobody
                          /\ s.command = "drop_not_null" => s.column \notin KeyColumns(old.keys)
    [] s.do = "drop" -> s.table \in DOMAIN d /\ d[s.table].view = s.view
    [] s.do = "rename" -> s.table \in DOMAIN d /\ s.to \notin DOMAIN d
    [] OTHER -> TRUE

\* One relation after an ALTER TABLE of it (own) or of its parent.  A key goes
\* with its columns and leaves them NOT NULL.
Altered(old, s, own) ==
  LET Not(columns, b) == [c \in DOMAIN old.columns |->
        IF c \in columns THEN [type |-> old.columns[c].type, notNull |-> b] ELSE old.columns[c]]
  IN  CASE s.command = "add_column" ->
             [old EXCEPT !.columns =
                IF s.column \in DOMAIN @ THEN Not({s.column}, @[s.column].notNull \/ s.state.notNull)
                ELSE Over(@, Entry(s.column, s.state))]
        [] s.command = "drop_column" ->
             [old EXCEPT !.columns = Without(@, {s.column}),
                         !.keys = Without(@, {n \in DOMAIN @ : s.column \in @[n]})]
        [] s.command = "set_not_null" -> [old EXCEPT !.columns = Not({s.column}, TRUE)]
        [] s.command = "drop_not_null" ->
             IF own THEN [old EXCEPT !.columns = Not({s.column}, FALSE)] ELSE old
        [] s.command = "alter_type" ->
             [old EXCEPT !.columns =
                [c \in DOMAIN @ |-> IF c = s.column THEN [type |-> s.type, notNull |-> @[c].notNull]
                                    ELSE @[c]]]
        [] s.command = "add_constraint" ->
             [old EXCEPT !.columns = Not(s.constraint.columns, TRUE),
                         !.keys = IF own THEN KeysOf({s.constraint}) ELSE @]
        [] s.command = "drop_constraint" ->
             IF own THEN [old EXCEPT !.keys = Without(@, {ConstraintName(s.constraint)})] ELSE old
        [] s.command = "other" -> IF own THEN [old EXCEPT !.parent = s.parent] ELSE old

\* A block may hide a statement of any kind; here it drops a table, or makes
\* one.
After(d, s) ==
  LET family == {s.table} \cup Heirs(d, s.table)
      Created(view) == Relation(s.columns, Empty, Nobody, FALSE, view)
  IN  CASE s.do = "create_table" ->
             IF s.table \in DOMAIN d THEN d ELSE Over(d, Entry(s.table, Made(d, s)))
        [] s.do = "create_as" -> Over(d, Entry(s.table, Created(s.view)))
        [] s.do = "alter_table" ->
             [t \in DOMAIN d |-> IF t \in family THEN Altered(d[t], s, t = s.table) ELSE d[t]]
        [] s.do = "drop" -> Without(d, family)
        [] s.do = "rename" ->
             [t \in (DOMAIN d \ {s.table}) \cup {s.to} |->
                IF t = s.to THEN d[s.table]
                ELSE [d[t] EXCEPT !.parent = IF @ = s.table THEN s.to ELSE @]]
        [] s.do = "block" /\ s.suspect ->
             IF s.table \in DOMAIN d THEN Without(d, family)
             ELSE Over(d, Entry(s.table, Created(FALSE)))
        [] OTHER -> d

\* The relations in which facts and database are compared.
Compared ==
  {"table", "column", "column_type", "column_not_null", "primary_key", "inherits",
   "materialized_view"}

DatabaseAtoms(d) ==
  UNION {{<<IF d[t].view THEN "materialized_view" ELSE "table", <<t>>>>}
           \cup {<<"column", <<t, c>>>> : c \in DOMAIN d[t].columns}
           \cup {<<"column_type", <<t, c, d[t].columns[c].type>>>> : c \in DOMAIN d[t].columns}
           \cup {<<"column_not_null", <<t, c>>>> :
                   c \in {k \in DOMAIN d[t].columns : d[t].columns[k].notNull}}
           \cup {<<"primary_key", <<t, d[t].keys[n]>>>> : n \in DOMAIN d[t].keys}
           \cup {<<"inherits", <<t, p>>>> :
                   p \in {q \in {d[t].parent} : q # Nobody /\ ~d[t].partition}} :
         t \in DOMAIN d}

\* What a statement does to the database that the extractor neither applies
\* nor declares a gap for: relations of tables about which its facts can be
\* wrong from then on.
Overlooked(d, e, s, missed) ==
  LET heirs == Heirs(d, s.table)
      known == IF s.table \in DOMAIN e.tables THEN DOMAIN e.tables[s.table].columns ELSE {}
      inherited == IF s.parent \in DOMAIN e.tables THEN DOMAIN e.tables[s.parent].columns ELSE {}
  IN  CASE s.do = "create_table" /\ s.table \in DOMAIN d ->
             \* skipped because of a view of this name, of which the extractor is unaware
             IF s.table \in DOMAIN e.tables THEN {} ELSE Compared \X {s.table}
        [] s.do = "create_table" /\ s.table \notin DOMAIN d ->
             \* a column of the child that repeats a NOT NULL column of the parent, a key
             \* column of which nothing is known, and what is not known of the parent
             (IF \/ s.parent # Nobody /\ DOMAIN s.columns # {}
                 \/ ~(KeyColumns(KeysOf(s.constraints)) \subseteq inherited \cup DOMAIN s.columns)
              THEN {<<"column_not_null", s.table>>} ELSE {})
             \cup {<<r, s.table>> :
                     r \in {q \in Compared : \/ [relation |-> q, scope |-> OfTable(s.parent)] \in e.gaps
                                             \/ <<q, s.parent>> \in missed}}
        [] s.do = "create_as" -> IF s.view THEN {"column", "column_type"} \X {s.table} ELSE {}
        [] s.do = "alter_table" ->
             ({"column", "column_type", "column_not_null"} \X heirs)
             \cup
             CASE s.command = "alter_type" -> {<<"column_type", s.table>>}
               [] s.command = "drop_column" ->
                    ({"primary_key"} \X heirs)
                      \cup (IF s.column \in KeyColumns(d[s.table].keys)
                            THEN {<<"column_not_null", s.table>>} ELSE {})
               [] s.command = "drop_constraint" -> {<<"column_not_null", s.table>>}
               [] s.command = "set_not_null" /\ s.column \notin known ->
                    {<<"column_not_null", s.table>>}
               [] s.command = "add_constraint" /\ ~(s.constraint.columns \subseteq known) ->
                    {<<"column_not_null", s.table>>}
               [] OTHER -> {}
        [] s.do = "drop" -> Compared \X heirs
        [] OTHER -> {}

-----------------------------------------------------------------------------
(* What a statement may hold, as the parser and PostgreSQL admit it.        *)

Kinds == {"primary", "unique", "foreign", "check"}

Names == DOMAIN SchemaOf

IsState(c) == c = [type |-> c.type, notNull |-> c.notNull] /\ c.notNull \in BOOLEAN

WellFormed(s) ==
  /\ s.do = "create_table" =>
       /\ s.table \in Names /\ {s.parent, s.like} \subseteq Names \cup {Nobody}
       /\ s.partition \in BOOLEAN
       /\ \A c \in DOMAIN s.columns : IsState(s.columns[c])
       /\ \A c \in s.constraints : c.kind \in Kinds
       /\ \A c, k \in s.constraints :
            \/ c = k
            \/ ConstraintName(c) # ConstraintName(k) /\ (c.kind # "primary" \/ k.kind # "primary")
  /\ s.do = "create_as" => s.table \in Names /\ s.view \in BOOLEAN
  /\ s.do \in {"create_as", "block"} => \A c \in DOMAIN s.columns : s.columns[c].notNull = FALSE
  /\ s.do = "alter_table" =>
       /\ s.table \in Names
       /\ s.command \in {"add_column", "drop_column", "set_not_null", "drop_not_null",
                         "alter_type", "add_constraint", "drop_constraint", "other"}
       /\ s.command = "add_column" => IsState(s.state)
       /\ s.command = "add_constraint" => s.constraint.kind = "primary"
       /\ s.command = "other" => s.parent \in Names
  /\ s.do = "drop" => s.table \in Names /\ s.view \in BOOLEAN
  /\ s.do = "rename" => {s.table, s.to} \subseteq Names
  /\ s.do = "block" => s.table \in Names /\ s.suspect \in BOOLEAN
  /\ s.do \in {"create_schema", "create_table", "create_as", "alter_table", "drop",
               "drop_schema", "rename", "block", "other"}
=============================================================================
