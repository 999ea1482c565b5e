----------------------- MODULE ProjectObligationProofs -----------------------
(***************************************************************************)
(* Proofs about ProjectObligation and the schema it rests on.              *)
(*                                                                         *)
(* Schema: e is the extractor's schema, d the database, m what the         *)
(* extractor has missed.  As long as no gap is global, each table of the   *)
(* database is known to the extractor, and either one of the two has       *)
(* declared that it knows nothing of it, or they agree about it relation   *)
(* by relation.                                                            *)
(***************************************************************************)
EXTENDS ProjectObligation, FiniteSetTheorems, WellFoundedInduction, TLAPS

Blind(e) == Gap(SqlRelations, Global) \subseteq e.gaps

Lost(m, n) == Compared \X {n} \subseteq m

Dark(e, m, t) == Lost(m, t) \/ Gap(SqlRelations, OfTable(t)) \subseteq e.gaps

Off(e, m, r, t) == <<r, t>> \in m \/ [relation |-> r, scope |-> OfTable(t)] \in e.gaps

Primaries(table) == {n \in DOMAIN table.constraints : table.constraints[n].kind = "primary"}

SameKeys(table, relation) ==
  /\ Primaries(table) = DOMAIN relation.keys
  /\ \A n \in DOMAIN relation.keys : table.constraints[n].columns = relation.keys[n]

SameTypes(table, relation) ==
  /\ DOMAIN table.columns = DOMAIN relation.columns
  /\ \A c \in DOMAIN table.columns : table.columns[c].type = relation.columns[c].type

\* The columns that are not null to the extractor, and in the database.
Required(table) ==
  {c \in DOMAIN table.columns : table.columns[c].notNull \/ c \in PrimaryColumns(table)}
NotNullIn(relation) == {c \in DOMAIN relation.columns : relation.columns[c].notNull}

ParentsKnown(e, t) == IF t \in DOMAIN e.inheritance THEN e.inheritance[t] ELSE {}
ParentsIn(relation) == {p \in {relation.parent} : p # Nobody /\ ~relation.partition}

Agree(e, d, m, t) ==
  /\ ParentsKnown(e, t) = ParentsIn(d[t])
  /\ \/ SameKeys(e.tables[t], d[t])
     \/ Off(e, m, "primary_key", t) /\ Off(e, m, "column_not_null", t)
  /\ Off(e, m, "column", t) \/ DOMAIN e.tables[t].columns = DOMAIN d[t].columns
  /\ Off(e, m, "column_type", t) \/ SameTypes(e.tables[t], d[t])
  /\ Off(e, m, "column_not_null", t) \/ Required(e.tables[t]) = NotNullIn(d[t])

\* A gap covers what is not known of a table, never what is said of it: that
\* is there, but for what is missed.
KeysWithin(table, relation) ==
  /\ Primaries(table) \subseteq DOMAIN relation.keys
  /\ \A n \in Primaries(table) : table.constraints[n].columns = relation.keys[n]

TypesWithin(table, relation) ==
  \A c \in DOMAIN table.columns :
    c \in DOMAIN relation.columns /\ table.columns[c].type = relation.columns[c].type

Within(e, d, m, t) ==
  /\ ParentsKnown(e, t) \subseteq ParentsIn(d[t])
  /\ \/ KeysWithin(e.tables[t], d[t])
     \/ {"primary_key", "column_not_null"} \X {t} \subseteq m
  /\ <<"column", t>> \in m \/ DOMAIN e.tables[t].columns \subseteq DOMAIN d[t].columns
  /\ <<"column_type", t>> \in m \/ TypesWithin(e.tables[t], d[t])
  /\ <<"column_not_null", t>> \in m \/ Required(e.tables[t]) \subseteq NotNullIn(d[t])

TableOK(e, d, m, t) ==
  /\ t \in DOMAIN e.tables
  /\ Lost(m, t) \/ Within(e, d, m, t)
  /\ Dark(e, m, t) \/ Agree(e, d, m, t)

ViewOK(e, d, m, v) ==
  /\ v \in e.views \/ Lost(m, v)
  /\ {"column", "column_type"} \X {v} \subseteq m
  /\ DOMAIN d[v].keys = {} /\ d[v].parent = Nobody /\ NotNullIn(d[v]) = {}

NameOK(e, d, m, n) ==
  /\ n \in e.views => (n \in DOMAIN d /\ d[n].view) \/ Lost(m, n)
  /\ n \in DOMAIN e.tables => (n \in DOMAIN d /\ ~d[n].view) \/ Lost(m, n)
  /\ n \in DOMAIN d => IF d[n].view THEN ViewOK(e, d, m, n) ELSE TableOK(e, d, m, n)

RelationsOK(e, d, m) == \A n \in Names : NameOK(e, d, m, n)

TableShape(table) ==
  /\ table = [columns |-> table.columns, constraints |-> table.constraints]
  /\ \A c \in DOMAIN table.columns : IsState(table.columns[c])

SchemaShape(e) ==
  /\ e = [schemas |-> e.schemas, tables |-> e.tables, views |-> e.views,
          partitions |-> e.partitions, inheritance |-> e.inheritance, gaps |-> e.gaps]
  /\ DOMAIN e.partitions \cup DOMAIN e.inheritance \subseteq DOMAIN e.tables
  /\ DOMAIN e.tables \cup e.views \subseteq Names
  /\ \A t \in DOMAIN e.tables : TableShape(e.tables[t])

RelationShape(r) ==
  /\ r = Relation(r.columns, r.keys, r.parent, r.partition, r.view)
  /\ r.view \in BOOLEAN /\ r.partition \in BOOLEAN
  /\ KeyColumns(r.keys) \subseteq DOMAIN r.columns

DatabaseShape(d) ==
  /\ DOMAIN d \subseteq Names
  /\ \A t \in DOMAIN d : RelationShape(d[t])

SchemaInv(e, d, m) ==
  /\ SchemaShape(e) /\ DatabaseShape(d) /\ m \subseteq Compared \X Names
  /\ Blind(e) \/ RelationsOK(e, d, m)

-----------------------------------------------------------------------------
(* What a statement leaves alone.                                          *)

LEMMA AgreeStays ==
  ASSUME NEW e, NEW d, NEW m, NEW e2, NEW d2, NEW m2, NEW n,
         Agree(e, d, m, n), m \subseteq m2, e.gaps \subseteq e2.gaps,
         e2.tables[n] = e.tables[n], ParentsKnown(e2, n) = ParentsKnown(e, n), d2[n] = d[n]
  PROVE  Agree(e2, d2, m2, n)
BY DEF Agree, Off

LEMMA DarkStays ==
  ASSUME NEW e, NEW m, NEW e2, NEW m2, NEW n, Dark(e, m, n),
         m \subseteq m2, e.gaps \subseteq e2.gaps
  PROVE  Dark(e2, m2, n)
BY DEF Dark, Lost

LEMMA WithinStays ==
  ASSUME NEW e, NEW d, NEW m, NEW e2, NEW d2, NEW m2, NEW n,
         Within(e, d, m, n), m \subseteq m2,
         e2.tables[n] = e.tables[n], ParentsKnown(e2, n) = ParentsKnown(e, n), d2[n] = d[n]
  PROVE  Within(e2, d2, m2, n)
<1>1. {"primary_key", "column_not_null"} \X {n} \subseteq m
        => {"primary_key", "column_not_null"} \X {n} \subseteq m2
  OBVIOUS
<1>2. QED
  BY <1>1 DEF Within

LEMMA Untouched ==
  ASSUME NEW e, NEW d, NEW m, NEW e2, NEW d2, NEW m2, NEW n,
         NameOK(e, d, m, n), m \subseteq m2, e.gaps \subseteq e2.gaps,
         n \in e2.views <=> n \in e.views,
         n \in DOMAIN e2.tables <=> n \in DOMAIN e.tables,
         n \in DOMAIN e.tables => e2.tables[n] = e.tables[n],
         ParentsKnown(e2, n) = ParentsKnown(e, n),
         n \in DOMAIN d2 <=> n \in DOMAIN d,
         n \in DOMAIN d => d2[n] = d[n]
  PROVE  NameOK(e2, d2, m2, n)
<1>1. Lost(m, n) => Lost(m2, n)
  BY DEF Lost
<1>2. ASSUME n \in DOMAIN d, ~d[n].view PROVE TableOK(e2, d2, m2, n)
  BY <1>1, <1>2, AgreeStays, DarkStays, WithinStays DEF NameOK, TableOK
<1>3. ASSUME n \in DOMAIN d, d[n].view PROVE ViewOK(e2, d2, m2, n)
  BY <1>1, <1>3 DEF NameOK, ViewOK
<1>4. QED
  BY <1>1, <1>2, <1>3 DEF NameOK

\* Nothing is said of a name that is lost.
LEMMA LostIsOK ==
  ASSUME NEW e, NEW d, NEW m, NEW n, Lost(m, n),
         n \in DOMAIN d => IF d[n].view
                           THEN DOMAIN d[n].keys = {} /\ d[n].parent = Nobody /\ NotNullIn(d[n]) = {}
                           ELSE n \in DOMAIN e.tables
  PROVE  NameOK(e, d, m, n)
<1>1. {"column", "column_type"} \X {n} \subseteq m
  BY DEF Lost, Compared
<1>2. QED
  BY <1>1 DEF NameOK, ViewOK, TableOK, Dark

\* What is forgotten is of names that neither side has.
LEMMA Forgetting ==
  ASSUME NEW e, NEW d, NEW m, RelationsOK(e, d, m),
         NEW k, k = {x \in m : x[2] \in DOMAIN d \cup DOMAIN e.tables \cup e.views}
  PROVE  RelationsOK(e, d, k)
<1> SUFFICES ASSUME NEW n \in Names PROVE NameOK(e, d, k, n)
  BY DEF RelationsOK
<1>1. CASE n \in DOMAIN d \cup DOMAIN e.tables \cup e.views
  <2>1. \A r : <<r, n>> \in m <=> <<r, n>> \in k
    BY <1>1
  <2>2. Lost(m, n) <=> Lost(k, n)
    BY <2>1 DEF Lost
  <2>3. {"column", "column_type"} \X {n} \subseteq m => {"column", "column_type"} \X {n} \subseteq k
    BY <2>1
  <2>4. \A r : Off(e, m, r, n) <=> Off(e, k, r, n)
    BY <2>1 DEF Off
  <2>5. Agree(e, d, m, n) => Agree(e, d, k, n)
    BY <2>4 DEF Agree
  <2>6. Within(e, d, m, n) => Within(e, d, k, n)
    <3>1. {"primary_key", "column_not_null"} \X {n} \subseteq m
            => {"primary_key", "column_not_null"} \X {n} \subseteq k
      BY <2>1
    <3>2. QED
      BY <2>1, <3>1 DEF Within
  <2>7. NameOK(e, d, m, n)
    BY DEF RelationsOK
  <2>8. QED
    BY <2>2, <2>3, <2>5, <2>6, <2>7 DEF NameOK, ViewOK, TableOK, Dark
<1>2. CASE n \notin DOMAIN d \cup DOMAIN e.tables \cup e.views
  BY <1>2 DEF NameOK
<1>3. QED
  BY <1>1, <1>2

-----------------------------------------------------------------------------
(* The relations of the facts.                                             *)

LEMMA ComparedAreSql == Compared \subseteq SqlRelations
BY DEF Compared, SqlRelations

LEMMA PrimaryOfKeys ==
  ASSUME NEW table, NEW relation, SameKeys(table, relation)
  PROVE  PrimaryColumns(table) = KeyColumns(relation.keys)
<1>1. PrimaryColumns(table) = UNION {table.constraints[n].columns : n \in Primaries(table)}
  BY DEF PrimaryColumns, Primaries
<1>2. {table.constraints[n].columns : n \in Primaries(table)}
        = {relation.keys[n] : n \in DOMAIN relation.keys}
  BY DEF SameKeys
<1>3. QED
  BY <1>1, <1>2 DEF KeyColumns

LEMMA PrimaryOfKeysWithin ==
  ASSUME NEW table, NEW relation, KeysWithin(table, relation)
  PROVE  PrimaryColumns(table) \subseteq KeyColumns(relation.keys)
<1>1. PrimaryColumns(table) = UNION {table.constraints[n].columns : n \in Primaries(table)}
  BY DEF PrimaryColumns, Primaries
<1>2. QED
  BY <1>1 DEF KeysWithin, KeyColumns

LEMMA AddedKeys ==
  ASSUME NEW start, start = [columns |-> start.columns, constraints |-> start.constraints],
         Primaries(start) = {}, NEW cs,
         \A c, k \in cs : c = k \/ ConstraintName(c) # ConstraintName(k),
         NEW relation, relation.keys = KeysOf(cs)
  PROVE  /\ AddConstraints(start, cs) = [columns |-> start.columns,
                                         constraints |-> AddConstraints(start, cs).constraints]
         /\ SameKeys(AddConstraints(start, cs), relation)
<1> DEFINE named == {ConstraintName(c) : c \in cs}
           The(n) == CHOOSE c \in cs : ConstraintName(c) = n
           new == [n \in named |-> [kind |-> The(n).kind, columns |-> The(n).columns,
                                    target |-> The(n).target]]
           all == Over(start.constraints, new)
<1>1. AddConstraints(start, cs) = [columns |-> start.columns, constraints |-> all]
  BY DEF AddConstraints
<1>2. \A c \in cs : The(ConstraintName(c)) = c
  OBVIOUS
<1>3. DOMAIN all = DOMAIN start.constraints \cup named
  BY DEF Over
<1>4. \A n \in named : all[n] = new[n] /\ all[n].kind = The(n).kind /\ all[n].columns = The(n).columns
  BY DEF Over
<1>5. \A n \in DOMAIN all \ named : all[n].kind # "primary"
  BY <1>3 DEF Over, Primaries
<1>6. DOMAIN relation.keys = {ConstraintName(c) : c \in {k \in cs : k.kind = "primary"}}
  BY DEF KeysOf
<1>7. \A n \in DOMAIN relation.keys : relation.keys[n] = The(n).columns /\ n \in named
  BY <1>6 DEF KeysOf
<1> HIDE DEF all, new, The
<1>8. \A n \in named : all[n].kind = "primary" <=> n \in DOMAIN relation.keys
  BY <1>2, <1>4, <1>6
<1>9. {n \in DOMAIN all : all[n].kind = "primary"} = DOMAIN relation.keys
  BY <1>3, <1>5, <1>6, <1>8
<1>10. QED
  BY <1>1, <1>4, <1>7, <1>9 DEF SameKeys, Primaries

-----------------------------------------------------------------------------
(* CREATE TABLE                                                            *)

\* The table that apply_create makes.
CreatedTable(e, s) ==
  LET start == IF s.parent \in DOMAIN e.tables THEN Inherited(e.tables[s.parent]) ELSE NoTable
  IN  AddConstraints([start EXCEPT !.columns = Over(@, s.columns)], s.constraints)

LEMMA OverAt ==
  ASSUME NEW f, NEW g
  PROVE  /\ DOMAIN Over(f, g) = DOMAIN f \cup DOMAIN g
         /\ \A k \in DOMAIN g : Over(f, g)[k] = g[k]
         /\ \A k \in DOMAIN f \ DOMAIN g : Over(f, g)[k] = f[k]
BY DEF Over

LEMMA EntryAt ==
  ASSUME NEW k, NEW v
  PROVE  DOMAIN Entry(k, v) = {k} /\ Entry(k, v)[k] = v
BY DEF Entry

\* Inherited, and nothing, are tables without a key.
LEMMA InheritedTable ==
  ASSUME NEW parent, TableShape(parent)
  PROVE  /\ Inherited(parent) = [columns |-> Inherited(parent).columns,
                                 constraints |-> Inherited(parent).constraints]
         /\ Primaries(Inherited(parent)) = {}
         /\ DOMAIN Inherited(parent).columns = DOMAIN parent.columns
         /\ \A c \in DOMAIN parent.columns :
              /\ IsState(Inherited(parent).columns[c])
              /\ Inherited(parent).columns[c].type = parent.columns[c].type
              /\ Inherited(parent).columns[c].notNull <=> c \in Required(parent)
<1>1. Inherited(parent) = [columns |-> Inherited(parent).columns,
                           constraints |-> Inherited(parent).constraints]
  BY DEF Inherited
<1>2. Primaries(Inherited(parent)) = {}
  BY DEF Inherited, Primaries, Without
<1>3. DOMAIN Inherited(parent).columns = DOMAIN parent.columns
  BY DEF Inherited
<1>4. ASSUME NEW c \in DOMAIN parent.columns
      PROVE  Inherited(parent).columns[c] = [type |-> parent.columns[c].type,
               notNull |-> parent.columns[c].notNull \/ c \in PrimaryColumns(parent)]
  <2>1. Inherited(parent).columns[c]
          = [parent.columns[c] EXCEPT !.notNull = @ \/ c \in PrimaryColumns(parent)]
    BY DEF Inherited
  <2>2. IsState(parent.columns[c])
    BY DEF TableShape
  <2>3. QED
    BY <2>1, <2>2 DEF IsState
<1>5. ASSUME NEW c \in DOMAIN parent.columns
      PROVE  /\ IsState(Inherited(parent).columns[c])
             /\ Inherited(parent).columns[c].type = parent.columns[c].type
             /\ Inherited(parent).columns[c].notNull <=> c \in Required(parent)
  <2> DEFINE type == parent.columns[c].type
             notNull == parent.columns[c].notNull \/ c \in PrimaryColumns(parent)
             state == Inherited(parent).columns[c]
  <2>1. state = [type |-> type, notNull |-> notNull]
    BY <1>4
  <2>2. notNull \in BOOLEAN
    OBVIOUS
  <2>3. notNull <=> c \in Required(parent)
    BY DEF Required
  <2> HIDE DEF notNull, type, state
  <2>4. state.type = type /\ state.notNull = notNull /\ IsState(state)
    BY <2>1, <2>2 DEF IsState
  <2>5. QED
    BY <2>3, <2>4 DEF type, state
<1>6. QED
  BY <1>1, <1>2, <1>3, <1>5

LEMMA CreatedTableIs ==
  ASSUME NEW e, NEW s, SchemaShape(e), WellFormed(s), s.do = "create_table",
         NEW inherited,
         inherited = IF s.parent \in DOMAIN e.tables
                     THEN Inherited(e.tables[s.parent]).columns ELSE Empty
  PROVE  /\ CreatedTable(e, s) = [columns |-> Over(inherited, s.columns),
                                  constraints |-> CreatedTable(e, s).constraints]
         /\ TableShape(CreatedTable(e, s))
         /\ SameKeys(CreatedTable(e, s), [keys |-> KeysOf(s.constraints)])
<1> DEFINE start == IF s.parent \in DOMAIN e.tables THEN Inherited(e.tables[s.parent]) ELSE NoTable
           full == [start EXCEPT !.columns = Over(@, s.columns)]
<1>1. start = [columns |-> inherited, constraints |-> start.constraints] /\ Primaries(start) = {}
  <2>1. CASE s.parent \in DOMAIN e.tables
    <3>1. TableShape(e.tables[s.parent])
      BY <2>1 DEF SchemaShape
    <3>2. start = Inherited(e.tables[s.parent]) /\ inherited = start.columns
      BY <2>1
    <3>3. QED
      BY <3>1, <3>2, InheritedTable
  <2>2. CASE s.parent \notin DOMAIN e.tables
    <3>1. start = [columns |-> Empty, constraints |-> Empty] /\ inherited = Empty
      BY <2>2 DEF NoTable
    <3>2. QED
      BY <3>1 DEF Primaries, Empty
  <2>3. QED
    BY <2>1, <2>2
<1>2. \A c \in DOMAIN inherited : IsState(inherited[c])
  <2>1. CASE s.parent \in DOMAIN e.tables
    <3>1. TableShape(e.tables[s.parent])
      BY <2>1 DEF SchemaShape
    <3>2. QED
      BY <2>1, <3>1, InheritedTable
  <2>2. QED
    BY <2>1 DEF Empty
<1>3. \A c \in DOMAIN s.columns : IsState(s.columns[c])
  BY DEF WellFormed
<1> HIDE DEF start
<1>4. full = [columns |-> Over(inherited, s.columns), constraints |-> start.constraints]
  BY <1>1
<1>5. Primaries(full) = {}
  BY <1>1, <1>4 DEF Primaries
<1>6. \A c, k \in s.constraints : c = k \/ ConstraintName(c) # ConstraintName(k)
  BY DEF WellFormed
<1> HIDE DEF full
<1>7. /\ AddConstraints(full, s.constraints)
           = [columns |-> full.columns, constraints |-> AddConstraints(full, s.constraints).constraints]
      /\ SameKeys(AddConstraints(full, s.constraints), [keys |-> KeysOf(s.constraints)])
  BY <1>4, <1>5, <1>6, AddedKeys
<1>8. CreatedTable(e, s) = AddConstraints(full, s.constraints)
  BY DEF CreatedTable, full, start
<1> DEFINE columns == Over(inherited, s.columns)
<1>9. \A c \in DOMAIN columns : IsState(columns[c])
  <2>1. /\ DOMAIN columns = DOMAIN inherited \cup DOMAIN s.columns
        /\ \A c \in DOMAIN s.columns : columns[c] = s.columns[c]
        /\ \A c \in DOMAIN inherited \ DOMAIN s.columns : columns[c] = inherited[c]
    BY DEF Over
  <2> HIDE DEF columns
  <2>2. QED
    BY <1>2, <1>3, <2>1
<1>10. CreatedTable(e, s) = [columns |-> columns, constraints |-> CreatedTable(e, s).constraints]
  BY <1>4, <1>7, <1>8
<1> HIDE DEF columns
<1>11. TableShape(CreatedTable(e, s))
  BY <1>9, <1>10 DEF TableShape
<1>12. QED
  BY <1>7, <1>8, <1>10, <1>11 DEF columns

\* What apply_create does to the maps.
LEMMA CreateEffect ==
  ASSUME NEW e, NEW s, SchemaShape(e), WellFormed(s), s.do = "create_table",
         ~(s.guarded /\ s.table \in DOMAIN e.tables),
         NEW e2, e2 = ApplyCreate(e, s)
  PROVE  /\ e2 = [schemas |-> e2.schemas, tables |-> e2.tables, views |-> e2.views,
                  partitions |-> e2.partitions, inheritance |-> e2.inheritance, gaps |-> e2.gaps]
         /\ e2.views = e.views
         /\ e2.tables = Over(e.tables, Entry(s.table, CreatedTable(e, s)))
         /\ e.gaps \subseteq e2.gaps
         /\ s.typed => Gap({"column", "column_type", "column_not_null"}, OfTable(s.table)) \subseteq e2.gaps
         /\ s.like # Nobody =>
              Gap({"column", "column_type", "column_not_null", "check_constraint",
                   "primary_key", "unique_constraint"}, OfTable(s.table)) \subseteq e2.gaps
         /\ DOMAIN e2.partitions \subseteq DOMAIN e.partitions \cup {s.table}
         /\ DOMAIN e2.inheritance \subseteq DOMAIN e.inheritance \cup {s.table}
         /\ \A n : ParentsKnown(e2, n) =
              IF n = s.table /\ s.parent \in DOMAIN e.tables /\ ~s.partition
              THEN ParentsKnown(e, n) \cup {s.parent} ELSE ParentsKnown(e, n)
<1> DEFINE known == s.parent \in DOMAIN e.tables
           parent == IF known THEN Entry(s.table, s.parent) ELSE Empty
           heir == IF known THEN Entry(s.table, ParentsKnown(e, s.table) \cup {s.parent}) ELSE Empty
           gaps ==
             CASE s.parent = Nobody -> {}
               [] ~known ->
                    Gap({"column", "column_type", "column_not_null", "check_constraint"},
                        OfTable(s.table))
               [] s.partition ->
                    Gap({"primary_key", "unique_constraint", "foreign_key"}, OfTable(s.table))
               [] OTHER -> {}
           typed == IF s.typed THEN Gap({"column", "column_type", "column_not_null"}, OfTable(s.table))
                    ELSE {}
           like == IF s.like = Nobody THEN {}
                   ELSE Gap({"column", "column_type", "column_not_null", "check_constraint",
                             "primary_key", "unique_constraint"}, OfTable(s.table))
           partitions == IF s.partition THEN Over(e.partitions, parent) ELSE e.partitions
           inheritance == IF s.partition THEN e.inheritance ELSE Over(e.inheritance, heir)
<1>1. e2 = [schemas |-> e.schemas \cup {SchemaOf[s.table]},
            tables |-> Over(e.tables, Entry(s.table, CreatedTable(e, s))),
            views |-> e.views, partitions |-> partitions, inheritance |-> inheritance,
            gaps |-> e.gaps \cup gaps \cup (typed \cup like)]
  BY DEF ApplyCreate, CreatedTable, ParentsKnown
<1>2. DOMAIN partitions \subseteq DOMAIN e.partitions \cup {s.table}
  BY DEF Over, Entry, Empty
<1>3. DOMAIN inheritance \subseteq DOMAIN e.inheritance \cup {s.table}
  BY DEF Over, Entry, Empty
<1>4. ASSUME NEW n
      PROVE  (IF n \in DOMAIN inheritance THEN inheritance[n] ELSE {}) =
               IF n = s.table /\ known /\ ~s.partition
               THEN ParentsKnown(e, n) \cup {s.parent} ELSE ParentsKnown(e, n)
  <2>1. CASE s.partition \/ ~known
    BY <2>1 DEF ParentsKnown, Over, Empty
  <2>2. CASE ~s.partition /\ known
    BY <2>2 DEF ParentsKnown, Over, Entry
  <2>3. QED
    BY <2>1, <2>2
<1> HIDE DEF gaps, typed, like, partitions, inheritance, known
<1>5. /\ s.typed => typed = Gap({"column", "column_type", "column_not_null"}, OfTable(s.table))
      /\ s.like # Nobody =>
           like = Gap({"column", "column_type", "column_not_null", "check_constraint",
                       "primary_key", "unique_constraint"}, OfTable(s.table))
  BY DEF typed, like
<1>6. \A n : ParentsKnown(e2, n) = IF n \in DOMAIN inheritance THEN inheritance[n] ELSE {}
  BY <1>1 DEF ParentsKnown
<1>7. /\ e2.gaps = e.gaps \cup gaps \cup (typed \cup like)
      /\ e2.tables = Over(e.tables, Entry(s.table, CreatedTable(e, s)))
      /\ e2.views = e.views /\ e2.partitions = partitions /\ e2.inheritance = inheritance
  BY <1>1
<1>8. e2 = [schemas |-> e2.schemas, tables |-> e2.tables, views |-> e2.views,
            partitions |-> e2.partitions, inheritance |-> e2.inheritance, gaps |-> e2.gaps]
  BY <1>1
<1>9. \A n : ParentsKnown(e2, n) =
              IF n = s.table /\ s.parent \in DOMAIN e.tables /\ ~s.partition
              THEN ParentsKnown(e, n) \cup {s.parent} ELSE ParentsKnown(e, n)
  BY <1>4, <1>6 DEF known
<1>10. QED
  BY <1>2, <1>3, <1>5, <1>7, <1>8, <1>9

LEMMA CreateShape ==
  ASSUME NEW e, NEW s, SchemaShape(e), WellFormed(s), s.do = "create_table"
  PROVE  SchemaShape(ApplyCreate(e, s)) /\ e.gaps \subseteq ApplyCreate(e, s).gaps
<1>1. CASE s.guarded /\ s.table \in DOMAIN e.tables
  BY <1>1 DEF ApplyCreate
<1>2. CASE ~(s.guarded /\ s.table \in DOMAIN e.tables)
  <2> DEFINE e2 == ApplyCreate(e, s)
  <2>1. /\ e2 = [schemas |-> e2.schemas, tables |-> e2.tables, views |-> e2.views,
                 partitions |-> e2.partitions, inheritance |-> e2.inheritance, gaps |-> e2.gaps]
        /\ e2.views = e.views
        /\ e2.tables = Over(e.tables, Entry(s.table, CreatedTable(e, s)))
        /\ e.gaps \subseteq e2.gaps
        /\ DOMAIN e2.partitions \subseteq DOMAIN e.partitions \cup {s.table}
        /\ DOMAIN e2.inheritance \subseteq DOMAIN e.inheritance \cup {s.table}
    BY <1>2, CreateEffect
  <2> HIDE DEF e2
  <2>2. /\ DOMAIN e2.tables = DOMAIN e.tables \cup {s.table}
        /\ e2.tables[s.table] = CreatedTable(e, s)
        /\ \A n \in DOMAIN e.tables \ {s.table} : e2.tables[n] = e.tables[n]
    BY <2>1 DEF Over, Entry
  <2>3. s.table \in Names
    BY DEF WellFormed
  <2>4. TableShape(CreatedTable(e, s))
    BY CreatedTableIs
  <2>5. SchemaShape(e2)
    BY <2>1, <2>2, <2>3, <2>4 DEF SchemaShape
  <2>6. QED
    BY <2>1, <2>5 DEF e2
<1>3. QED
  BY <1>1, <1>2

\* The relation that the database makes, without a parent and with one.
LEMMA MadeAlone ==
  ASSUME NEW d, NEW s, s.parent = Nobody, s.like = Nobody
  PROVE  /\ DOMAIN Made(d, s).columns = DOMAIN s.columns
         /\ \A c \in DOMAIN s.columns :
              /\ Made(d, s).columns[c].type = s.columns[c].type
              /\ Made(d, s).columns[c].notNull
                   <=> (c \in KeyColumns(KeysOf(s.constraints)) \/ s.columns[c].notNull)
<1> DEFINE keys == KeysOf(s.constraints)
           states == Over(Over(Empty, Empty), s.columns)
           NotNull(c) == \/ c \in KeyColumns(keys)
                         \/ \E part \in {Empty, Empty, s.columns} : c \in DOMAIN part /\ part[c].notNull
<1>1. Made(d, s).columns = [c \in DOMAIN states |-> [type |-> states[c].type, notNull |-> NotNull(c)]]
  BY DEF Made, Relation, ColumnsOf
<1>2. DOMAIN states = DOMAIN s.columns /\ \A c \in DOMAIN s.columns : states[c] = s.columns[c]
  BY DEF Over, Empty
<1>3. \A c \in DOMAIN s.columns : NotNull(c) <=> (c \in KeyColumns(keys) \/ s.columns[c].notNull)
  BY DEF Empty
<1> HIDE DEF NotNull, states
<1>4. QED
  BY <1>1, <1>2, <1>3

LEMMA MadeOfParent ==
  ASSUME NEW d, NEW s, s.parent # Nobody, s.like = Nobody
  PROVE  /\ DOMAIN Made(d, s).columns = DOMAIN d[s.parent].columns \cup DOMAIN s.columns
         /\ \A c \in DOMAIN Made(d, s).columns :
              /\ Made(d, s).columns[c].type =
                   IF c \in DOMAIN s.columns THEN s.columns[c].type ELSE d[s.parent].columns[c].type
              /\ Made(d, s).columns[c].notNull
                   <=> \/ c \in KeyColumns(KeysOf(s.constraints))
                       \/ c \in DOMAIN s.columns /\ s.columns[c].notNull
                       \/ c \in NotNullIn(d[s.parent])
<1> DEFINE keys == KeysOf(s.constraints)
           base == d[s.parent].columns
           states == Over(Over(Empty, base), s.columns)
           NotNull(c) == \/ c \in KeyColumns(keys)
                         \/ \E part \in {base, Empty, s.columns} : c \in DOMAIN part /\ part[c].notNull
<1>1. Made(d, s).columns = [c \in DOMAIN states |-> [type |-> states[c].type, notNull |-> NotNull(c)]]
  BY DEF Made, Relation, ColumnsOf
<1>2. /\ DOMAIN states = DOMAIN base \cup DOMAIN s.columns
      /\ \A c \in DOMAIN states : states[c] = IF c \in DOMAIN s.columns THEN s.columns[c] ELSE base[c]
  BY DEF Over, Empty
<1>3. \A c : NotNull(c) <=> \/ c \in KeyColumns(keys)
                            \/ c \in DOMAIN s.columns /\ s.columns[c].notNull
                            \/ c \in NotNullIn(d[s.parent])
  BY DEF Empty, NotNullIn
<1> HIDE DEF NotNull, states
<1>4. QED
  BY <1>1, <1>2, <1>3

\* What it has in any case.
LEMMA MadeHas ==
  ASSUME NEW d, NEW s
  PROVE  LET base == ColumnsOf(d, s.parent)
             columns == Made(d, s).columns
         IN  /\ DOMAIN base \cup DOMAIN s.columns \subseteq DOMAIN columns
             /\ \A c \in DOMAIN s.columns : /\ columns[c].type = s.columns[c].type
                                            /\ s.columns[c].notNull => columns[c].notNull
             /\ \A c \in DOMAIN base : /\ c \notin DOMAIN s.columns => columns[c].type = base[c].type
                                       /\ base[c].notNull => columns[c].notNull
             /\ \A c \in KeyColumns(KeysOf(s.constraints)) \cap DOMAIN columns : columns[c].notNull
<1> DEFINE base == ColumnsOf(d, s.parent)
           columns == Made(d, s).columns
           keys == KeysOf(s.constraints)
           like == ColumnsOf(d, s.like)
           states == Over(Over(like, base), s.columns)
           NotNull(c) == \/ c \in KeyColumns(keys)
                         \/ \E part \in {base, like, s.columns} : c \in DOMAIN part /\ part[c].notNull
<1>1. columns = [c \in DOMAIN states |-> [type |-> states[c].type, notNull |-> NotNull(c)]]
  BY DEF Made, Relation
<1>2. /\ DOMAIN base \cup DOMAIN s.columns \subseteq DOMAIN states
      /\ \A c \in DOMAIN s.columns : states[c] = s.columns[c]
      /\ \A c \in DOMAIN base \ DOMAIN s.columns : states[c] = base[c]
  BY DEF Over
<1>3. /\ \A c \in KeyColumns(keys) : NotNull(c)
      /\ \A c \in DOMAIN s.columns : s.columns[c].notNull => NotNull(c)
      /\ \A c \in DOMAIN base : base[c].notNull => NotNull(c)
  OBVIOUS
<1> HIDE DEF NotNull, states, keys, base, columns
<1>4. /\ DOMAIN base \cup DOMAIN s.columns \subseteq DOMAIN columns
      /\ \A c \in DOMAIN s.columns : /\ columns[c].type = s.columns[c].type
                                     /\ s.columns[c].notNull => columns[c].notNull
      /\ \A c \in DOMAIN base : /\ c \notin DOMAIN s.columns => columns[c].type = base[c].type
                                /\ base[c].notNull => columns[c].notNull
      /\ \A c \in KeyColumns(keys) \cap DOMAIN columns : columns[c].notNull
  BY <1>1, <1>2, <1>3
<1>5. QED
  BY <1>4 DEF keys, base, columns

\* A table of a name that neither side has: what is said of it is there, and what
\* the two know of it agrees, as far as they agree about its parent.
LEMMA CreatedAgrees ==
  ASSUME NEW e, NEW d, NEW m, NEW s, SchemaShape(e), DatabaseShape(d), RelationsOK(e, d, m),
         WellFormed(s), s.do = "create_table", Accepted(d, s), Nobody \notin Names,
         s.table \notin DOMAIN d, s.table \notin DOMAIN e.tables,
         NEW e2, e2 = ApplyCreate(e, s),
         NEW d2, d2 = After(d, s),
         NEW m2, m2 = m \cup Overlooked(d, e, s, m)
  PROVE  Lost(m2, s.table) \/ (Within(e2, d2, m2, s.table) /\ Agree(e2, d2, m2, s.table))
<1> DEFINE t == s.table
           p == s.parent
           keys == KeysOf(s.constraints)
           table == CreatedTable(e, s)
           made == Made(d, s)
           base == ColumnsOf(d, p)
           inherited == IF p \in DOMAIN e.tables THEN Inherited(e.tables[p]).columns ELSE Empty
           known == IF p \in DOMAIN e.tables THEN DOMAIN e.tables[p].columns ELSE {}
<1>1. /\ t \in Names /\ {p, s.like} \subseteq Names \cup {Nobody} /\ s.partition \in BOOLEAN
      /\ \A c \in DOMAIN s.columns : IsState(s.columns[c])
  BY DEF WellFormed
<1>2. /\ p = Nobody \/ (p \in DOMAIN d /\ ~d[p].view)
      /\ KeyColumns(keys) \subseteq DOMAIN made.columns
  BY DEF Accepted
<1>3. p # Nobody => /\ p \in DOMAIN e.tables /\ p # t
                    /\ Lost(m, p) \/ Within(e, d, m, p)
                    /\ Dark(e, m, p) \/ Agree(e, d, m, p)
  BY <1>2 DEF RelationsOK, NameOK, TableOK, DatabaseShape, RelationShape
<1>4. p = Nobody => p \notin DOMAIN e.tables
  BY DEF SchemaShape
<1>5. /\ e2.tables[t] = table
      /\ e.gaps \subseteq e2.gaps
      /\ s.typed => Gap({"column", "column_type", "column_not_null"}, OfTable(t)) \subseteq e2.gaps
      /\ s.like # Nobody =>
           Gap({"column", "column_type", "column_not_null", "check_constraint",
                "primary_key", "unique_constraint"}, OfTable(t)) \subseteq e2.gaps
      /\ ParentsKnown(e2, t) = IF p \in DOMAIN e.tables /\ ~s.partition
                               THEN ParentsKnown(e, t) \cup {p} ELSE ParentsKnown(e, t)
  <2>1. e2.tables = Over(e.tables, Entry(t, table))
    BY CreateEffect
  <2>2. e2.tables[t] = table
    BY <2>1 DEF Over, Entry
  <2>3. /\ e.gaps \subseteq e2.gaps
        /\ s.typed => Gap({"column", "column_type", "column_not_null"}, OfTable(t)) \subseteq e2.gaps
        /\ s.like # Nobody =>
             Gap({"column", "column_type", "column_not_null", "check_constraint",
                  "primary_key", "unique_constraint"}, OfTable(t)) \subseteq e2.gaps
    BY CreateEffect
  <2>4. ParentsKnown(e2, t) = IF p \in DOMAIN e.tables /\ ~s.partition
                              THEN ParentsKnown(e, t) \cup {p} ELSE ParentsKnown(e, t)
    BY CreateEffect
  <2>5. QED
    BY <2>2, <2>3, <2>4
<1>6. ParentsKnown(e, t) = {}
  BY DEF ParentsKnown, SchemaShape
<1>7. d2[t] = made
  BY DEF After, Over, Entry
<1>8. /\ made = Relation(made.columns, keys, p, s.partition, FALSE)
      /\ DOMAIN made.columns = (DOMAIN ColumnsOf(d, s.like) \cup DOMAIN base) \cup DOMAIN s.columns
  BY DEF Made, Relation, Over
<1>9. /\ table = [columns |-> Over(inherited, s.columns), constraints |-> table.constraints]
      /\ SameKeys(table, [keys |-> keys])
  BY CreatedTableIs
<1>10. m2 = m \cup (IF \/ p # Nobody /\ DOMAIN s.columns # {}
                      \/ ~(KeyColumns(keys) \subseteq known \cup DOMAIN s.columns)
                   THEN {<<"column_not_null", t>>} ELSE {})
              \cup {<<r, t>> : r \in {q \in Compared : \/ [relation |-> q, scope |-> OfTable(p)] \in e.gaps
                                                       \/ <<q, p>> \in m}}
  BY DEF Overlooked
<1>11. \A r \in Compared : Off(e, m, r, p) => <<r, t>> \in m2
  BY <1>10 DEF Off
<1>12. Dark(e, m, p) => Lost(m2, t)
  <2>1. SUFFICES ASSUME Dark(e, m, p), NEW r \in Compared PROVE Off(e, m, r, p)
    BY <1>11 DEF Lost
  <2>2. QED
    BY <2>1, ComparedAreSql DEF Dark, Lost, Gap, Off
<1>13. SUFFICES ASSUME ~Lost(m2, t) PROVE Within(e2, d2, m2, t) /\ Agree(e2, d2, m2, t)
  OBVIOUS
<1>14. p # Nobody => Within(e, d, m, p) /\ Agree(e, d, m, p)
  BY <1>3, <1>12, <1>13 DEF Dark
<1>15. SameKeys(table, made) /\ PrimaryColumns(table) = KeyColumns(keys)
  <2>1. SameKeys(table, made)
    BY <1>8, <1>9 DEF SameKeys, Relation
  <2>2. QED
    BY <1>8, <2>1, PrimaryOfKeys DEF Relation
<1>16. ParentsKnown(e2, t) = ParentsIn(made)
  BY <1>1, <1>3, <1>4, <1>5, <1>6, <1>8 DEF ParentsIn, Relation
<1>17. s.like # Nobody \/ s.typed =>
         \A r \in {"column", "column_type", "column_not_null"} : Off(e2, m2, r, t)
  BY <1>5 DEF Off, Gap
<1>22. Within(e2, d2, m2, t)
  <2>1. /\ DOMAIN table.columns = DOMAIN inherited \cup DOMAIN s.columns
        /\ \A c \in DOMAIN table.columns :
             table.columns[c] = IF c \in DOMAIN s.columns THEN s.columns[c] ELSE inherited[c]
    BY <1>9 DEF Over
  <2>2. /\ DOMAIN base \cup DOMAIN s.columns \subseteq DOMAIN made.columns
        /\ \A c \in DOMAIN s.columns : /\ made.columns[c].type = s.columns[c].type
                                       /\ s.columns[c].notNull => made.columns[c].notNull
        /\ \A c \in DOMAIN base : /\ c \notin DOMAIN s.columns => made.columns[c].type = base[c].type
                                  /\ base[c].notNull => made.columns[c].notNull
        /\ \A c \in KeyColumns(keys) \cap DOMAIN made.columns : made.columns[c].notNull
    BY MadeHas
  <2>3. KeysWithin(table, made)
    BY <1>15 DEF SameKeys, KeysWithin
  <2>4. KeyColumns(keys) \subseteq DOMAIN made.columns /\ PrimaryColumns(table) = KeyColumns(keys)
    BY <1>2, <1>15
  <2> SUFFICES /\ <<"column", t>> \in m2 \/ DOMAIN table.columns \subseteq DOMAIN made.columns
               /\ <<"column_type", t>> \in m2 \/ TypesWithin(table, made)
               /\ <<"column_not_null", t>> \in m2 \/ Required(table) \subseteq NotNullIn(made)
    BY <1>5, <1>7, <1>16, <2>3 DEF Within
  <2>5. CASE p = Nobody
    <3>1. inherited = Empty /\ DOMAIN Empty = {}
      BY <1>4, <2>5 DEF Empty
    <3> HIDE DEF inherited, table, made, keys, base
    <3>2. DOMAIN table.columns = DOMAIN s.columns /\ TypesWithin(table, made)
      BY <2>1, <2>2, <3>1 DEF TypesWithin
    <3>3. Required(table) \subseteq NotNullIn(made)
      BY <2>1, <2>2, <2>4, <3>1 DEF Required, NotNullIn
    <3>4. QED
      BY <2>2, <3>2, <3>3
  <2>6. CASE p # Nobody
    <3> DEFINE parent == e.tables[p]
    <3>1. TableShape(parent) /\ inherited = Inherited(parent).columns /\ base = d[p].columns
      BY <1>3, <2>6 DEF SchemaShape, ColumnsOf
    <3>2. /\ DOMAIN inherited = DOMAIN parent.columns
          /\ \A c \in DOMAIN parent.columns :
               /\ inherited[c].type = parent.columns[c].type
               /\ inherited[c].notNull <=> c \in Required(parent)
      BY <3>1, InheritedTable
    <3>3. Within(e, d, m, p)
      BY <1>14, <2>6
    <3>4. \A r \in Compared : <<r, p>> \in m => <<r, t>> \in m2
      BY <1>11 DEF Off
    <3> HIDE DEF inherited, table, made, keys, base
    <3>5. <<"column", t>> \in m2 \/ DOMAIN table.columns \subseteq DOMAIN made.columns
      BY <2>1, <2>2, <3>1, <3>2, <3>3, <3>4 DEF Within, Compared
    <3>6. <<"column_type", t>> \in m2 \/ TypesWithin(table, made)
      <4>1. ASSUME TypesWithin(parent, d[p]), NEW c \in DOMAIN table.columns
            PROVE  c \in DOMAIN made.columns /\ table.columns[c].type = made.columns[c].type
        <5>1. CASE c \in DOMAIN s.columns
          BY <2>1, <2>2, <5>1
        <5>2. CASE c \notin DOMAIN s.columns
          <6>1. c \in DOMAIN parent.columns /\ table.columns[c] = inherited[c]
            BY <2>1, <3>2, <5>2
          <6>2. c \in DOMAIN base /\ parent.columns[c].type = base[c].type
            BY <3>1, <4>1, <6>1 DEF TypesWithin
          <6>3. QED
            BY <2>2, <3>2, <5>2, <6>1, <6>2
        <5>3. QED
          BY <5>1, <5>2
      <4>2. QED
        BY <3>3, <3>4, <4>1 DEF Within, Compared, TypesWithin
    <3>7. <<"column_not_null", t>> \in m2 \/ Required(table) \subseteq NotNullIn(made)
      <4>1. ASSUME Required(parent) \subseteq NotNullIn(d[p]), NEW c \in Required(table)
            PROVE  c \in NotNullIn(made)
        <5>1. CASE c \in KeyColumns(keys)
          BY <2>2, <2>4, <5>1 DEF NotNullIn
        <5>2. CASE c \in DOMAIN s.columns /\ s.columns[c].notNull
          BY <2>2, <5>2 DEF NotNullIn
        <5>3. CASE c \in DOMAIN inherited /\ inherited[c].notNull
          <6>1. c \in DOMAIN base /\ base[c].notNull
            BY <3>1, <3>2, <4>1, <5>3 DEF NotNullIn
          <6>2. QED
            BY <2>2, <6>1 DEF NotNullIn
        <5>4. QED
          BY <2>1, <2>4, <4>1, <5>1, <5>2, <5>3 DEF Required
      <4>2. QED
        BY <3>3, <3>4, <4>1 DEF Within, Compared
    <3>8. QED
      BY <3>5, <3>6, <3>7
  <2>7. QED
    BY <2>5, <2>6
<1> SUFFICES /\ Off(e2, m2, "column", t) \/ DOMAIN table.columns = DOMAIN made.columns
             /\ Off(e2, m2, "column_type", t) \/ SameTypes(table, made)
             /\ Off(e2, m2, "column_not_null", t) \/ Required(table) = NotNullIn(made)
  BY <1>5, <1>7, <1>15, <1>16, <1>22 DEF Agree
<1>18. CASE s.like # Nobody \/ s.typed
  BY <1>17, <1>18
<1>19. CASE s.like = Nobody /\ ~s.typed /\ p = Nobody
  <2>1. inherited = Empty
    BY <1>4, <1>19
  <2>2. DOMAIN table.columns = DOMAIN s.columns /\ \A c \in DOMAIN s.columns : table.columns[c] = s.columns[c]
    <3>1. table.columns = Over(Empty, s.columns)
      BY <1>9, <2>1
    <3>2. QED
      BY <3>1 DEF Over, Empty
  <2>3. /\ DOMAIN made.columns = DOMAIN s.columns
        /\ \A c \in DOMAIN s.columns :
             /\ made.columns[c].type = s.columns[c].type
             /\ made.columns[c].notNull <=> (c \in KeyColumns(keys) \/ s.columns[c].notNull)
    BY <1>19, MadeAlone
  <2>4. SameTypes(table, made)
    BY <2>2, <2>3 DEF SameTypes
  <2>5. Required(table) = NotNullIn(made)
    BY <1>15, <2>2, <2>3 DEF Required, NotNullIn
  <2>6. QED
    BY <2>2, <2>3, <2>4, <2>5
<1>20. CASE s.like = Nobody /\ ~s.typed /\ p # Nobody
  <2> DEFINE parent == e.tables[p]
  <2>1. p \in DOMAIN e.tables /\ p \in DOMAIN d /\ TableShape(parent) /\ inherited = Inherited(parent).columns
    BY <1>2, <1>3, <1>20 DEF SchemaShape
  <2>2. /\ DOMAIN inherited = DOMAIN parent.columns
        /\ \A c \in DOMAIN parent.columns :
             /\ inherited[c].type = parent.columns[c].type
             /\ inherited[c].notNull <=> c \in Required(parent)
    BY <2>1, InheritedTable
  <2>3. /\ DOMAIN table.columns = DOMAIN parent.columns \cup DOMAIN s.columns
        /\ \A c \in DOMAIN table.columns :
             table.columns[c] = IF c \in DOMAIN s.columns THEN s.columns[c] ELSE inherited[c]
    <3>1. table.columns = Over(inherited, s.columns)
      BY <1>9
    <3> HIDE DEF table, inherited
    <3>2. QED
      BY <2>2, <3>1 DEF Over
  <2>4. /\ DOMAIN made.columns = DOMAIN d[p].columns \cup DOMAIN s.columns
        /\ \A c \in DOMAIN made.columns :
             /\ made.columns[c].type = IF c \in DOMAIN s.columns THEN s.columns[c].type
                                       ELSE d[p].columns[c].type
             /\ made.columns[c].notNull <=> \/ c \in KeyColumns(keys)
                                            \/ c \in DOMAIN s.columns /\ s.columns[c].notNull
                                            \/ c \in NotNullIn(d[p])
    BY <1>20, MadeOfParent
  <2>5. Agree(e, d, m, p)
    BY <1>14, <1>20
  <2> HIDE DEF inherited, table, made, keys, base
  <2>6. Off(e2, m2, "column", t) \/ DOMAIN table.columns = DOMAIN made.columns
    <3>1. Off(e, m, "column", p) => Off(e2, m2, "column", t)
      BY <1>11 DEF Off, Compared
    <3>2. QED
      BY <2>3, <2>4, <2>5, <3>1 DEF Agree
  <2>7. Off(e2, m2, "column_type", t) \/ SameTypes(table, made)
    <3>1. Off(e, m, "column_type", p) => Off(e2, m2, "column_type", t)
      BY <1>11 DEF Off, Compared
    <3>2. ASSUME SameTypes(parent, d[p]) PROVE SameTypes(table, made)
      BY <2>2, <2>3, <2>4, <3>2 DEF SameTypes
    <3>3. QED
      BY <2>5, <3>1, <3>2 DEF Agree
  <2>8. Off(e2, m2, "column_not_null", t) \/ Required(table) = NotNullIn(made)
    <3>1. Off(e, m, "column_not_null", p) => Off(e2, m2, "column_not_null", t)
      BY <1>11 DEF Off, Compared
    <3>2. Off(e2, m2, "column_not_null", t)
            \/ (DOMAIN s.columns = {} /\ KeyColumns(keys) \subseteq known \cup DOMAIN s.columns)
      BY <1>10, <1>20 DEF Off
    <3>3. ASSUME Required(parent) = NotNullIn(d[p]), DOMAIN s.columns = {},
                 KeyColumns(keys) \subseteq known \cup DOMAIN s.columns
          PROVE  Required(table) = NotNullIn(made)
      <4>1. KeyColumns(keys) \subseteq DOMAIN table.columns
        BY <2>1, <2>3, <3>3
      <4>2. KeyColumns(keys) \subseteq DOMAIN made.columns
        BY <1>2 DEF keys, made
      <4>3. Required(table) = Required(parent) \cup KeyColumns(keys)
        <5>1. Required(parent) \subseteq DOMAIN table.columns
          BY <2>3 DEF Required
        <5>2. \A c \in DOMAIN table.columns : table.columns[c].notNull <=> c \in Required(parent)
          BY <2>2, <2>3, <3>3
        <5>3. PrimaryColumns(table) = KeyColumns(keys)
          BY <1>15
        <5>4. QED
          BY <4>1, <5>1, <5>2, <5>3 DEF Required
      <4>4. NotNullIn(made) = NotNullIn(d[p]) \cup KeyColumns(keys)
        <5>1. NotNullIn(d[p]) \subseteq DOMAIN made.columns
          BY <2>4 DEF NotNullIn
        <5>2. \A c \in DOMAIN made.columns :
                made.columns[c].notNull <=> c \in KeyColumns(keys) \/ c \in NotNullIn(d[p])
          BY <2>4, <3>3
        <5>3. QED
          BY <4>2, <5>1, <5>2 DEF NotNullIn
      <4>5. QED
        BY <3>3, <4>3, <4>4
    <3>4. QED
      BY <2>5, <3>1, <3>2, <3>3 DEF Agree
  <2>9. QED
    BY <2>6, <2>7, <2>8
<1>21. QED
  BY <1>18, <1>19, <1>20

LEMMA CreateKeeps ==
  ASSUME NEW e, NEW d, NEW m, NEW s, SchemaShape(e), DatabaseShape(d), RelationsOK(e, d, m),
         WellFormed(s), s.do = "create_table", Accepted(d, s), Nobody \notin Names
  PROVE  RelationsOK(ApplyCreate(e, s), After(d, s), m \cup Overlooked(d, e, s, m))
<1> DEFINE t == s.table
           e2 == ApplyCreate(e, s)
           d2 == After(d, s)
           m2 == m \cup Overlooked(d, e, s, m)
           skipped == s.guarded /\ t \in DOMAIN e.tables
<1> SUFFICES ASSUME NEW n \in Names PROVE NameOK(e2, d2, m2, n)
  BY DEF RelationsOK
<1>1. NameOK(e, d, m, n) /\ NameOK(e, d, m, t)
  BY DEF RelationsOK, WellFormed
<1>2. /\ skipped => e2 = e
      /\ ~skipped => /\ e2.views = e.views
                     /\ DOMAIN e2.tables = DOMAIN e.tables \cup {t}
                     /\ \A k \in DOMAIN e.tables : k # t => e2.tables[k] = e.tables[k]
                     /\ \A k : k # t => ParentsKnown(e2, k) = ParentsKnown(e, k)
  <2>1. CASE skipped
    BY <2>1 DEF ApplyCreate
  <2>2. CASE ~skipped
    <3>1. /\ e2.views = e.views /\ e2.tables = Over(e.tables, Entry(t, CreatedTable(e, s)))
          /\ \A k : k # t => ParentsKnown(e2, k) = ParentsKnown(e, k)
      BY <2>2, CreateEffect
    <3> HIDE DEF e2
    <3>2. QED
      BY <2>2, <3>1 DEF Over, Entry
  <2>3. QED
    BY <2>1, <2>2
<1>3. e.gaps \subseteq e2.gaps
  BY CreateShape
<1>4. IF t \in DOMAIN d THEN d2 = d ELSE d2 = Over(d, Entry(t, Made(d, s)))
  BY DEF After
<1>5. t \notin DOMAIN d => d2[t] = Made(d, s) /\ DOMAIN d2 = DOMAIN d \cup {t} /\ ~d2[t].view
  <2>1. ~Made(d, s).view
    BY DEF Made, Relation
  <2>2. QED
    BY <1>4, <2>1 DEF Over, Entry
<1>6. t \in DOMAIN d => m2 = m \cup (IF t \in DOMAIN e.tables THEN {} ELSE Compared \X {t})
  BY DEF Overlooked
<1> HIDE DEF e2, d2, m2
<1>7. m \subseteq m2
  BY DEF m2
<1>8. CASE n # t
  <2>1. n \in DOMAIN d2 <=> n \in DOMAIN d
    BY <1>4, <1>8 DEF Over, Entry
  <2>2. n \in DOMAIN d => d2[n] = d[n]
    BY <1>4, <1>8 DEF Over, Entry
  <2>3. QED
    BY <1>1, <1>2, <1>3, <1>7, <1>8, <2>1, <2>2, Untouched
<1>9. CASE n = t /\ t \in DOMAIN d /\ skipped
  BY <1>1, <1>2, <1>3, <1>4, <1>7, <1>9, Untouched
<1>10. CASE n = t /\ t \in DOMAIN d /\ ~skipped
  \* it is guarded, or the database had refused it
  <2>1. s.guarded /\ t \notin DOMAIN e.tables
    BY <1>10 DEF Accepted
  <2>2. Lost(m2, t)
    BY <1>6, <1>10, <2>1 DEF Lost
  <2>3. d[t].view /\ ViewOK(e, d, m, t)
    BY <1>1, <1>10, <2>1 DEF NameOK, TableOK
  <2>4. QED
    BY <1>4, <1>10, <2>2, <2>3, LostIsOK DEF ViewOK
<1>11. CASE n = t /\ t \notin DOMAIN d /\ t \in DOMAIN e.tables \cup e.views
  <2>1. Lost(m2, t)
    BY <1>1, <1>7, <1>11 DEF NameOK, Lost
  <2>2. t \in DOMAIN e2.tables
    BY <1>2
  <2>3. QED
    BY <1>5, <1>11, <2>1, <2>2, LostIsOK
<1>12. CASE n = t /\ t \notin DOMAIN d /\ t \notin DOMAIN e.tables \cup e.views
  <2>1. Lost(m2, t) \/ (Within(e2, d2, m2, t) /\ Agree(e2, d2, m2, t))
    BY <1>12, CreatedAgrees DEF e2, d2, m2
  <2>2. t \in DOMAIN e2.tables /\ t \notin e2.views
    BY <1>2, <1>12
  <2>3. QED
    BY <1>5, <1>12, <2>1, <2>2 DEF NameOK, TableOK, Dark
<1>13. QED
  BY <1>8, <1>9, <1>10, <1>11, <1>12

-----------------------------------------------------------------------------
(* CREATE TABLE AS, CREATE MATERIALIZED VIEW                               *)

LEMMA CreateAsShape ==
  ASSUME NEW e, NEW s, SchemaShape(e), WellFormed(s), s.do = "create_as"
  PROVE  SchemaShape(ApplyCreateAs(e, s)) /\ e.gaps \subseteq ApplyCreateAs(e, s).gaps
<1> DEFINE e2 == ApplyCreateAs(e, s)
<1>1. s.table \in Names
  BY DEF WellFormed
<1>2. CASE s.view
  <2>1. e2 = [schemas |-> e.schemas \cup {SchemaOf[s.table]}, tables |-> e.tables,
              views |-> e.views \cup {s.table}, partitions |-> e.partitions,
              inheritance |-> e.inheritance,
              gaps |-> e.gaps \cup Gap({"column", "column_type"}, OfView(s.table))]
    BY <1>2 DEF ApplyCreateAs, SchemaShape
  <2> HIDE DEF e2
  <2>2. SchemaShape(e2)
    BY <1>1, <2>1 DEF SchemaShape
  <2>3. QED
    BY <2>1, <2>2 DEF e2
<1>3. CASE ~s.view
  <2>1. e2 = [schemas |-> e.schemas \cup {SchemaOf[s.table]},
              tables |-> Over(e.tables, Entry(s.table, NoTable)),
              views |-> e.views, partitions |-> e.partitions,
              inheritance |-> e.inheritance,
              gaps |-> e.gaps \cup Gap({"column", "column_type"}, OfTable(s.table))]
    BY <1>3 DEF ApplyCreateAs, SchemaShape
  <2> HIDE DEF e2
  <2>2. TableShape(NoTable)
    BY DEF NoTable, TableShape, Empty
  <2>3. /\ DOMAIN e2.tables = DOMAIN e.tables \cup {s.table}
        /\ \A n \in DOMAIN e2.tables : e2.tables[n] = IF n = s.table THEN NoTable ELSE e.tables[n]
    BY <2>1 DEF Over, Entry
  <2>4. SchemaShape(e2)
    BY <1>1, <2>1, <2>2, <2>3 DEF SchemaShape
  <2>5. QED
    BY <2>1, <2>4 DEF e2
<1>4. QED
  BY <1>2, <1>3

LEMMA CreateAsKeeps ==
  ASSUME NEW e, NEW d, NEW m, NEW s, SchemaShape(e), DatabaseShape(d), RelationsOK(e, d, m),
         WellFormed(s), s.do = "create_as", Accepted(d, s)
  PROVE  RelationsOK(ApplyCreateAs(e, s), After(d, s), m \cup Overlooked(d, e, s, m))
<1> DEFINE t == s.table
           e2 == ApplyCreateAs(e, s)
           d2 == After(d, s)
           m2 == m \cup Overlooked(d, e, s, m)
           made == Relation(s.columns, Empty, Nobody, FALSE, s.view)
<1> SUFFICES ASSUME NEW n \in Names PROVE NameOK(e2, d2, m2, n)
  BY DEF RelationsOK
<1>1. NameOK(e, d, m, n) /\ NameOK(e, d, m, t) /\ t \notin DOMAIN d /\ s.view \in BOOLEAN
  BY DEF RelationsOK, WellFormed, Accepted
<1>2. /\ s.view => /\ e2.tables = e.tables /\ e2.views = e.views \cup {t}
      /\ ~s.view => /\ e2.tables = Over(e.tables, Entry(t, NoTable)) /\ e2.views = e.views
                    /\ Gap({"column", "column_type"}, OfTable(t)) \subseteq e2.gaps
      /\ e2.inheritance = e.inheritance
  BY DEF ApplyCreateAs, SchemaShape
<1>3. e.gaps \subseteq e2.gaps
  BY CreateAsShape
<1>4. d2 = Over(d, Entry(t, made))
  BY DEF After
<1>5. s.view => {"column", "column_type"} \X {t} \subseteq m2
  BY DEF Overlooked
<1>6. NotNullIn(made) = {}
  BY DEF WellFormed, NotNullIn, Relation
<1>7. DOMAIN made.keys = {} /\ made.parent = Nobody /\ made.view = s.view
  BY DEF Relation, Empty
<1> HIDE DEF e2, d2, m2, made
<1>8. m \subseteq m2
  BY DEF m2
<1>9. \A k : ParentsKnown(e2, k) = ParentsKnown(e, k)
  BY <1>2 DEF ParentsKnown
<1>10. /\ DOMAIN d2 = DOMAIN d \cup {t} /\ d2[t] = made
       /\ \A k \in DOMAIN d : k # t => d2[k] = d[k]
  BY <1>4 DEF Over, Entry
<1>11. /\ DOMAIN e2.tables = DOMAIN e.tables \cup (IF s.view THEN {} ELSE {t})
       /\ \A k \in DOMAIN e.tables : k # t => e2.tables[k] = e.tables[k]
       /\ ~s.view => e2.tables[t] = NoTable
  BY <1>1, <1>2 DEF Over, Entry
<1>12. CASE n # t
  BY <1>1, <1>2, <1>3, <1>8, <1>9, <1>10, <1>11, <1>12, Untouched
<1>13. CASE n = t /\ t \in DOMAIN e.tables \cup e.views
  <2>1. Lost(m2, t)
    BY <1>1, <1>8, <1>13 DEF NameOK, Lost
  <2>2. QED
    BY <1>6, <1>7, <1>10, <1>11, <1>13, <2>1, LostIsOK
<1>14. CASE n = t /\ t \notin DOMAIN e.tables \cup e.views /\ s.view
  <2>1. ViewOK(e2, d2, m2, t)
    BY <1>2, <1>5, <1>6, <1>7, <1>10, <1>14 DEF ViewOK
  <2>2. QED
    BY <1>7, <1>10, <1>11, <1>14, <2>1 DEF NameOK
<1>15. CASE n = t /\ t \notin DOMAIN e.tables \cup e.views /\ ~s.view
  <2>1. ParentsKnown(e2, t) = {} /\ ParentsIn(made) = {}
    <3>1. t \notin DOMAIN e.inheritance
      BY <1>15 DEF SchemaShape
    <3>2. ParentsKnown(e2, t) = {}
      BY <1>2, <3>1 DEF ParentsKnown
    <3>3. QED
      BY <1>7, <3>2 DEF ParentsIn
  <2>2. SameKeys(NoTable, made) /\ Required(NoTable) = {}
    BY <1>7 DEF SameKeys, Primaries, NoTable, Empty, Required
  <2>3. Off(e2, m2, "column", t) /\ Off(e2, m2, "column_type", t)
    BY <1>2, <1>15 DEF Off, Gap
  <2>4. Agree(e2, d2, m2, t)
    BY <1>6, <1>10, <1>11, <1>15, <2>1, <2>2, <2>3 DEF Agree
  <2>5. Within(e2, d2, m2, t)
    <3>1. KeysWithin(NoTable, made) /\ TypesWithin(NoTable, made) /\ DOMAIN NoTable.columns = {}
      BY <2>2 DEF SameKeys, KeysWithin, TypesWithin, NoTable, Empty
    <3>2. QED
      BY <1>10, <1>11, <1>15, <2>1, <2>2, <3>1 DEF Within
  <2>6. QED
    BY <1>2, <1>7, <1>10, <1>11, <1>15, <2>4, <2>5 DEF NameOK, TableOK
<1>16. QED
  BY <1>12, <1>13, <1>14, <1>15

-----------------------------------------------------------------------------
(* DROP                                                                    *)

LEMMA DropShape ==
  ASSUME NEW e, NEW s, SchemaShape(e)
  PROVE  SchemaShape(ApplyDrop(e, s)) /\ e.gaps \subseteq ApplyDrop(e, s).gaps
<1> DEFINE e2 == ApplyDrop(e, s)
           Less(f) == Without(f, {s.table})
<1>1. CASE s.view
  <2>1. e2 = [schemas |-> e.schemas, tables |-> e.tables, views |-> e.views \ {s.table},
              partitions |-> e.partitions, inheritance |-> e.inheritance, gaps |-> e.gaps]
    BY <1>1 DEF ApplyDrop, SchemaShape
  <2>2. QED
    BY <2>1 DEF SchemaShape
<1>2. CASE ~s.view
  <2>1. e2 = [schemas |-> e.schemas, tables |-> Less(e.tables), views |-> e.views,
              partitions |-> Less(e.partitions), inheritance |-> Less(e.inheritance),
              gaps |-> e.gaps]
    BY <1>2 DEF ApplyDrop, SchemaShape
  <2> HIDE DEF e2
  <2>2. /\ DOMAIN e2.tables = DOMAIN e.tables \ {s.table}
        /\ DOMAIN e2.partitions = DOMAIN e.partitions \ {s.table}
        /\ DOMAIN e2.inheritance = DOMAIN e.inheritance \ {s.table}
        /\ \A n \in DOMAIN e2.tables : e2.tables[n] = e.tables[n]
    BY <2>1 DEF Without
  <2>3. SchemaShape(e2)
    BY <2>1, <2>2 DEF SchemaShape
  <2>4. QED
    BY <2>1, <2>3 DEF e2
<1>3. QED
  BY <1>1, <1>2

LEMMA DropKeeps ==
  ASSUME NEW e, NEW d, NEW m, NEW s, SchemaShape(e), DatabaseShape(d), RelationsOK(e, d, m),
         WellFormed(s), s.do = "drop", Accepted(d, s)
  PROVE  RelationsOK(ApplyDrop(e, s), After(d, s), m \cup Overlooked(d, e, s, m))
<1> DEFINE t == s.table
           heirs == Heirs(d, t)
           e2 == ApplyDrop(e, s)
           d2 == After(d, s)
           m2 == m \cup Overlooked(d, e, s, m)
<1> SUFFICES ASSUME NEW n \in Names PROVE NameOK(e2, d2, m2, n)
  BY DEF RelationsOK
<1>1. /\ NameOK(e, d, m, n) /\ NameOK(e, d, m, t)
      /\ t \in DOMAIN d /\ d[t].view = s.view /\ s.view \in BOOLEAN
  BY DEF RelationsOK, WellFormed, Accepted
<1>2. /\ s.view => /\ e2.tables = e.tables /\ e2.views = e.views \ {t}
                   /\ e2.inheritance = e.inheritance
      /\ ~s.view => /\ e2.tables = Without(e.tables, {t}) /\ e2.views = e.views
                    /\ e2.inheritance = Without(e.inheritance, {t})
  BY DEF ApplyDrop, SchemaShape
<1>3. e.gaps \subseteq e2.gaps
  BY DropShape
<1>4. d2 = Without(d, {t} \cup heirs) /\ m2 = m \cup (Compared \X heirs)
  BY DEF After, Overlooked
<1> HIDE DEF e2, d2, m2
<1>5. /\ DOMAIN d2 = DOMAIN d \ ({t} \cup heirs)
      /\ \A k \in DOMAIN d2 : d2[k] = d[k]
  BY <1>4 DEF Without
<1>6. CASE n \in heirs
  <2>1. Lost(m2, n)
    BY <1>4, <1>6 DEF Lost
  <2>2. QED
    BY <1>5, <1>6, <2>1, LostIsOK
<1>7. CASE n = t
  <2>1. t \in e2.views \/ t \in DOMAIN e2.tables => Lost(m, t)
    BY <1>1, <1>2 DEF NameOK, Without
  <2>2. Lost(m, t) => Lost(m2, t)
    BY <1>4 DEF Lost
  <2>3. QED
    BY <1>5, <1>7, <2>1, <2>2 DEF NameOK
<1>8. CASE n # t /\ n \notin heirs
  <2>1. ParentsKnown(e2, n) = ParentsKnown(e, n)
    BY <1>2, <1>8 DEF ParentsKnown, Without
  <2>2. /\ n \in e2.views <=> n \in e.views
        /\ n \in DOMAIN e2.tables <=> n \in DOMAIN e.tables
        /\ n \in DOMAIN e.tables => e2.tables[n] = e.tables[n]
    BY <1>2, <1>8 DEF Without
  <2>3. QED
    <3>1. /\ n \in DOMAIN d2 <=> n \in DOMAIN d
          /\ n \in DOMAIN d => d2[n] = d[n]
          /\ m \subseteq m2
      BY <1>4, <1>5, <1>8
    <3>2. QED
      BY <1>1, <1>3, <2>1, <2>2, <3>1, Untouched
<1>9. QED
  BY <1>6, <1>7, <1>8

-----------------------------------------------------------------------------
(* ALTER TABLE                                                             *)

LEMMA ShapeOf ==
  ASSUME NEW columns, NEW constraints, \A c \in DOMAIN columns : IsState(columns[c])
  PROVE  TableShape([columns |-> columns, constraints |-> constraints])
BY DEF TableShape

LEMMA AlteredShape ==
  ASSUME NEW table, TableShape(table), NEW s, WellFormed(s), s.do = "alter_table"
  PROVE  TableShape(AlteredTable(table, s))
<1> DEFINE new == AlteredTable(table, s)
<1>1. CASE s.command = "add_column"
  <2>1. new = [columns |-> Over(table.columns, Entry(s.column, s.state)),
               constraints |-> table.constraints]
    BY <1>1 DEF AlteredTable, AddColumn, TableShape
  <2>2. IsState(s.state)
    BY <1>1 DEF WellFormed
  <2>3. QED
    BY <2>1, <2>2 DEF TableShape, Over, Entry
<1>2. CASE s.command = "drop_column"
  <2>1. new.columns = Without(table.columns, {s.column})
        /\ new = [columns |-> new.columns, constraints |-> new.constraints]
    BY <1>2 DEF AlteredTable
  <2> HIDE DEF new
  <2>2. QED
    <3>1. \A c \in DOMAIN new.columns : new.columns[c] = table.columns[c] /\ c \in DOMAIN table.columns
      BY <2>1 DEF Without
    <3>2. \A c \in DOMAIN new.columns : IsState(new.columns[c])
      BY <3>1 DEF TableShape
    <3>3. TableShape([columns |-> new.columns, constraints |-> new.constraints])
      BY <3>2, ShapeOf
    <3>4. QED
      BY <2>1, <3>3 DEF new
<1>3. ASSUME NEW b \in BOOLEAN, s.column \in DOMAIN table.columns
      PROVE  TableShape([table EXCEPT !.columns[s.column].notNull = b])
  <2> DEFINE state == table.columns[s.column]
             columns == [table.columns EXCEPT ![s.column] = [state EXCEPT !.notNull = b]]
  <2>1. [table EXCEPT !.columns[s.column].notNull = b]
          = [columns |-> columns, constraints |-> table.constraints]
    BY DEF TableShape
  <2>2. IsState(state)
    BY <1>3 DEF TableShape
  <2>3. [state EXCEPT !.notNull = b] = [type |-> state.type, notNull |-> b]
    BY <2>2 DEF IsState
  <2>4. IsState([state EXCEPT !.notNull = b])
    BY <2>3 DEF IsState
  <2>5. \A c \in DOMAIN columns : IsState(columns[c])
    BY <2>4 DEF TableShape
  <2> HIDE DEF columns
  <2>6. QED
    BY <2>1, <2>5 DEF TableShape
<1>4. CASE s.command = "set_not_null"
  BY <1>3, <1>4 DEF AlteredTable
<1>5. CASE s.command = "drop_not_null"
  BY <1>3, <1>5 DEF AlteredTable
<1>6. CASE s.command = "add_constraint"
  <2>1. new = AddConstraints(table, {s.constraint})
    BY <1>6 DEF AlteredTable
  <2>2. new.columns = table.columns
        /\ new = [columns |-> new.columns, constraints |-> new.constraints]
    BY <2>1 DEF AddConstraints, TableShape
  <2> HIDE DEF new
  <2>3. \A c \in DOMAIN new.columns : IsState(new.columns[c])
    BY <2>2 DEF TableShape
  <2>4. TableShape([columns |-> new.columns, constraints |-> new.constraints])
    BY <2>3, ShapeOf
  <2>5. QED
    BY <2>2, <2>4 DEF new
<1>7. CASE s.command = "drop_constraint"
  <2>1. new.columns = table.columns
        /\ new = [columns |-> new.columns, constraints |-> new.constraints]
    BY <1>7 DEF AlteredTable, TableShape
  <2> HIDE DEF new
  <2>2. \A c \in DOMAIN new.columns : IsState(new.columns[c])
    BY <2>1 DEF TableShape
  <2>3. TableShape([columns |-> new.columns, constraints |-> new.constraints])
    BY <2>2, ShapeOf
  <2>4. QED
    BY <2>1, <2>3 DEF new
<1>8. CASE s.command \in {"alter_type", "other"}
  BY <1>8 DEF AlteredTable
<1>9. QED
  BY <1>1, <1>2, <1>4, <1>5, <1>6, <1>7, <1>8 DEF WellFormed

\* Table and relation agree after a statement on them as far as they did
\* before, but for the relation the statement leaves in doubt.
Clear(table, old, s) ==
  /\ s.command = "set_not_null" => s.column \in DOMAIN table.columns
  /\ s.command = "add_constraint" => s.constraint.columns \subseteq DOMAIN table.columns
  /\ s.command = "drop_column" => s.column \notin KeyColumns(old.keys)
  /\ s.command # "drop_constraint"

Follows(table, old, s, table2, new) ==
  /\ new.parent = old.parent /\ new.partition = old.partition /\ new.view = old.view
  /\ SameKeys(table, old) => SameKeys(table2, new)
  /\ DOMAIN table.columns = DOMAIN old.columns => DOMAIN table2.columns = DOMAIN new.columns
  /\ SameTypes(table, old) /\ s.command # "alter_type" => SameTypes(table2, new)
  /\ SameKeys(table, old) /\ Required(table) = NotNullIn(old) /\ Clear(table, old, s)
       => Required(table2) = NotNullIn(new)

StaysWithin(table, old, table2, new, s) ==
  /\ KeysWithin(table, old) => KeysWithin(table2, new)
  /\ DOMAIN table.columns \subseteq DOMAIN old.columns => DOMAIN table2.columns \subseteq DOMAIN new.columns
  /\ TypesWithin(table, old) /\ s.command # "alter_type" => TypesWithin(table2, new)
  /\ KeysWithin(table, old) /\ Required(table) \subseteq NotNullIn(old)
       => Required(table2) \subseteq NotNullIn(new)

AlterOK(table, old, s) ==
  /\ TableShape(table)
  /\ old = Relation(old.columns, old.keys, old.parent, old.partition, old.view)
  /\ KeyColumns(old.keys) \subseteq DOMAIN old.columns
  /\ WellFormed(s) /\ s.do = "alter_table"
  /\ IF s.command = "add_column" THEN s.column \notin DOMAIN old.columns
     ELSE s.command \notin {"add_constraint", "drop_constraint", "other"} => s.column \in DOMAIN old.columns
  /\ s.command = "add_constraint" => DOMAIN old.keys = {} /\ s.constraint.columns \subseteq DOMAIN old.columns
  /\ s.command = "drop_not_null" => s.column \notin KeyColumns(old.keys)

LEMMA AddColumnFollows ==
  ASSUME NEW table, NEW old, NEW s, AlterOK(table, old, s), s.command = "add_column"
  PROVE  /\ Follows(table, old, s, AlteredTable(table, s), Altered(old, s, TRUE))
         /\ StaysWithin(table, old, AlteredTable(table, s), Altered(old, s, TRUE), s)
<1> DEFINE table2 == AlteredTable(table, s)
           new == Altered(old, s, TRUE)
           c == s.column
<1>1. table2 = [columns |-> Over(table.columns, Entry(c, s.state)), constraints |-> table.constraints]
  BY DEF AlteredTable, AddColumn, TableShape, AlterOK
<1>2. new = Relation(Over(old.columns, Entry(c, s.state)), old.keys, old.parent, old.partition, old.view)
  BY DEF Altered, Relation, AlterOK
<1>3. c \notin DOMAIN old.columns /\ c \notin KeyColumns(old.keys)
  BY DEF AlterOK
<1> HIDE DEF table2, new
<1>4. /\ DOMAIN table2.columns = DOMAIN table.columns \cup {c}
      /\ \A k \in DOMAIN table2.columns : table2.columns[k] = IF k = c THEN s.state ELSE table.columns[k]
  BY <1>1 DEF Over, Entry
<1>5. /\ DOMAIN new.columns = DOMAIN old.columns \cup {c}
      /\ \A k \in DOMAIN new.columns : new.columns[k] = IF k = c THEN s.state ELSE old.columns[k]
      /\ new.keys = old.keys /\ new.parent = old.parent /\ new.partition = old.partition
      /\ new.view = old.view
  BY <1>2 DEF Over, Entry, Relation
<1>6. SameKeys(table, old) => SameKeys(table2, new)
  BY <1>1, <1>5 DEF SameKeys, Primaries
<1>7. SameTypes(table, old) => SameTypes(table2, new)
  BY <1>4, <1>5 DEF SameTypes
<1>8. ASSUME SameKeys(table, old), Required(table) = NotNullIn(old)
      PROVE  Required(table2) = NotNullIn(new)
  <2>1. PrimaryColumns(table2) = KeyColumns(old.keys) /\ PrimaryColumns(table) = KeyColumns(old.keys)
    BY <1>5, <1>6, <1>8, PrimaryOfKeys
  <2>2. \A k : k \in Required(table2) <=> IF k = c THEN s.state.notNull ELSE k \in Required(table)
    BY <1>3, <1>4, <2>1 DEF Required
  <2>3. \A k : k \in NotNullIn(new) <=> IF k = c THEN s.state.notNull ELSE k \in NotNullIn(old)
    BY <1>5 DEF NotNullIn
  <2>4. \A k : k \in Required(table2) <=> k \in NotNullIn(new)
    BY <1>8, <2>2, <2>3
  <2>5. QED
    BY <2>4
<1>9. KeysWithin(table, old) => KeysWithin(table2, new)
  BY <1>1, <1>5 DEF KeysWithin, Primaries
<1>10. TypesWithin(table, old) => TypesWithin(table2, new)
  BY <1>4, <1>5 DEF TypesWithin
<1>11. ASSUME KeysWithin(table, old), Required(table) \subseteq NotNullIn(old)
       PROVE  Required(table2) \subseteq NotNullIn(new)
  <2>1. PrimaryColumns(table2) = PrimaryColumns(table)
    BY <1>1 DEF PrimaryColumns
  <2>2. c \notin PrimaryColumns(table)
    BY <1>3, <1>11, PrimaryOfKeysWithin
  <2>3. \A k \in Required(table2) : IF k = c THEN s.state.notNull ELSE k \in Required(table)
    BY <1>4, <2>1, <2>2 DEF Required
  <2>4. \A k : k \in NotNullIn(new) <=> IF k = c THEN s.state.notNull ELSE k \in NotNullIn(old)
    BY <1>5 DEF NotNullIn
  <2>5. QED
    BY <1>11, <2>3, <2>4
<1>12. Follows(table, old, s, table2, new)
  BY <1>4, <1>5, <1>6, <1>7, <1>8 DEF Follows
<1>13. StaysWithin(table, old, table2, new, s)
  BY <1>4, <1>5, <1>9, <1>10, <1>11 DEF StaysWithin
<1>14. QED
  BY <1>12, <1>13 DEF table2, new

LEMMA DropColumnFollows ==
  ASSUME NEW table, NEW old, NEW s, AlterOK(table, old, s), s.command = "drop_column"
  PROVE  /\ Follows(table, old, s, AlteredTable(table, s), Altered(old, s, TRUE))
         /\ StaysWithin(table, old, AlteredTable(table, s), Altered(old, s, TRUE), s)
<1> DEFINE table2 == AlteredTable(table, s)
           new == Altered(old, s, TRUE)
           c == s.column
           gone == {n \in DOMAIN table.constraints : /\ table.constraints[n].kind # "check"
                                                     /\ c \in table.constraints[n].columns}
           unkeyed == {n \in DOMAIN old.keys : c \in old.keys[n]}
<1>1. table2 = [columns |-> Without(table.columns, {c}), constraints |-> Without(table.constraints, gone)]
  BY DEF AlteredTable
<1>2. new = Relation(Without(old.columns, {c}), Without(old.keys, unkeyed), old.parent,
                     old.partition, old.view)
  BY DEF Altered, Relation, AlterOK
<1> HIDE DEF table2, new
<1>3. /\ DOMAIN table2.columns = DOMAIN table.columns \ {c}
      /\ \A k \in DOMAIN table2.columns : table2.columns[k] = table.columns[k]
  BY <1>1 DEF Without
<1>4. /\ DOMAIN new.columns = DOMAIN old.columns \ {c}
      /\ \A k \in DOMAIN new.columns : new.columns[k] = old.columns[k]
      /\ new.keys = Without(old.keys, unkeyed) /\ new.parent = old.parent
      /\ new.partition = old.partition /\ new.view = old.view
  BY <1>2 DEF Without, Relation
<1>5. SameKeys(table, old) => SameKeys(table2, new)
  <2>1. /\ DOMAIN table2.constraints = DOMAIN table.constraints \ gone
        /\ \A n \in DOMAIN table2.constraints : table2.constraints[n] = table.constraints[n]
    BY <1>1 DEF Without
  <2>2. /\ DOMAIN new.keys = DOMAIN old.keys \ unkeyed
        /\ \A n \in DOMAIN new.keys : new.keys[n] = old.keys[n]
    BY <1>4 DEF Without
  <2>3. Primaries(table2) = {n \in Primaries(table) : c \notin table.constraints[n].columns}
    BY <2>1 DEF Primaries
  <2>4. Primaries(table2) \subseteq DOMAIN table2.constraints
    BY DEF Primaries
  <2> SUFFICES ASSUME SameKeys(table, old) PROVE SameKeys(table2, new)
    OBVIOUS
  <2>5. /\ Primaries(table) = DOMAIN old.keys
        /\ \A n \in DOMAIN old.keys : table.constraints[n].columns = old.keys[n]
    BY DEF SameKeys
  <2>6. Primaries(table2) = DOMAIN new.keys
    BY <2>2, <2>3, <2>5
  <2>7. \A n \in DOMAIN new.keys : table2.constraints[n].columns = new.keys[n]
    BY <2>1, <2>2, <2>4, <2>5, <2>6
  <2>8. QED
    BY <2>6, <2>7 DEF SameKeys
<1>6. SameTypes(table, old) => SameTypes(table2, new)
  BY <1>3, <1>4 DEF SameTypes
<1>7. ASSUME SameKeys(table, old), Required(table) = NotNullIn(old), c \notin KeyColumns(old.keys)
      PROVE  Required(table2) = NotNullIn(new)
  <2>1. unkeyed = {}
    BY <1>7 DEF KeyColumns
  <2>2. KeyColumns(new.keys) = KeyColumns(old.keys)
    BY <1>4, <2>1 DEF Without, KeyColumns
  <2>3. PrimaryColumns(table2) = KeyColumns(old.keys) /\ PrimaryColumns(table) = KeyColumns(old.keys)
    BY <1>5, <1>7, <2>2, PrimaryOfKeys
  <2>4. Required(table2) = Required(table) \ {c}
    BY <1>3, <2>3 DEF Required
  <2>5. NotNullIn(new) = NotNullIn(old) \ {c}
    BY <1>4 DEF NotNullIn
  <2>6. QED
    BY <1>7, <2>4, <2>5
<1>8. KeysWithin(table, old) => KeysWithin(table2, new)
  <2>1. /\ DOMAIN table2.constraints = DOMAIN table.constraints \ gone
        /\ \A n \in DOMAIN table2.constraints : table2.constraints[n] = table.constraints[n]
    BY <1>1 DEF Without
  <2>2. /\ DOMAIN new.keys = DOMAIN old.keys \ unkeyed
        /\ \A n \in DOMAIN new.keys : new.keys[n] = old.keys[n]
    BY <1>4 DEF Without
  <2>3. \A n \in Primaries(table2) : /\ n \in Primaries(table) /\ c \notin table.constraints[n].columns
                                     /\ table2.constraints[n] = table.constraints[n]
    BY <2>1 DEF Primaries
  <2>4. QED
    BY <2>2, <2>3 DEF KeysWithin
<1>9. TypesWithin(table, old) => TypesWithin(table2, new)
  BY <1>3, <1>4 DEF TypesWithin
<1>10. Required(table) \subseteq NotNullIn(old) => Required(table2) \subseteq NotNullIn(new)
  <2>1. PrimaryColumns(table2) \subseteq PrimaryColumns(table)
    BY <1>1 DEF PrimaryColumns, Without
  <2>2. Required(table2) \subseteq Required(table) \ {c}
    BY <1>3, <2>1 DEF Required
  <2>3. NotNullIn(new) = NotNullIn(old) \ {c}
    BY <1>4 DEF NotNullIn
  <2>4. QED
    BY <2>2, <2>3
<1>11. Follows(table, old, s, table2, new)
  BY <1>3, <1>4, <1>5, <1>6, <1>7 DEF Follows, Clear
<1>12. StaysWithin(table, old, table2, new, s)
  BY <1>3, <1>4, <1>8, <1>9, <1>10 DEF StaysWithin
<1>13. QED
  BY <1>11, <1>12 DEF table2, new

\* SET and DROP NOT NULL: a column that is not known stays so.
LEMMA NotNullSet ==
  ASSUME NEW table, TableShape(table), NEW s, NEW b \in BOOLEAN,
         s.command = IF b THEN "set_not_null" ELSE "drop_not_null",
         NEW table2, table2 = AlteredTable(table, s)
  PROVE  /\ table2.constraints = table.constraints /\ DOMAIN table2.columns = DOMAIN table.columns
         /\ \A k \in DOMAIN table.columns :
              /\ table2.columns[k].type = table.columns[k].type
              /\ table2.columns[k].notNull <=> IF k = s.column THEN b ELSE table.columns[k].notNull
<1> DEFINE c == s.column
           state == table.columns[c]
           columns == [table.columns EXCEPT ![c] = [state EXCEPT !.notNull = b]]
<1>1. CASE c \notin DOMAIN table.columns
  <2>1. table2 = table
    BY <1>1 DEF AlteredTable
  <2>2. QED
    BY <1>1, <2>1
<1>2. CASE c \in DOMAIN table.columns
  <2>1. table2 = [table EXCEPT !.columns[c].notNull = b]
    BY <1>2 DEF AlteredTable
  <2>2. table2 = [columns |-> columns, constraints |-> table.constraints]
    BY <2>1 DEF TableShape
  <2>3. IsState(state)
    BY <1>2 DEF TableShape
  <2>4. [state EXCEPT !.notNull = b] = [type |-> state.type, notNull |-> b]
    BY <2>3 DEF IsState
  <2>5. /\ DOMAIN columns = DOMAIN table.columns
        /\ columns[c] = [type |-> state.type, notNull |-> b]
        /\ \A k \in DOMAIN table.columns : k # c => columns[k] = table.columns[k]
    BY <1>2, <2>4
  <2>6. columns[c].type = state.type /\ columns[c].notNull = b
    BY <2>5
  <2> HIDE DEF columns
  <2>7. QED
    BY <2>2, <2>5, <2>6
<1>3. QED
  BY <1>1, <1>2

LEMMA SetNotNullFollows ==
  ASSUME NEW table, NEW old, NEW s, AlterOK(table, old, s), NEW b \in BOOLEAN,
         s.command = IF b THEN "set_not_null" ELSE "drop_not_null"
  PROVE  /\ Follows(table, old, s, AlteredTable(table, s), Altered(old, s, TRUE))
         /\ StaysWithin(table, old, AlteredTable(table, s), Altered(old, s, TRUE), s)
<1> DEFINE table2 == AlteredTable(table, s)
           new == Altered(old, s, TRUE)
           c == s.column
           columns == [k \in DOMAIN old.columns |->
                         IF k \in {c} THEN [type |-> old.columns[k].type, notNull |-> b]
                         ELSE old.columns[k]]
<1>1. /\ table2.constraints = table.constraints /\ DOMAIN table2.columns = DOMAIN table.columns
      /\ \A k \in DOMAIN table.columns :
           /\ table2.columns[k].type = table.columns[k].type
           /\ table2.columns[k].notNull <=> IF k = c THEN b ELSE table.columns[k].notNull
  BY NotNullSet DEF AlterOK
<1>2. new = Relation(columns, old.keys, old.parent, old.partition, old.view)
  BY DEF Altered, Relation, AlterOK
<1>3. /\ DOMAIN columns = DOMAIN old.columns
      /\ \A k \in DOMAIN old.columns :
           /\ columns[k].type = old.columns[k].type
           /\ columns[k].notNull <=> IF k = c THEN b ELSE old.columns[k].notNull
  OBVIOUS
<1>4. c \in DOMAIN old.columns /\ (~b => c \notin KeyColumns(old.keys))
  BY DEF AlterOK
<1> HIDE DEF table2, new, columns
<1>5. /\ new.columns = columns /\ new.keys = old.keys /\ new.parent = old.parent
      /\ new.partition = old.partition /\ new.view = old.view
  BY <1>2 DEF Relation
<1>6. SameKeys(table, old) => SameKeys(table2, new)
  BY <1>1, <1>5 DEF SameKeys, Primaries
<1>7. SameTypes(table, old) => SameTypes(table2, new)
  BY <1>1, <1>3, <1>5 DEF SameTypes
<1>8. ASSUME SameKeys(table, old), Required(table) = NotNullIn(old), b => c \in DOMAIN table.columns
      PROVE  Required(table2) = NotNullIn(new)
  <2>1. PrimaryColumns(table2) = KeyColumns(old.keys) /\ PrimaryColumns(table) = KeyColumns(old.keys)
    BY <1>5, <1>6, <1>8, PrimaryOfKeys
  <2>2. \A k : k \in Required(table2) <=> IF k = c THEN b ELSE k \in Required(table)
    BY <1>1, <1>4, <1>8, <2>1 DEF Required
  <2>3. \A k : k \in NotNullIn(new) <=> IF k = c THEN b ELSE k \in NotNullIn(old)
    BY <1>3, <1>4, <1>5 DEF NotNullIn
  <2>4. \A k : k \in Required(table2) <=> k \in NotNullIn(new)
    BY <1>8, <2>2, <2>3
  <2>5. QED
    BY <2>4
<1>9. KeysWithin(table, old) => KeysWithin(table2, new)
  BY <1>1, <1>5 DEF KeysWithin, Primaries
<1>10. TypesWithin(table, old) => TypesWithin(table2, new)
  BY <1>1, <1>3, <1>5 DEF TypesWithin
<1>11. ASSUME KeysWithin(table, old), Required(table) \subseteq NotNullIn(old)
       PROVE  Required(table2) \subseteq NotNullIn(new)
  <2>1. PrimaryColumns(table2) = PrimaryColumns(table)
    BY <1>1 DEF PrimaryColumns
  <2>2. ~b => c \notin PrimaryColumns(table)
    BY <1>4, <1>11, PrimaryOfKeysWithin
  <2>3. \A k \in Required(table2) : IF k = c THEN b ELSE k \in Required(table)
    BY <1>1, <2>1, <2>2 DEF Required
  <2>4. \A k : k \in NotNullIn(new) <=> IF k = c THEN b ELSE k \in NotNullIn(old)
    BY <1>3, <1>4, <1>5 DEF NotNullIn
  <2>5. QED
    BY <1>11, <2>3, <2>4
<1>12. Follows(table, old, s, table2, new)
  BY <1>1, <1>3, <1>5, <1>6, <1>7, <1>8 DEF Follows, Clear
<1>13. StaysWithin(table, old, table2, new, s)
  BY <1>1, <1>3, <1>5, <1>9, <1>10, <1>11 DEF StaysWithin
<1>14. QED
  BY <1>12, <1>13 DEF table2, new

LEMMA AlterTypeFollows ==
  ASSUME NEW table, NEW old, NEW s, AlterOK(table, old, s), s.command = "alter_type"
  PROVE  /\ Follows(table, old, s, AlteredTable(table, s), Altered(old, s, TRUE))
         /\ StaysWithin(table, old, AlteredTable(table, s), Altered(old, s, TRUE), s)
<1> DEFINE new == Altered(old, s, TRUE)
           columns == [c \in DOMAIN old.columns |->
                         IF c = s.column THEN [type |-> s.type, notNull |-> old.columns[c].notNull]
                         ELSE old.columns[c]]
<1>1. AlteredTable(table, s) = table
  BY DEF AlteredTable
<1>2. new = Relation(columns, old.keys, old.parent, old.partition, old.view)
  BY DEF Altered, Relation, AlterOK
<1>3. NotNullIn(old) = {c \in DOMAIN columns : columns[c].notNull} /\ DOMAIN columns = DOMAIN old.columns
  BY DEF NotNullIn
<1> HIDE DEF new, columns
<1>4. /\ new.columns = columns /\ new.keys = old.keys /\ new.parent = old.parent
      /\ new.partition = old.partition /\ new.view = old.view
  BY <1>2 DEF Relation
<1>5. SameKeys(table, old) => SameKeys(table, new)
  BY <1>4 DEF SameKeys
<1>6. NotNullIn(new) = NotNullIn(old)
  BY <1>3, <1>4 DEF NotNullIn
<1>7. KeysWithin(table, old) => KeysWithin(table, new)
  BY <1>4 DEF KeysWithin
<1>8. Follows(table, old, s, table, new)
  BY <1>3, <1>4, <1>5, <1>6 DEF Follows
<1>9. StaysWithin(table, old, table, new, s)
  BY <1>3, <1>4, <1>6, <1>7 DEF StaysWithin
<1>10. QED
  BY <1>1, <1>8, <1>9 DEF new

LEMMA OneKey ==
  ASSUME NEW k, k.kind = "primary"
  PROVE  KeyColumns(KeysOf({k})) = k.columns
<1>1. DOMAIN KeysOf({k}) = {ConstraintName(k)}
  BY DEF KeysOf
<1>2. (CHOOSE c \in {k} : ConstraintName(c) = ConstraintName(k)) = k
  OBVIOUS
<1>3. KeysOf({k})[ConstraintName(k)] = k.columns
  BY <1>1, <1>2 DEF KeysOf
<1>4. QED
  BY <1>1, <1>3 DEF KeyColumns

LEMMA AddConstraintFollows ==
  ASSUME NEW table, NEW old, NEW s, AlterOK(table, old, s), s.command = "add_constraint"
  PROVE  /\ Follows(table, old, s, AlteredTable(table, s), Altered(old, s, TRUE))
         /\ StaysWithin(table, old, AlteredTable(table, s), Altered(old, s, TRUE), s)
<1> DEFINE table2 == AlteredTable(table, s)
           new == Altered(old, s, TRUE)
           k == s.constraint
           columns == [c \in DOMAIN old.columns |->
                         IF c \in k.columns THEN [type |-> old.columns[c].type, notNull |-> TRUE]
                         ELSE old.columns[c]]
<1>1. table2 = AddConstraints(table, {k})
  BY DEF AlteredTable
<1>2. table2.columns = table.columns
  BY <1>1 DEF AddConstraints, AlterOK, TableShape
<1>3. new = Relation(columns, KeysOf({k}), old.parent, old.partition, old.view)
  BY DEF Altered, Relation, AlterOK
<1>4. /\ DOMAIN columns = DOMAIN old.columns
      /\ \A c \in DOMAIN old.columns :
           /\ columns[c].type = old.columns[c].type
           /\ columns[c].notNull <=> c \in k.columns \/ old.columns[c].notNull
  OBVIOUS
<1>5. DOMAIN old.keys = {} /\ k.columns \subseteq DOMAIN old.columns /\ k.kind = "primary"
  BY DEF AlterOK, WellFormed
<1> HIDE DEF table2, new, columns
<1>6. /\ new.columns = columns /\ new.keys = KeysOf({k}) /\ new.parent = old.parent
      /\ new.partition = old.partition /\ new.view = old.view
  BY <1>3 DEF Relation
<1>7. SameKeys(table, old) => SameKeys(table2, new) /\ Primaries(table) = {}
  <2>1. SameKeys(table, old) => Primaries(table) = {}
    BY <1>5 DEF SameKeys
  <2>2. table = [columns |-> table.columns, constraints |-> table.constraints]
    BY DEF AlterOK, TableShape
  <2>3. \A a, b \in {k} : a = b
    OBVIOUS
  <2>4. QED
    BY <1>1, <1>6, <2>1, <2>2, <2>3, AddedKeys
<1>8. SameTypes(table, old) => SameTypes(table2, new)
  BY <1>2, <1>4, <1>6 DEF SameTypes
<1>9. ASSUME SameKeys(table, old), Required(table) = NotNullIn(old), k.columns \subseteq DOMAIN table.columns
      PROVE  Required(table2) = NotNullIn(new)
  <2>1. PrimaryColumns(table2) = k.columns
    BY <1>5, <1>6, <1>7, <1>9, OneKey, PrimaryOfKeys
  <2>2. PrimaryColumns(table) = {}
    BY <1>7, <1>9 DEF PrimaryColumns, Primaries
  <2>3. Required(table2) = Required(table) \cup k.columns
    BY <1>2, <1>9, <2>1, <2>2 DEF Required
  <2>4. NotNullIn(new) = NotNullIn(old) \cup k.columns
    BY <1>4, <1>5, <1>6 DEF NotNullIn
  <2>5. QED
    BY <1>9, <2>3, <2>4
<1>10. ASSUME KeysWithin(table, old)
       PROVE  KeysWithin(table2, new) /\ PrimaryColumns(table2) = k.columns
  <2>1. Primaries(table) = {} /\ SameKeys(table, old)
    BY <1>5, <1>10 DEF KeysWithin, SameKeys
  <2>2. SameKeys(table2, new)
    BY <1>7, <2>1
  <2>3. PrimaryColumns(table2) = KeyColumns(KeysOf({k}))
    BY <1>6, <2>2, PrimaryOfKeys
  <2>4. KeysWithin(table2, new)
    BY <2>2 DEF SameKeys, KeysWithin
  <2>5. QED
    BY <1>5, <2>3, <2>4, OneKey
<1>11. TypesWithin(table, old) => TypesWithin(table2, new)
  BY <1>2, <1>4, <1>6 DEF TypesWithin
<1>12. ASSUME KeysWithin(table, old), Required(table) \subseteq NotNullIn(old)
       PROVE  Required(table2) \subseteq NotNullIn(new)
  <2>1. Required(table2) \subseteq Required(table) \cup k.columns
    BY <1>2, <1>10, <1>12 DEF Required
  <2>2. NotNullIn(new) = NotNullIn(old) \cup k.columns
    BY <1>4, <1>5, <1>6 DEF NotNullIn
  <2>3. QED
    BY <1>12, <2>1, <2>2
<1>13. Follows(table, old, s, table2, new)
  BY <1>2, <1>4, <1>6, <1>7, <1>8, <1>9 DEF Follows, Clear
<1>14. StaysWithin(table, old, table2, new, s)
  BY <1>2, <1>4, <1>6, <1>10, <1>11, <1>12 DEF StaysWithin
<1>15. QED
  BY <1>13, <1>14 DEF table2, new

LEMMA DropConstraintFollows ==
  ASSUME NEW table, NEW old, NEW s, AlterOK(table, old, s), s.command = "drop_constraint"
  PROVE  /\ Follows(table, old, s, AlteredTable(table, s), Altered(old, s, TRUE))
         /\ StaysWithin(table, old, AlteredTable(table, s), Altered(old, s, TRUE), s)
<1> DEFINE table2 == AlteredTable(table, s)
           new == Altered(old, s, TRUE)
           name == ConstraintName(s.constraint)
<1>1. table2 = [columns |-> table.columns, constraints |-> Without(table.constraints, {name})]
  BY DEF AlteredTable, AlterOK, TableShape
<1>2. new = Relation(old.columns, Without(old.keys, {name}), old.parent, old.partition, old.view)
  BY DEF Altered, Relation, AlterOK
<1> HIDE DEF table2, new, name
<1>3. /\ new.columns = old.columns /\ new.keys = Without(old.keys, {name}) /\ new.parent = old.parent
      /\ new.partition = old.partition /\ new.view = old.view
  BY <1>2 DEF Relation
<1>4. SameKeys(table, old) => SameKeys(table2, new)
  <2>1. /\ DOMAIN table2.constraints = DOMAIN table.constraints \ {name}
        /\ \A n \in DOMAIN table2.constraints : table2.constraints[n] = table.constraints[n]
    BY <1>1 DEF Without
  <2>2. /\ DOMAIN new.keys = DOMAIN old.keys \ {name}
        /\ \A n \in DOMAIN new.keys : new.keys[n] = old.keys[n]
    BY <1>3 DEF Without
  <2>3. Primaries(table2) = Primaries(table) \ {name}
    BY <2>1 DEF Primaries
  <2>4. Primaries(table2) \subseteq DOMAIN table2.constraints
    BY DEF Primaries
  <2>5. QED
    BY <2>1, <2>2, <2>3, <2>4 DEF SameKeys
<1>5. SameTypes(table, old) => SameTypes(table2, new)
  BY <1>1, <1>3 DEF SameTypes
<1>6. table2.columns = table.columns /\ ~Clear(table, old, s)
  BY <1>1 DEF Clear
<1>7. Follows(table, old, s, table2, new)
  BY <1>3, <1>4, <1>5, <1>6 DEF Follows
<1>8. KeysWithin(table, old) => KeysWithin(table2, new)
  <2>1. \A n \in Primaries(table2) : /\ n \in Primaries(table) \ {name}
                                     /\ table2.constraints[n] = table.constraints[n]
    BY <1>1 DEF Without, Primaries
  <2>2. /\ DOMAIN new.keys = DOMAIN old.keys \ {name}
        /\ \A n \in DOMAIN new.keys : new.keys[n] = old.keys[n]
    BY <1>3 DEF Without
  <2>3. QED
    BY <2>1, <2>2 DEF KeysWithin
<1>9. Required(table2) \subseteq Required(table) /\ NotNullIn(new) = NotNullIn(old)
  <2>1. \A n \in DOMAIN table2.constraints : /\ n \in DOMAIN table.constraints
                                             /\ table2.constraints[n] = table.constraints[n]
    BY <1>1 DEF Without
  <2>2. PrimaryColumns(table2) \subseteq PrimaryColumns(table)
    BY <2>1 DEF PrimaryColumns
  <2>3. QED
    BY <1>3, <1>6, <2>2 DEF Required, NotNullIn
<1>10. StaysWithin(table, old, table2, new, s)
  BY <1>3, <1>6, <1>8, <1>9 DEF StaysWithin, TypesWithin
<1>11. QED
  BY <1>7, <1>10 DEF table2, new

LEMMA AlteredFollows ==
  ASSUME NEW table, NEW old, NEW s, AlterOK(table, old, s), s.command # "other"
  PROVE  /\ Follows(table, old, s, AlteredTable(table, s), Altered(old, s, TRUE))
         /\ StaysWithin(table, old, AlteredTable(table, s), Altered(old, s, TRUE), s)
<1>1. CASE s.command = "set_not_null"
  BY <1>1, SetNotNullFollows
<1>2. CASE s.command = "drop_not_null"
  BY <1>2, SetNotNullFollows
<1>3. s.command \in {"add_column", "drop_column", "set_not_null", "drop_not_null",
                     "alter_type", "add_constraint", "drop_constraint", "other"}
  BY DEF AlterOK, WellFormed
<1>4. QED
  BY <1>1, <1>2, <1>3, AddColumnFollows, DropColumnFollows, AlterTypeFollows,
     AddConstraintFollows, DropConstraintFollows

\* What an ALTER TABLE of the parent does not do to a child.
LEMMA HeirAltered ==
  ASSUME NEW old, old = Relation(old.columns, old.keys, old.parent, old.partition, old.view),
         NEW s, WellFormed(s), s.do = "alter_table"
  PROVE  LET new == Altered(old, s, FALSE)
         IN  /\ new.parent = old.parent /\ new.partition = old.partition /\ new.view = old.view
             /\ s.command # "drop_column" => new.keys = old.keys
<1> DEFINE new == Altered(old, s, FALSE)
<1>1. CASE s.command = "drop_column"
  <2>1. new = Relation(new.columns, new.keys, old.parent, old.partition, old.view)
    BY <1>1 DEF Altered, Relation
  <2> HIDE DEF new
  <2>2. new.parent = old.parent /\ new.partition = old.partition /\ new.view = old.view
    BY <2>1 DEF Relation
  <2>3. QED
    BY <1>1, <2>2 DEF new
<1>2. CASE s.command \in {"add_column", "set_not_null", "alter_type", "add_constraint"}
  <2>1. new = Relation(new.columns, old.keys, old.parent, old.partition, old.view)
    BY <1>2 DEF Altered, Relation
  <2> HIDE DEF new
  <2>2. /\ new.parent = old.parent /\ new.partition = old.partition /\ new.view = old.view
        /\ new.keys = old.keys
    BY <2>1 DEF Relation
  <2>3. QED
    BY <2>2 DEF new
<1>3. CASE s.command \in {"drop_not_null", "drop_constraint", "other"}
  BY <1>3 DEF Altered
<1>4. QED
  BY <1>1, <1>2, <1>3 DEF WellFormed

LEMMA AlterShape ==
  ASSUME NEW e, NEW s, SchemaShape(e), WellFormed(s), s.do = "alter_table"
  PROVE  SchemaShape(ApplyAlter(e, s)) /\ e.gaps \subseteq ApplyAlter(e, s).gaps
<1> DEFINE t == s.table
           e2 == ApplyAlter(e, s)
<1>1. CASE t \notin DOMAIN e.tables
  <2>1. e2 = [schemas |-> e.schemas, tables |-> e.tables, views |-> e.views,
              partitions |-> e.partitions, inheritance |-> e.inheritance,
              gaps |-> e.gaps \cup Gap(SqlRelations, OfTable(t))]
    BY <1>1 DEF ApplyAlter, SchemaShape
  <2>2. QED
    BY <2>1 DEF SchemaShape
<1>2. CASE t \in DOMAIN e.tables
  <2> DEFINE tables == [e.tables EXCEPT ![t] = AlteredTable(@, s)]
             gaps == IF s.command = "other" THEN e.gaps \cup Gap(SqlRelations, OfTable(t)) ELSE e.gaps
  <2>1. e2 = [schemas |-> e.schemas, tables |-> tables, views |-> e.views,
              partitions |-> e.partitions, inheritance |-> e.inheritance, gaps |-> gaps]
    BY <1>2 DEF ApplyAlter, SchemaShape
  <2>2. DOMAIN tables = DOMAIN e.tables /\ e.gaps \subseteq gaps
    OBVIOUS
  <2>3. \A n \in DOMAIN tables : TableShape(tables[n])
    BY <1>2, AlteredShape DEF SchemaShape
  <2> HIDE DEF e2, tables, gaps
  <2>4. SchemaShape(e2) /\ e.gaps \subseteq e2.gaps
    BY <2>1, <2>2, <2>3 DEF SchemaShape
  <2>5. QED
    BY <2>4 DEF e2
<1>3. QED
  BY <1>1, <1>2

LEMMA AlterKeeps ==
  ASSUME NEW e, NEW d, NEW m, NEW s, SchemaShape(e), DatabaseShape(d), RelationsOK(e, d, m),
         WellFormed(s), s.do = "alter_table", Accepted(d, s), Nobody \notin Names
  PROVE  RelationsOK(ApplyAlter(e, s), After(d, s), m \cup Overlooked(d, e, s, m))
<1> DEFINE t == s.table
           heirs == Heirs(d, t)
           family == {t} \cup heirs
           e2 == ApplyAlter(e, s)
           d2 == After(d, s)
           m2 == m \cup Overlooked(d, e, s, m)
<1> SUFFICES ASSUME NEW n \in Names PROVE NameOK(e2, d2, m2, n)
  BY DEF RelationsOK
<1>1. t \in DOMAIN d /\ ~d[t].view /\ t \in Names
  BY DEF Accepted, WellFormed
<1>2. TableOK(e, d, m, t) /\ NameOK(e, d, m, n)
  BY <1>1 DEF RelationsOK, NameOK
<1>3. /\ DOMAIN e2.tables = DOMAIN e.tables
      /\ e2.tables[t] = AlteredTable(e.tables[t], s)
      /\ \A k \in DOMAIN e.tables : k # t => e2.tables[k] = e.tables[k]
      /\ e2.views = e.views /\ e2.inheritance = e.inheritance
      /\ s.command = "other" => Gap(SqlRelations, OfTable(t)) \subseteq e2.gaps
  <2>1. t \in DOMAIN e.tables
    BY <1>2 DEF TableOK
  <2>2. e2 = [schemas |-> e.schemas, tables |-> [e.tables EXCEPT ![t] = AlteredTable(@, s)],
              views |-> e.views, partitions |-> e.partitions, inheritance |-> e.inheritance,
              gaps |-> IF s.command = "other"
                       THEN e.gaps \cup Gap(SqlRelations, OfTable(t)) ELSE e.gaps]
    BY <2>1 DEF ApplyAlter, SchemaShape
  <2>3. QED
    BY <2>1, <2>2
<1>4. e.gaps \subseteq e2.gaps
  BY AlterShape
<1>5. /\ DOMAIN d2 = DOMAIN d
      /\ d2[t] = Altered(d[t], s, TRUE)
      /\ \A h \in heirs : h # t => d2[h] = Altered(d[h], s, FALSE)
      /\ \A k \in DOMAIN d \ family : d2[k] = d[k]
  BY <1>1 DEF After, Heirs
<1>6. /\ {"column", "column_type", "column_not_null"} \X heirs \subseteq m2
      /\ s.command = "alter_type" => <<"column_type", t>> \in m2
      /\ s.command = "drop_column" => {"primary_key"} \X heirs \subseteq m2
      /\ ~Clear(e.tables[t], d[t], s) => <<"column_not_null", t>> \in m2
  <2>1. Overlooked(d, e, s, m) =
          ({"column", "column_type", "column_not_null"} \X heirs)
            \cup
            CASE s.command = "alter_type" -> {<<"column_type", t>>}
              [] s.command = "drop_column" ->
                   ({"primary_key"} \X heirs)
                     \cup (IF s.column \in KeyColumns(d[t].keys)
                           THEN {<<"column_not_null", t>>} ELSE {})
              [] s.command = "drop_constraint" -> {<<"column_not_null", t>>}
              [] s.command = "set_not_null" /\ s.column \notin DOMAIN e.tables[t].columns ->
                   {<<"column_not_null", t>>}
              [] s.command = "add_constraint"
                   /\ ~(s.constraint.columns \subseteq DOMAIN e.tables[t].columns) ->
                   {<<"column_not_null", t>>}
              [] OTHER -> {}
    BY <1>2 DEF Overlooked, TableOK
  <2> HIDE DEF heirs
  <2>2. /\ s.command = "alter_type" => <<"column_type", t>> \in Overlooked(d, e, s, m)
        /\ s.command = "drop_column" => {"primary_key"} \X heirs \subseteq Overlooked(d, e, s, m)
        /\ {"column", "column_type", "column_not_null"} \X heirs \subseteq Overlooked(d, e, s, m)
    BY <2>1
  <2>3. ~Clear(e.tables[t], d[t], s) => <<"column_not_null", t>> \in Overlooked(d, e, s, m)
    BY <2>1 DEF Clear
  <2>4. QED
    BY <2>2, <2>3
<1> HIDE DEF e2, d2, m2
<1>7. m \subseteq m2
  BY DEF m2
<1>8. \A k : ParentsKnown(e2, k) = ParentsKnown(e, k)
  BY <1>3 DEF ParentsKnown
<1>9. CASE n \notin family
  BY <1>2, <1>3, <1>4, <1>5, <1>7, <1>8, <1>9, Untouched
<1>10. ASSUME n \in DOMAIN d, ~d[n].view, d2[n].view = d[n].view, TableOK(e2, d2, m2, n)
       PROVE  NameOK(e2, d2, m2, n)
  <2>1. Lost(m, n) => Lost(m2, n)
    BY <1>7 DEF Lost
  <2>2. QED
    BY <1>2, <1>3, <1>5, <1>10, <2>1 DEF NameOK
<1>11. CASE n = t /\ s.command = "other"
  <2>1. Dark(e2, m2, t)
    BY <1>3, <1>11 DEF Dark
  <2>2. d2[t].view = d[t].view
    <3>1. d[t] = Relation(d[t].columns, d[t].keys, d[t].parent, d[t].partition, d[t].view)
      BY <1>1 DEF DatabaseShape, RelationShape
    <3>2. d2[t] = Relation(d[t].columns, d[t].keys, s.parent, d[t].partition, d[t].view)
      BY <1>5, <1>11, <3>1 DEF Altered, Relation
    <3>3. QED
      BY <3>2 DEF Relation
  <2>3. Lost(m, t) => Lost(m2, t)
    BY <1>7 DEF Lost
  <2>4. Within(e, d, m, t) => Within(e2, d2, m2, t)
    <3> SUFFICES ASSUME Within(e, d, m, t) PROVE Within(e2, d2, m2, t)
      OBVIOUS
    <3>1. e2.tables[t] = e.tables[t]
      BY <1>3, <1>11 DEF AlteredTable
    <3>2. d[t] = Relation(d[t].columns, d[t].keys, d[t].parent, d[t].partition, d[t].view)
      BY <1>1 DEF DatabaseShape, RelationShape
    <3>3. d2[t] = Relation(d[t].columns, d[t].keys, s.parent, d[t].partition, d[t].view)
      BY <1>5, <1>11, <3>2 DEF Altered, Relation
    <3>4. d2[t].columns = d[t].columns /\ d2[t].keys = d[t].keys
      BY <3>3 DEF Relation
    <3>5. d[t].parent = Nobody
      BY <1>11 DEF Accepted
    <3>6. ParentsKnown(e2, t) = {}
      BY <1>8, <3>5 DEF Within, ParentsIn
    <3>7. KeysWithin(e.tables[t], d[t]) => KeysWithin(e2.tables[t], d2[t])
      BY <3>1, <3>4 DEF KeysWithin
    <3>8. TypesWithin(e.tables[t], d[t]) => TypesWithin(e2.tables[t], d2[t])
      BY <3>1, <3>4 DEF TypesWithin
    <3>9. NotNullIn(d2[t]) = NotNullIn(d[t])
      BY <3>4 DEF NotNullIn
    <3>10. {"primary_key", "column_not_null"} \X {t} \subseteq m
             => {"primary_key", "column_not_null"} \X {t} \subseteq m2
      BY <1>7
    <3>11. QED
      BY <1>7, <3>1, <3>4, <3>6, <3>7, <3>8, <3>9, <3>10 DEF Within
  <2>5. TableOK(e2, d2, m2, t)
    BY <1>2, <1>3, <2>1, <2>3, <2>4 DEF TableOK
  <2>6. QED
    BY <1>1, <1>11, <1>10, <2>2, <2>5
<1>12. CASE n = t /\ s.command # "other"
  <2> DEFINE table == e.tables[t]
             old == d[t]
  <2>1. t \in DOMAIN e.tables /\ TableShape(table)
    BY <1>2 DEF TableOK, SchemaShape
  <2>2. AlterOK(table, old, s)
    <3>1. /\ old = Relation(old.columns, old.keys, old.parent, old.partition, old.view)
          /\ KeyColumns(old.keys) \subseteq DOMAIN old.columns
      BY <1>1 DEF DatabaseShape, RelationShape
    <3>2. /\ s.command = "add_column" => s.column \notin DOMAIN old.columns
          /\ s.command = "add_constraint" => /\ DOMAIN old.keys = {}
                                             /\ s.constraint.columns \subseteq DOMAIN old.columns
          /\ s.command = "drop_not_null" => s.column \notin KeyColumns(old.keys)
          /\ s.command \in {"drop_column", "set_not_null", "drop_not_null", "alter_type"}
               => s.column \in DOMAIN old.columns
      BY DEF Accepted
    <3>3. s.command \in {"add_column", "drop_column", "set_not_null", "drop_not_null",
                         "alter_type", "add_constraint", "drop_constraint", "other"}
      BY DEF WellFormed
    <3>4. QED
      BY <2>1, <3>1, <3>2, <3>3 DEF AlterOK
  <2>3. Follows(table, old, s, e2.tables[t], d2[t]) /\ StaysWithin(table, old, e2.tables[t], d2[t], s)
    <3> HIDE DEF table, old
    <3>1. /\ Follows(table, old, s, AlteredTable(table, s), Altered(old, s, TRUE))
          /\ StaysWithin(table, old, AlteredTable(table, s), Altered(old, s, TRUE), s)
      BY <1>12, <2>2, AlteredFollows
    <3>2. QED
      BY <1>3, <1>5, <3>1 DEF table, old
  <2>4. Agree(e, d, m, t) => Agree(e2, d2, m2, t)
    <3>1. \A r : Off(e, m, r, t) => Off(e2, m2, r, t)
      BY <1>4, <1>7 DEF Off
    <3>2. ParentsIn(d2[t]) = ParentsIn(d[t])
      BY <2>3 DEF Follows, ParentsIn
    <3>3. s.command = "alter_type" => Off(e2, m2, "column_type", t)
      BY <1>6 DEF Off
    <3>4. ~Clear(table, old, s) => Off(e2, m2, "column_not_null", t)
      BY <1>6 DEF Off
    <3>5. QED
      BY <1>8, <2>3, <3>1, <3>2, <3>3, <3>4 DEF Agree, Follows
  <2>5. Dark(e, m, t) => Dark(e2, m2, t)
    BY <1>4, <1>7, DarkStays
  <2>6. d2[t].view = d[t].view
    BY <2>3 DEF Follows
  <2>7. Within(e, d, m, t) => Within(e2, d2, m2, t)
    <3>1. ParentsIn(d2[t]) = ParentsIn(d[t])
      BY <2>3 DEF Follows, ParentsIn
    <3>2. s.command = "alter_type" => <<"column_type", t>> \in m2
      BY <1>6
    <3>3. {"primary_key", "column_not_null"} \X {t} \subseteq m
            => {"primary_key", "column_not_null"} \X {t} \subseteq m2 /\ <<"column_not_null", t>> \in m
      BY <1>7
    <3>4. QED
      BY <1>7, <1>8, <2>3, <3>1, <3>2, <3>3 DEF Within, StaysWithin
  <2>8. Lost(m, t) => Lost(m2, t)
    BY <1>7 DEF Lost
  <2>9. TableOK(e2, d2, m2, t)
    BY <1>2, <1>3, <2>4, <2>5, <2>7, <2>8 DEF TableOK
  <2>10. QED
    BY <1>1, <1>12, <1>10, <2>6, <2>9
<1>13. CASE n \in heirs /\ n # t
  <2>1. n \in DOMAIN d /\ d[n].parent = t /\ t # Nobody
    BY <1>1, <1>13 DEF Heirs
  <2>2. ~d[n].view /\ TableOK(e, d, m, n)
    BY <1>2, <2>1 DEF NameOK, ViewOK
  <2>3. d[n] = Relation(d[n].columns, d[n].keys, d[n].parent, d[n].partition, d[n].view)
    BY <2>1 DEF DatabaseShape, RelationShape
  <2>4. d2[n] = Altered(d[n], s, FALSE)
    BY <1>5, <1>13
  <2>5. /\ d2[n].parent = d[n].parent /\ d2[n].partition = d[n].partition /\ d2[n].view = d[n].view
        /\ s.command # "drop_column" => d2[n].keys = d[n].keys
    <3> DEFINE old == d[n]
    <3>1. old = Relation(old.columns, old.keys, old.parent, old.partition, old.view)
      BY <2>3
    <3> HIDE DEF old
    <3>2. LET new == Altered(old, s, FALSE)
          IN  /\ new.parent = old.parent /\ new.partition = old.partition /\ new.view = old.view
              /\ s.command # "drop_column" => new.keys = old.keys
      BY <3>1, HeirAltered
    <3>3. QED
      BY <2>4, <3>2 DEF old
  <2>6. \A r \in {"column", "column_type", "column_not_null"} : Off(e2, m2, r, n)
    BY <1>6, <1>13 DEF Off
  <2>7. Agree(e, d, m, n) => Agree(e2, d2, m2, n)
    <3>1. Off(e, m, "primary_key", n) => Off(e2, m2, "primary_key", n)
      BY <1>4, <1>7 DEF Off
    <3>2. s.command = "drop_column" => Off(e2, m2, "primary_key", n)
      BY <1>6, <1>13 DEF Off
    <3>3. ParentsIn(d2[n]) = ParentsIn(d[n])
      BY <2>5 DEF ParentsIn
    <3>4. e2.tables[n] = e.tables[n]
      BY <1>3, <1>13, <2>2 DEF TableOK
    <3>5. SameKeys(e.tables[n], d[n]) => \/ SameKeys(e2.tables[n], d2[n])
                                         \/ s.command = "drop_column"
      BY <2>5, <3>4 DEF SameKeys
    <3>6. QED
      BY <1>8, <2>6, <3>1, <3>2, <3>3, <3>5 DEF Agree
  <2>8. Dark(e, m, n) => Dark(e2, m2, n)
    BY <1>4, <1>7, DarkStays
  <2>9. Within(e, d, m, n) => Within(e2, d2, m2, n)
    <3>1. {"column", "column_type", "column_not_null"} \X {n} \subseteq m2
      BY <1>6, <1>13
    <3>2. s.command = "drop_column" => <<"primary_key", n>> \in m2
      BY <1>6, <1>13
    <3>3. ParentsIn(d2[n]) = ParentsIn(d[n])
      BY <2>5 DEF ParentsIn
    <3>4. e2.tables[n] = e.tables[n]
      BY <1>3, <1>13, <2>2 DEF TableOK
    <3>5. s.command # "drop_column" => (KeysWithin(e.tables[n], d[n]) => KeysWithin(e2.tables[n], d2[n]))
      BY <2>5, <3>4 DEF KeysWithin
    <3>6. <<"primary_key", n>> \in m2 => {"primary_key", "column_not_null"} \X {n} \subseteq m2
      BY <3>1
    <3>7. {"primary_key", "column_not_null"} \X {n} \subseteq m => <<"primary_key", n>> \in m2
      BY <1>7
    <3>8. QED
      BY <1>8, <3>1, <3>2, <3>3, <3>5, <3>6, <3>7 DEF Within
  <2>10. Lost(m, n) => Lost(m2, n)
    BY <1>7 DEF Lost
  <2>11. TableOK(e2, d2, m2, n)
    BY <1>3, <2>2, <2>7, <2>8, <2>9, <2>10 DEF TableOK
  <2>12. QED
    BY <1>10, <2>1, <2>2, <2>5, <2>11
<1>14. QED
  BY <1>9, <1>11, <1>12, <1>13
-----------------------------------------------------------------------------
(* The shape of the database                                               *)

LEMMA AlteredRelation ==
  ASSUME NEW old, RelationShape(old), NEW s, WellFormed(s), s.do = "alter_table",
         NEW own \in BOOLEAN,
         own /\ s.command = "add_constraint" => s.constraint.columns \subseteq DOMAIN old.columns
  PROVE  RelationShape(Altered(old, s, own))
<1> DEFINE Not(columns, b) ==
             [c \in DOMAIN old.columns |->
                IF c \in columns THEN [type |-> old.columns[c].type, notNull |-> b] ELSE old.columns[c]]
<1>0. ASSUME NEW columns, NEW keys, NEW parent, NEW new,
             new = Relation(columns, keys, parent, old.partition, old.view),
             KeyColumns(keys) \subseteq DOMAIN columns
      PROVE  RelationShape(new)
  <2>1. /\ new.columns = columns /\ new.keys = keys /\ new.parent = parent
        /\ new.partition = old.partition /\ new.view = old.view
    BY <1>0 DEF Relation
  <2>2. QED
    BY <1>0, <2>1 DEF RelationShape
<1>1. CASE s.command = "add_column"
  <2> DEFINE columns == IF s.column \in DOMAIN old.columns
                        THEN Not({s.column}, old.columns[s.column].notNull \/ s.state.notNull)
                        ELSE Over(old.columns, Entry(s.column, s.state))
  <2>1. Altered(old, s, own) = Relation(columns, old.keys, old.parent, old.partition, old.view)
    BY <1>1 DEF Altered, Relation, RelationShape
  <2>2. DOMAIN old.columns \subseteq DOMAIN columns
    BY DEF Over
  <2> HIDE DEF columns
  <2>3. KeyColumns(old.keys) \subseteq DOMAIN columns
    BY <2>2 DEF RelationShape
  <2>4. QED
    BY <1>0, <2>1, <2>3
<1>2. CASE s.command = "drop_column"
  <2> DEFINE columns == Without(old.columns, {s.column})
             keys == Without(old.keys, {n \in DOMAIN old.keys : s.column \in old.keys[n]})
  <2>1. Altered(old, s, own) = Relation(columns, keys, old.parent, old.partition, old.view)
    BY <1>2 DEF Altered, Relation, RelationShape
  <2>2. DOMAIN columns = DOMAIN old.columns \ {s.column}
    BY DEF Without
  <2>3. \A n \in DOMAIN keys : n \in DOMAIN old.keys /\ keys[n] = old.keys[n] /\ s.column \notin keys[n]
    BY DEF Without
  <2>4. KeyColumns(keys) \subseteq DOMAIN columns
    BY <2>2, <2>3 DEF RelationShape, KeyColumns
  <2> HIDE DEF columns, keys
  <2>5. QED
    BY <1>0, <2>1, <2>4
<1>3. CASE s.command \in {"set_not_null", "drop_not_null"} /\ (own \/ s.command = "set_not_null")
  <2> DEFINE columns == Not({s.column}, s.command = "set_not_null")
  <2>1. Altered(old, s, own) = Relation(columns, old.keys, old.parent, old.partition, old.view)
    <3>1. CASE s.command = "set_not_null"
      BY <3>1 DEF Altered, Relation, RelationShape
    <3>2. CASE s.command = "drop_not_null"
      BY <1>3, <3>2 DEF Altered, Relation, RelationShape
    <3>3. QED
      BY <1>3, <3>1, <3>2
  <2>2. DOMAIN columns = DOMAIN old.columns
    OBVIOUS
  <2> HIDE DEF columns
  <2>3. KeyColumns(old.keys) \subseteq DOMAIN columns
    BY <2>2 DEF RelationShape
  <2>4. QED
    BY <1>0, <2>1, <2>3
<1>4. CASE s.command = "alter_type"
  <2> DEFINE columns == [c \in DOMAIN old.columns |->
                           IF c = s.column THEN [type |-> s.type, notNull |-> old.columns[c].notNull]
                           ELSE old.columns[c]]
  <2>1. Altered(old, s, own) = Relation(columns, old.keys, old.parent, old.partition, old.view)
    BY <1>4 DEF Altered, Relation, RelationShape
  <2>2. DOMAIN columns = DOMAIN old.columns
    OBVIOUS
  <2> HIDE DEF columns
  <2>3. KeyColumns(old.keys) \subseteq DOMAIN columns
    BY <2>2 DEF RelationShape
  <2>4. QED
    BY <1>0, <2>1, <2>3
<1>5. CASE s.command = "add_constraint"
  <2> DEFINE columns == Not(s.constraint.columns, TRUE)
             keys == IF own THEN KeysOf({s.constraint}) ELSE old.keys
  <2>1. Altered(old, s, own) = Relation(columns, keys, old.parent, old.partition, old.view)
    BY <1>5 DEF Altered, Relation, RelationShape
  <2>2. DOMAIN columns = DOMAIN old.columns
    OBVIOUS
  <2>3. s.constraint.kind = "primary"
    BY <1>5 DEF WellFormed
  <2> HIDE DEF columns
  <2>4. KeyColumns(keys) \subseteq DOMAIN columns
    <3>1. CASE own
      BY <1>5, <2>2, <2>3, <3>1, OneKey
    <3>2. CASE ~own
      BY <2>2, <3>2 DEF RelationShape
    <3>3. QED
      BY <3>1, <3>2
  <2> HIDE DEF keys
  <2>5. QED
    BY <1>0, <2>1, <2>4
<1>6. CASE s.command = "drop_constraint" /\ own
  <2> DEFINE keys == Without(old.keys, {ConstraintName(s.constraint)})
  <2>1. Altered(old, s, own) = Relation(old.columns, keys, old.parent, old.partition, old.view)
    BY <1>6 DEF Altered, Relation, RelationShape
  <2>2. KeyColumns(keys) \subseteq DOMAIN old.columns
    BY DEF RelationShape, KeyColumns, Without
  <2> HIDE DEF keys
  <2>3. QED
    BY <1>0, <2>1, <2>2
<1>7. CASE s.command = "other" /\ own
  <2>1. Altered(old, s, own) = Relation(old.columns, old.keys, s.parent, old.partition, old.view)
    BY <1>7 DEF Altered, Relation, RelationShape
  <2>2. QED
    BY <1>0, <2>1 DEF RelationShape
<1>8. CASE s.command \in {"drop_not_null", "drop_constraint", "other"} /\ ~own
  BY <1>8 DEF Altered
<1>9. QED
  BY <1>1, <1>2, <1>3, <1>4, <1>5, <1>6, <1>7, <1>8 DEF WellFormed

LEMMA PlainRelation ==
  ASSUME NEW columns, NEW view \in BOOLEAN
  PROVE  RelationShape(Relation(columns, Empty, Nobody, FALSE, view))
BY DEF RelationShape, Relation, KeyColumns, Empty

LEMMA MadeRelation ==
  ASSUME NEW d, NEW s, WellFormed(s), s.do = "create_table",
         KeyColumns(KeysOf(s.constraints)) \subseteq DOMAIN Made(d, s).columns
  PROVE  RelationShape(Made(d, s))
<1> DEFINE made == Made(d, s)
<1>1. PICK columns : made = Relation(columns, KeysOf(s.constraints), s.parent, s.partition, FALSE)
  BY DEF Made
<1>2. /\ made.columns = columns /\ made.keys = KeysOf(s.constraints) /\ made.parent = s.parent
      /\ made.partition = s.partition /\ made.view = FALSE
  BY <1>1 DEF Relation
<1>3. s.partition \in BOOLEAN
  BY DEF WellFormed
<1>4. QED
  BY <1>1, <1>2, <1>3 DEF RelationShape

LEMMA RenamedRelation ==
  ASSUME NEW r, RelationShape(r), NEW parent
  PROVE  RelationShape([r EXCEPT !.parent = parent])
<1> DEFINE new == [r EXCEPT !.parent = parent]
<1>1. new = Relation(r.columns, r.keys, parent, r.partition, r.view)
  BY DEF RelationShape, Relation
<1> HIDE DEF new
<1>2. /\ new.columns = r.columns /\ new.keys = r.keys /\ new.parent = parent
      /\ new.partition = r.partition /\ new.view = r.view
  BY <1>1 DEF Relation
<1>3. RelationShape(new)
  BY <1>1, <1>2 DEF RelationShape
<1>4. QED
  BY <1>3 DEF new

LEMMA AddedRelation ==
  ASSUME NEW d, DatabaseShape(d), NEW t \in Names, NEW r, RelationShape(r)
  PROVE  DatabaseShape(Over(d, Entry(t, r)))
<1> DEFINE d2 == Over(d, Entry(t, r))
<1>1. DOMAIN d2 = DOMAIN d \cup {t} /\ \A k \in DOMAIN d2 : d2[k] = IF k = t THEN r ELSE d[k]
  BY DEF Over, Entry
<1> HIDE DEF d2
<1>2. DatabaseShape(d2)
  BY <1>1 DEF DatabaseShape
<1>3. QED
  BY <1>2 DEF d2

LEMMA FewerRelations ==
  ASSUME NEW d, DatabaseShape(d), NEW some
  PROVE  DatabaseShape(Without(d, some))
BY DEF DatabaseShape, Without

LEMMA AfterShape ==
  ASSUME NEW d, DatabaseShape(d), NEW s, WellFormed(s), Accepted(d, s)
  PROVE  DatabaseShape(After(d, s))
<1> DEFINE t == s.table
           family == {t} \cup Heirs(d, t)
           d2 == After(d, s)
<1>1. CASE s.do = "create_table"
  <2>1. d2 = IF t \in DOMAIN d THEN d ELSE Over(d, Entry(t, Made(d, s)))
    BY <1>1 DEF After
  <2>2. t \in DOMAIN d \/ KeyColumns(KeysOf(s.constraints)) \subseteq DOMAIN Made(d, s).columns
    BY <1>1 DEF Accepted
  <2>3. t \in Names
    BY <1>1 DEF WellFormed
  <2>4. CASE t \in DOMAIN d
    BY <2>1, <2>4
  <2>5. CASE t \notin DOMAIN d
    <3>1. RelationShape(Made(d, s))
      BY <1>1, <2>2, <2>5, MadeRelation
    <3>2. QED
      BY <2>1, <2>3, <2>5, <3>1, AddedRelation
  <2>6. QED
    BY <2>4, <2>5
<1>2. CASE s.do = "create_as"
  <2>1. d2 = Over(d, Entry(t, Relation(s.columns, Empty, Nobody, FALSE, s.view)))
    BY <1>2 DEF After
  <2>2. t \in Names /\ s.view \in BOOLEAN
    BY <1>2 DEF WellFormed
  <2>3. QED
    BY <2>1, <2>2, PlainRelation, AddedRelation
<1>3. CASE s.do = "alter_table"
  <2>1. d2 = [k \in DOMAIN d |-> IF k \in family THEN Altered(d[k], s, k = t) ELSE d[k]]
    BY <1>3 DEF After
  <2>2. s.command = "add_constraint" => s.constraint.columns \subseteq DOMAIN d[t].columns
    BY <1>3 DEF Accepted
  <2>3. ASSUME NEW k \in DOMAIN d PROVE RelationShape(Altered(d[k], s, k = t))
    <3>1. RelationShape(d[k])
      BY DEF DatabaseShape
    <3>2. (k = t) \in BOOLEAN
      OBVIOUS
    <3>3. (k = t) /\ s.command = "add_constraint" => s.constraint.columns \subseteq DOMAIN d[k].columns
      BY <2>2
    <3>4. QED
      BY <1>3, <3>1, <3>2, <3>3, AlteredRelation
  <2>4. DOMAIN d2 = DOMAIN d /\ \A k \in DOMAIN d : RelationShape(d2[k])
    BY <2>1, <2>3 DEF DatabaseShape
  <2> HIDE DEF d2
  <2>5. DatabaseShape(d2)
    BY <2>4 DEF DatabaseShape
  <2>6. QED
    BY <2>5 DEF d2
<1>4. CASE s.do = "drop"
  <2>1. d2 = Without(d, family)
    BY <1>4 DEF After
  <2>2. QED
    BY <2>1, FewerRelations
<1>5. CASE s.do = "rename"
  <2>1. d2 = [k \in (DOMAIN d \ {t}) \cup {s.to} |->
                IF k = s.to THEN d[t]
                ELSE [d[k] EXCEPT !.parent = IF @ = t THEN s.to ELSE @]]
    BY <1>5 DEF After
  <2>2. t \in DOMAIN d /\ s.to \in Names
    BY <1>5 DEF Accepted, WellFormed
  <2>3. ASSUME NEW k \in DOMAIN d
        PROVE  RelationShape([d[k] EXCEPT !.parent = IF @ = t THEN s.to ELSE @])
    BY RenamedRelation DEF DatabaseShape
  <2>4. DOMAIN d2 \subseteq Names /\ \A k \in DOMAIN d2 : RelationShape(d2[k])
    BY <2>1, <2>2, <2>3 DEF DatabaseShape
  <2> HIDE DEF d2
  <2>5. DatabaseShape(d2)
    BY <2>4 DEF DatabaseShape
  <2>6. QED
    BY <2>5 DEF d2
<1>6. CASE s.do = "block" /\ s.suspect
  <2>1. d2 = IF t \in DOMAIN d THEN Without(d, family)
             ELSE Over(d, Entry(t, Relation(s.columns, Empty, Nobody, FALSE, FALSE)))
    BY <1>6 DEF After
  <2>2. t \in Names /\ FALSE \in BOOLEAN
    BY <1>6 DEF WellFormed
  <2>3. QED
    BY <2>1, <2>2, PlainRelation, AddedRelation, FewerRelations
<1>7. CASE s.do \in {"create_schema", "drop_schema", "other"} \/ (s.do = "block" /\ ~s.suspect)
  BY <1>7 DEF After
<1>8. QED
  BY <1>1, <1>2, <1>3, <1>4, <1>5, <1>6, <1>7 DEF WellFormed

LEMMA OverlookedShape ==
  ASSUME NEW e, NEW d, NEW m, NEW s, DatabaseShape(d), WellFormed(s)
  PROVE  Overlooked(d, e, s, m) \subseteq Compared \X Names
<1> DEFINE heirs == Heirs(d, s.table)
<1>1. heirs \subseteq Names
  BY DEF Heirs, DatabaseShape
<1>2. {"column", "column_type", "column_not_null", "primary_key"} \subseteq Compared
  BY DEF Compared
<1>3. s.do \in {"create_table", "create_as", "alter_table"} => s.table \in Names
  BY DEF WellFormed
<1> HIDE DEF heirs
<1>4. CASE s.do = "create_table"
  <2> DEFINE doubtful == {q \in Compared : \/ [relation |-> q, scope |-> OfTable(s.parent)] \in e.gaps
                                           \/ <<q, s.parent>> \in m}
  <2>1. Overlooked(d, e, s, m) \subseteq Compared \X {s.table}
    <3>1. CASE s.table \in DOMAIN d
      BY <1>4, <3>1 DEF Overlooked
    <3>2. CASE s.table \notin DOMAIN d
      <4>1. Overlooked(d, e, s, m) \subseteq
              {<<"column_not_null", s.table>>} \cup {<<r, s.table>> : r \in doubtful}
        BY <1>4, <3>2 DEF Overlooked
      <4>2. doubtful \subseteq Compared
        OBVIOUS
      <4> HIDE DEF doubtful
      <4>3. QED
        BY <1>2, <4>1, <4>2
    <3>3. QED
      BY <3>1, <3>2
  <2>2. QED
    BY <1>3, <1>4, <2>1
<1>5. CASE s.do = "create_as"
  BY <1>2, <1>3, <1>5 DEF Overlooked
<1>6. CASE s.do = "alter_table"
  BY <1>1, <1>2, <1>3, <1>6 DEF Overlooked, heirs
<1>7. CASE s.do = "drop"
  BY <1>1, <1>7 DEF Overlooked, heirs
<1>8. CASE s.do \notin {"create_table", "create_as", "alter_table", "drop"}
  BY <1>8 DEF Overlooked
<1>9. QED
  BY <1>4, <1>5, <1>6, <1>7, <1>8

-----------------------------------------------------------------------------
(* Every statement                                                         *)

LEMMA ApplyShape ==
  ASSUME NEW e, SchemaShape(e), NEW s, WellFormed(s)
  PROVE  SchemaShape(Apply(e, s)) /\ e.gaps \subseteq Apply(e, s).gaps
<1> DEFINE e2 == Apply(e, s)
<1>1. CASE s.do = "create_table"
  BY <1>1, CreateShape DEF Apply
<1>2. CASE s.do = "create_as"
  BY <1>2, CreateAsShape DEF Apply
<1>3. CASE s.do = "alter_table"
  BY <1>3, AlterShape DEF Apply
<1>4. CASE s.do = "drop"
  BY <1>4, DropShape DEF Apply
<1>5. CASE s.do \in {"rename", "drop_schema"} \/ (s.do = "block" /\ s.suspect)
  <2>1. e2 = [schemas |-> e.schemas, tables |-> e.tables, views |-> e.views,
              partitions |-> e.partitions, inheritance |-> e.inheritance,
              gaps |-> e.gaps \cup Gap(SqlRelations, Global)]
    BY <1>5 DEF Apply, ApplyUnknown, SchemaShape
  <2>2. QED
    BY <2>1 DEF SchemaShape
<1>6. CASE s.do = "create_schema"
  <2>1. e2 = [schemas |-> e.schemas \cup {s.schema}, tables |-> e.tables, views |-> e.views,
              partitions |-> e.partitions, inheritance |-> e.inheritance, gaps |-> e.gaps]
    BY <1>6 DEF Apply, SchemaShape
  <2>2. QED
    BY <2>1 DEF SchemaShape
<1>7. CASE s.do = "other" \/ (s.do = "block" /\ ~s.suspect)
  BY <1>7 DEF Apply
<1>8. QED
  BY <1>1, <1>2, <1>3, <1>4, <1>5, <1>6, <1>7 DEF WellFormed

LEMMA ApplyKeeps ==
  ASSUME NEW e, NEW d, NEW m, NEW s, SchemaShape(e), DatabaseShape(d), RelationsOK(e, d, m),
         WellFormed(s), Accepted(d, s), Nobody \notin Names
  PROVE  \/ Blind(Apply(e, s))
         \/ RelationsOK(Apply(e, s), After(d, s), m \cup Overlooked(d, e, s, m))
<1>1. CASE s.do = "create_table"
  BY <1>1, CreateKeeps DEF Apply
<1>2. CASE s.do = "create_as"
  BY <1>2, CreateAsKeeps DEF Apply
<1>3. CASE s.do = "alter_table"
  BY <1>3, AlterKeeps DEF Apply
<1>4. CASE s.do = "drop"
  BY <1>4, DropKeeps DEF Apply
<1>5. CASE s.do \in {"rename", "drop_schema"} \/ (s.do = "block" /\ s.suspect)
  BY <1>5 DEF Apply, ApplyUnknown, Blind, SchemaShape
<1>6. CASE s.do \in {"create_schema", "other"} \/ (s.do = "block" /\ ~s.suspect)
  <2> DEFINE e2 == Apply(e, s)
  <2>1. /\ e2.tables = e.tables /\ e2.views = e.views /\ e2.inheritance = e.inheritance
        /\ e2.gaps = e.gaps
    BY <1>6 DEF Apply, SchemaShape
  <2>2. After(d, s) = d /\ Overlooked(d, e, s, m) = {}
    BY <1>6 DEF After, Overlooked
  <2>3. \A n : ParentsKnown(e2, n) = ParentsKnown(e, n)
    BY <2>1 DEF ParentsKnown
  <2> HIDE DEF e2
  <2>4. \A n \in Names : NameOK(e2, d, m, n)
    BY <2>1, <2>3, Untouched DEF RelationsOK
  <2>5. RelationsOK(e2, After(d, s), m \cup Overlooked(d, e, s, m))
    BY <2>2, <2>4 DEF RelationsOK
  <2>6. QED
    BY <2>5 DEF e2
<1>7. QED
  BY <1>1, <1>2, <1>3, <1>4, <1>5, <1>6 DEF WellFormed

LEMMA SchemaStep ==
  ASSUME NEW e, NEW d, NEW m, NEW s, SchemaInv(e, d, m), WellFormed(s), Accepted(d, s),
         Nobody \notin Names, NEW m2,
         m2 = {x \in m \cup Overlooked(d, e, s, m) :
                 x[2] \in DOMAIN After(d, s) \cup DOMAIN Apply(e, s).tables \cup Apply(e, s).views}
  PROVE  SchemaInv(Apply(e, s), After(d, s), m2)
<1>1. SchemaShape(e) /\ DatabaseShape(d) /\ m \subseteq Compared \X Names
  BY DEF SchemaInv
<1>2. SchemaShape(Apply(e, s)) /\ DatabaseShape(After(d, s)) /\ e.gaps \subseteq Apply(e, s).gaps
  BY <1>1, ApplyShape, AfterShape
<1>3. m2 \subseteq Compared \X Names
  BY <1>1, OverlookedShape
<1>4. Blind(e) => Blind(Apply(e, s))
  BY <1>2 DEF Blind
<1>5. RelationsOK(e, d, m) => Blind(Apply(e, s)) \/ RelationsOK(Apply(e, s), After(d, s), m2)
  <2> SUFFICES ASSUME RelationsOK(e, d, m), ~Blind(Apply(e, s))
               PROVE  RelationsOK(Apply(e, s), After(d, s), m2)
    OBVIOUS
  <2>1. RelationsOK(Apply(e, s), After(d, s), m \cup Overlooked(d, e, s, m))
    BY <1>1, ApplyKeeps
  <2>2. QED
    BY <2>1, Forgetting
<1>6. QED
  BY <1>2, <1>3, <1>4, <1>5 DEF SchemaInv

-----------------------------------------------------------------------------
(* The facts                                                               *)

SqlFact(e, a) ==
  \/ \E t \in DOMAIN e.tables : a = <<"table", <<t>>>>
  \/ \E t \in DOMAIN e.tables : \E c \in DOMAIN e.tables[t].columns :
       \/ a = <<"column", <<t, c>>>>
       \/ a = <<"column_type", <<t, c, e.tables[t].columns[c].type>>>>
       \/ c \in Required(e.tables[t]) /\ a = <<"column_not_null", <<t, c>>>>
  \/ \E t \in DOMAIN e.tables : \E n \in Primaries(e.tables[t]) :
       a = <<"primary_key", <<t, e.tables[t].constraints[n].columns>>>>
  \/ \E t \in DOMAIN e.tables : \E p \in ParentsKnown(e, t) : a = <<"inherits", <<t, p>>>>
  \/ \E v \in e.views : a = <<"materialized_view", <<v>>>>

DatabaseFact(d, a) ==
  \E t \in DOMAIN d :
    \/ ~d[t].view /\ a = <<"table", <<t>>>>
    \/ d[t].view /\ a = <<"materialized_view", <<t>>>>
    \/ \E c \in DOMAIN d[t].columns :
         \/ a = <<"column", <<t, c>>>>
         \/ a = <<"column_type", <<t, c, d[t].columns[c].type>>>>
         \/ c \in NotNullIn(d[t]) /\ a = <<"column_not_null", <<t, c>>>>
    \/ \E n \in DOMAIN d[t].keys : a = <<"primary_key", <<t, d[t].keys[n]>>>>
    \/ \E p \in ParentsIn(d[t]) : a = <<"inherits", <<t, p>>>>

LEMMA DatabaseFacts ==
  ASSUME NEW d, NEW a
  PROVE  a \in DatabaseAtoms(d) <=> DatabaseFact(d, a)
<1> DEFINE Parts(t) ==
             {<<IF d[t].view THEN "materialized_view" ELSE "table", <<t>>>>}
               \cup {<<"column", <<t, c>>>> : c \in DOMAIN d[t].columns}
               \cup {<<"column_type", <<t, c, d[t].columns[c].type>>>> : c \in DOMAIN d[t].columns}
               \cup {<<"column_not_null", <<t, c>>>> :
                       c \in {k \in DOMAIN d[t].columns : d[t].columns[k].notNull}}
               \cup {<<"primary_key", <<t, d[t].keys[n]>>>> : n \in DOMAIN d[t].keys}
               \cup {<<"inherits", <<t, p>>>> :
                       p \in {q \in {d[t].parent} : q # Nobody /\ ~d[t].partition}}
<1>1. DatabaseAtoms(d) = UNION {Parts(t) : t \in DOMAIN d}
  BY DEF DatabaseAtoms
<1>2. ASSUME NEW t
      PROVE  a \in Parts(t) <=>
               \/ ~d[t].view /\ a = <<"table", <<t>>>>
               \/ d[t].view /\ a = <<"materialized_view", <<t>>>>
               \/ \E c \in DOMAIN d[t].columns :
                    \/ a = <<"column", <<t, c>>>>
                    \/ a = <<"column_type", <<t, c, d[t].columns[c].type>>>>
                    \/ c \in NotNullIn(d[t]) /\ a = <<"column_not_null", <<t, c>>>>
               \/ \E n \in DOMAIN d[t].keys : a = <<"primary_key", <<t, d[t].keys[n]>>>>
               \/ \E p \in ParentsIn(d[t]) : a = <<"inherits", <<t, p>>>>
  BY DEF NotNullIn, ParentsIn
<1> HIDE DEF Parts
<1>3. QED
  BY <1>1, <1>2 DEF DatabaseFact

LEMMA TableFacts ==
  ASSUME NEW t, NEW table, NEW a, a[1] \in Compared
  PROVE  a \in TableAtoms(t, table) <=>
           \/ a = <<"table", <<t>>>>
           \/ \E c \in DOMAIN table.columns :
                \/ a = <<"column", <<t, c>>>>
                \/ a = <<"column_type", <<t, c, table.columns[c].type>>>>
                \/ c \in Required(table) /\ a = <<"column_not_null", <<t, c>>>>
           \/ \E n \in Primaries(table) : a = <<"primary_key", <<t, table.constraints[n].columns>>>>
<1> DEFINE constraints == {ConstraintAtom(t, n, table.constraints[n]) : n \in DOMAIN table.constraints}
<1>1. a \in constraints <=>
        \E n \in Primaries(table) : a = <<"primary_key", <<t, table.constraints[n].columns>>>>
  BY DEF ConstraintAtom, Primaries, Compared
<1>2. a \in TableAtoms(t, table) <=>
        \/ a = <<"table", <<t>>>>
        \/ a \in {<<"column", <<t, c>>>> : c \in DOMAIN table.columns}
        \/ a \in {<<"column_type", <<t, c, table.columns[c].type>>>> : c \in DOMAIN table.columns}
        \/ a \in {<<"column_not_null", <<t, c>>>> : c \in Required(table)}
        \/ a \in constraints
  BY DEF TableAtoms, Required
<1>3. Required(table) \subseteq DOMAIN table.columns
  BY DEF Required
<1> HIDE DEF constraints
<1>4. QED
  BY <1>1, <1>2, <1>3

LEMMA SqlFacts ==
  ASSUME NEW e, SchemaShape(e), NEW a, a[1] \in Compared
  PROVE  a \in SqlAtoms(e) <=> SqlFact(e, a)
<1>1. a \in SqlAtoms(e) <=>
        \/ \E t \in DOMAIN e.tables : a \in TableAtoms(t, e.tables[t])
        \/ \E v \in e.views : a = <<"materialized_view", <<v>>>>
        \/ \E t \in DOMAIN e.inheritance : \E p \in e.inheritance[t] : a = <<"inherits", <<t, p>>>>
  <2> DEFINE tables == UNION {TableAtoms(t, e.tables[t]) : t \in DOMAIN e.tables}
             parents == UNION {{<<"inherits", <<t, p>>>> : p \in e.inheritance[t]} :
                                 t \in DOMAIN e.inheritance}
             schemas == {<<"schema", <<n>>>> : n \in e.schemas}
             views == {<<"materialized_view", <<v>>>> : v \in e.views}
             partitions == {<<"partition_of", <<t, e.partitions[t]>>>> : t \in DOMAIN e.partitions}
  <2>0. SqlAtoms(e) = schemas \cup tables \cup views \cup partitions \cup parents
    BY DEF SqlAtoms
  <2>1. a \notin schemas /\ a \notin partitions
    BY DEF Compared
  <2>2. a \in tables <=> \E t \in DOMAIN e.tables : a \in TableAtoms(t, e.tables[t])
    OBVIOUS
  <2>3. a \in parents <=>
          \E t \in DOMAIN e.inheritance : \E p \in e.inheritance[t] : a = <<"inherits", <<t, p>>>>
    OBVIOUS
  <2>4. a \in views <=> \E v \in e.views : a = <<"materialized_view", <<v>>>>
    OBVIOUS
  <2> HIDE DEF tables, parents, schemas, views, partitions
  <2>5. QED
    BY <2>0, <2>1, <2>2, <2>3, <2>4
<1>2. (\E t \in DOMAIN e.inheritance : \E p \in e.inheritance[t] : a = <<"inherits", <<t, p>>>>)
        <=> \E t \in DOMAIN e.tables : \E p \in ParentsKnown(e, t) : a = <<"inherits", <<t, p>>>>
  BY DEF ParentsKnown, SchemaShape
<1>3. QED
  BY <1>1, <1>2, TableFacts DEF SqlFact

LEMMA FactsOfTable ==
  ASSUME NEW e, NEW a, NEW n, n = a[2][1], n \notin e.views, n \in DOMAIN e.tables
  PROVE  SqlFact(e, a) <=>
           \/ a = <<"table", <<n>>>>
           \/ \E c \in DOMAIN e.tables[n].columns :
                \/ a = <<"column", <<n, c>>>>
                \/ a = <<"column_type", <<n, c, e.tables[n].columns[c].type>>>>
                \/ c \in Required(e.tables[n]) /\ a = <<"column_not_null", <<n, c>>>>
           \/ \E k \in Primaries(e.tables[n]) :
                a = <<"primary_key", <<n, e.tables[n].constraints[k].columns>>>>
           \/ \E p \in ParentsKnown(e, n) : a = <<"inherits", <<n, p>>>>
BY DEF SqlFact

LEMMA FactsOfRelation ==
  ASSUME NEW d, NEW a, NEW n, n = a[2][1], n \in DOMAIN d, ~d[n].view
  PROVE  DatabaseFact(d, a) <=>
           \/ a = <<"table", <<n>>>>
           \/ \E c \in DOMAIN d[n].columns :
                \/ a = <<"column", <<n, c>>>>
                \/ a = <<"column_type", <<n, c, d[n].columns[c].type>>>>
                \/ c \in NotNullIn(d[n]) /\ a = <<"column_not_null", <<n, c>>>>
           \/ \E k \in DOMAIN d[n].keys : a = <<"primary_key", <<n, d[n].keys[k]>>>>
           \/ \E p \in ParentsIn(d[n]) : a = <<"inherits", <<n, p>>>>
BY DEF DatabaseFact

LEMMA FactsAgree ==
  ASSUME NEW e, NEW d, NEW m, SchemaShape(e), DatabaseShape(d), RelationsOK(e, d, m),
         NEW a, a[1] \in Compared, NEW n, n = a[2][1], <<a[1], n>> \notin m,
         [relation |-> a[1], scope |-> IF n \in e.views THEN OfView(n) ELSE OfTable(n)] \notin e.gaps
  PROVE  SqlFact(e, a) <=> DatabaseFact(d, a)
<1>1. ~Lost(m, n)
  BY DEF Lost
<1>2. /\ SqlFact(e, a) => n \in DOMAIN e.tables \cup e.views
      /\ DatabaseFact(d, a) => n \in DOMAIN d
  BY DEF SqlFact, DatabaseFact
<1>3. CASE n \notin Names
  BY <1>2, <1>3 DEF SchemaShape, DatabaseShape
<1>4. CASE n \in Names /\ n \in e.views
  <2>1. NameOK(e, d, m, n)
    BY <1>4 DEF RelationsOK
  <2>2. n \in DOMAIN d /\ d[n].view /\ n \notin DOMAIN e.tables /\ ViewOK(e, d, m, n)
    BY <1>1, <1>4, <2>1 DEF NameOK
  <2>3. a[1] \notin {"column", "column_type"}
    BY <2>2 DEF ViewOK
  <2>4. SqlFact(e, a) <=> a = <<"materialized_view", <<n>>>>
    BY <1>4, <2>2 DEF SqlFact
  <2>5. ParentsIn(d[n]) = {}
    BY <2>2 DEF ViewOK, ParentsIn
  <2>6. DatabaseFact(d, a) <=> a = <<"materialized_view", <<n>>>>
    BY <2>2, <2>3, <2>5 DEF DatabaseFact, ViewOK
  <2>7. QED
    BY <2>4, <2>6
<1>5. CASE n \in Names /\ n \notin e.views
  <2>1. NameOK(e, d, m, n)
    BY <1>5 DEF RelationsOK
  <2>2. ~Off(e, m, a[1], n)
    BY <1>5 DEF Off
  <2>3. CASE n \notin DOMAIN d
    BY <1>1, <1>2, <1>5, <2>1, <2>3 DEF NameOK
  <2>4. CASE n \in DOMAIN d
    <3>1. ~d[n].view /\ TableOK(e, d, m, n)
      BY <1>1, <1>5, <2>1, <2>4 DEF NameOK, ViewOK
    <3>2. ~Dark(e, m, n)
      BY <1>1, <2>2, ComparedAreSql DEF Dark, Off, Gap
    <3> DEFINE table == e.tables[n]
               relation == d[n]
    <3>3. n \in DOMAIN e.tables /\ Agree(e, d, m, n)
      BY <3>1, <3>2 DEF TableOK
    <3>4. SqlFact(e, a) <=>
            \/ a = <<"table", <<n>>>>
            \/ \E c \in DOMAIN table.columns :
                 \/ a = <<"column", <<n, c>>>>
                 \/ a = <<"column_type", <<n, c, table.columns[c].type>>>>
                 \/ c \in Required(table) /\ a = <<"column_not_null", <<n, c>>>>
            \/ \E k \in Primaries(table) : a = <<"primary_key", <<n, table.constraints[k].columns>>>>
            \/ \E p \in ParentsKnown(e, n) : a = <<"inherits", <<n, p>>>>
      <4>1. n \in DOMAIN e.tables /\ n \notin e.views
        BY <1>5, <3>3
      <4>2. QED
        BY <4>1, FactsOfTable, SMTT(30)
    <3>5. DatabaseFact(d, a) <=>
            \/ a = <<"table", <<n>>>>
            \/ \E c \in DOMAIN relation.columns :
                 \/ a = <<"column", <<n, c>>>>
                 \/ a = <<"column_type", <<n, c, relation.columns[c].type>>>>
                 \/ c \in NotNullIn(relation) /\ a = <<"column_not_null", <<n, c>>>>
            \/ \E k \in DOMAIN relation.keys : a = <<"primary_key", <<n, relation.keys[k]>>>>
            \/ \E p \in ParentsIn(relation) : a = <<"inherits", <<n, p>>>>
      BY <2>4, <3>1, FactsOfRelation
    <3> HIDE DEF table, relation
    <3>6. CASE a[1] = "primary_key"
      <4>1. SameKeys(table, relation)
        BY <2>2, <3>3, <3>6 DEF Agree, table, relation
      <4>2. QED
        BY <3>4, <3>5, <3>6, <4>1 DEF SameKeys
    <3>7. CASE a[1] = "column_type"
      <4>1. SameTypes(table, relation)
        BY <2>2, <3>3, <3>7 DEF Agree, table, relation
      <4>2. QED
        BY <3>4, <3>5, <3>7, <4>1 DEF SameTypes
    <3>8. CASE a[1] = "column_not_null"
      <4>1. /\ Required(table) = NotNullIn(relation)
            /\ Required(table) \subseteq DOMAIN table.columns
            /\ NotNullIn(relation) \subseteq DOMAIN relation.columns
        BY <2>2, <3>3, <3>8 DEF Agree, Required, NotNullIn, table, relation
      <4>2. QED
        BY <3>4, <3>5, <3>8, <4>1
    <3>9. CASE a[1] = "column"
      <4>1. DOMAIN table.columns = DOMAIN relation.columns
        BY <2>2, <3>3, <3>9 DEF Agree, table, relation
      <4>2. /\ SqlFact(e, a) <=> \E c \in DOMAIN table.columns : a = <<"column", <<n, c>>>>
            /\ DatabaseFact(d, a) <=> \E c \in DOMAIN relation.columns : a = <<"column", <<n, c>>>>
        BY <3>4, <3>5, <3>9
      <4>3. QED
        BY <4>1, <4>2
    <3>10. CASE a[1] \in {"table", "inherits", "materialized_view"}
      <4>1. ParentsKnown(e, n) = ParentsIn(relation)
        BY <3>3 DEF Agree, relation
      <4>2. /\ SqlFact(e, a) <=> \/ a = <<"table", <<n>>>>
                                 \/ \E p \in ParentsKnown(e, n) : a = <<"inherits", <<n, p>>>>
            /\ DatabaseFact(d, a) <=> \/ a = <<"table", <<n>>>>
                                      \/ \E p \in ParentsIn(relation) : a = <<"inherits", <<n, p>>>>
        BY <3>4, <3>5, <3>10
      <4>3. QED
        BY <4>1, <4>2
    <3>11. QED
      BY <3>6, <3>7, <3>8, <3>9, <3>10 DEF Compared
  <2>5. QED
    BY <2>3, <2>4
<1>6. QED
  BY <1>3, <1>4, <1>5

\* In a partial region too, what is said is there.
LEMMA FactsWithin ==
  ASSUME NEW e, NEW d, NEW m, SchemaShape(e), RelationsOK(e, d, m),
         NEW a, a[1] \in Compared, NEW n, n = a[2][1], <<a[1], n>> \notin m, SqlFact(e, a)
  PROVE  DatabaseFact(d, a)
<1>1. ~Lost(m, n)
  BY DEF Lost
<1>2. n \in DOMAIN e.tables \cup e.views /\ n \in Names
  BY DEF SqlFact, SchemaShape
<1>3. NameOK(e, d, m, n)
  BY <1>2 DEF RelationsOK
<1>4. CASE n \in e.views
  <2>1. n \in DOMAIN d /\ d[n].view /\ n \notin DOMAIN e.tables
    BY <1>1, <1>3, <1>4 DEF NameOK
  <2>2. a = <<"materialized_view", <<n>>>>
    BY <2>1 DEF SqlFact
  <2>3. QED
    BY <2>1, <2>2 DEF DatabaseFact
<1>5. CASE n \notin e.views
  <2> DEFINE table == e.tables[n]
             relation == d[n]
  <2>1. n \in DOMAIN d /\ ~d[n].view /\ Within(e, d, m, n)
    BY <1>1, <1>2, <1>3, <1>5 DEF NameOK, TableOK
  <2>2. \/ a = <<"table", <<n>>>>
        \/ \E c \in DOMAIN table.columns :
             \/ a = <<"column", <<n, c>>>>
             \/ a = <<"column_type", <<n, c, table.columns[c].type>>>>
             \/ c \in Required(table) /\ a = <<"column_not_null", <<n, c>>>>
        \/ \E k \in Primaries(table) : a = <<"primary_key", <<n, table.constraints[k].columns>>>>
        \/ \E p \in ParentsKnown(e, n) : a = <<"inherits", <<n, p>>>>
    <3>1. n \in DOMAIN e.tables
      BY <1>2, <1>5
    <3>2. QED
      BY <1>5, <3>1, FactsOfTable
  <2>3. DatabaseFact(d, a) <=>
          \/ a = <<"table", <<n>>>>
          \/ \E c \in DOMAIN relation.columns :
               \/ a = <<"column", <<n, c>>>>
               \/ a = <<"column_type", <<n, c, relation.columns[c].type>>>>
               \/ c \in NotNullIn(relation) /\ a = <<"column_not_null", <<n, c>>>>
          \/ \E k \in DOMAIN relation.keys : a = <<"primary_key", <<n, relation.keys[k]>>>>
          \/ \E p \in ParentsIn(relation) : a = <<"inherits", <<n, p>>>>
    BY <2>1, FactsOfRelation
  <2>4. /\ ParentsKnown(e, n) \subseteq ParentsIn(relation)
        /\ <<"primary_key", n>> \notin m => KeysWithin(table, relation)
        /\ <<"column", n>> \notin m => DOMAIN table.columns \subseteq DOMAIN relation.columns
        /\ <<"column_type", n>> \notin m => TypesWithin(table, relation)
        /\ <<"column_not_null", n>> \notin m => Required(table) \subseteq NotNullIn(relation)
    BY <2>1 DEF Within
  <2>5. NotNullIn(relation) \subseteq DOMAIN relation.columns
    BY DEF NotNullIn
  <2> HIDE DEF table, relation
  <2>6. CASE a[1] = "primary_key"
    BY <2>2, <2>3, <2>4, <2>6 DEF KeysWithin
  <2>7. CASE a[1] = "column_type"
    BY <2>2, <2>3, <2>4, <2>7 DEF TypesWithin
  <2>8. CASE a[1] = "column_not_null"
    <3>1. PICK c \in Required(table) : a = <<"column_not_null", <<n, c>>>>
      BY <2>2, <2>8
    <3>2. c \in NotNullIn(relation) /\ c \in DOMAIN relation.columns
      BY <2>4, <2>5, <2>8, <3>1
    <3>3. QED
      BY <2>3, <3>1, <3>2
  <2>9. CASE a[1] = "column"
    <3>1. PICK c \in DOMAIN table.columns : a = <<"column", <<n, c>>>>
      BY <2>2, <2>9
    <3>2. QED
      BY <2>3, <2>4, <2>9, <3>1
  <2>10. CASE a[1] \in {"table", "inherits", "materialized_view"}
    <3>1. a = <<"table", <<n>>>> \/ \E p \in ParentsKnown(e, n) : a = <<"inherits", <<n, p>>>>
      BY <2>2, <2>10
    <3>2. QED
      BY <2>3, <2>4, <3>1
  <2>11. QED
    BY <2>6, <2>7, <2>8, <2>9, <2>10 DEF Compared
<1>6. QED
  BY <1>4, <1>5

-----------------------------------------------------------------------------
(* The invariant                                                           *)

ProjectInv ==
  /\ DOMAIN adrs \subseteq Decisions
  /\ \A a \in DOMAIN adrs :
       adrs[a].status \in {"proposed", "accepted"} /\ adrs[a].supersedes \subseteq Decisions
  /\ manifests \in [Packages -> SUBSET Declarations]
  /\ SchemaInv(extraction, database, missed)

LEMMA ProjectInvInit == ObligationInit => ProjectInv
<1> SUFFICES ASSUME ObligationInit PROVE ProjectInv
  OBVIOUS
<1>1. DOMAIN extraction.tables = {} /\ DOMAIN database = {} /\ missed = {}
  BY DEF ObligationInit, EmptySchema, EmptyDatabase, Empty
<1>2. SchemaShape(extraction)
  BY DEF ObligationInit, SchemaShape, EmptySchema, Empty
<1>3. DatabaseShape(database)
  BY <1>1 DEF DatabaseShape
<1>4. extraction.views = {}
  BY DEF ObligationInit, EmptySchema
<1>5. RelationsOK(extraction, database, missed)
  BY <1>1, <1>4 DEF RelationsOK, NameOK
<1>6. SchemaInv(extraction, database, missed)
  BY <1>1, <1>2, <1>3, <1>5 DEF SchemaInv
<1>7. QED
  BY <1>6, ObligationAssumption DEF ObligationInit, ProjectInv

LEMMA ProjectInvNext == ProjectInv /\ [ObligationNext]_modelVars => ProjectInv'
<1> SUFFICES ASSUME ProjectInv, [ObligationNext]_modelVars PROVE ProjectInv'
  OBVIOUS
<1>1. ASSUME UNCHANGED <<adrs, manifests, extraction, database, missed>> PROVE ProjectInv'
  BY <1>1 DEF ProjectInv
<1>2. CASE UNCHANGED modelVars
  BY <1>1, <1>2 DEF modelVars
<1>3. CASE Check
  BY <1>1, <1>3 DEF Check, ProjectFiles, MigrationState
<1>4. ASSUME NEW s \in Statements, Migrate(s) PROVE ProjectInv'
  <2>1. WellFormed(s) /\ Nobody \notin Names
    BY ObligationAssumption DEF Names
  <2>2. SchemaInv(extraction, database, missed)
    BY DEF ProjectInv
  <2>3. /\ Accepted(database, s)
        /\ extraction' = Apply(extraction, s) /\ database' = After(database, s)
        /\ missed' = {m \in missed \cup Overlooked(database, extraction, s, missed) :
                        m[2] \in DOMAIN After(database, s) \cup DOMAIN Apply(extraction, s).tables
                                   \cup Apply(extraction, s).views}
        /\ adrs' = adrs /\ manifests' = manifests
    BY <1>4 DEF Migrate, ProjectFiles
  <2> DEFINE e2 == Apply(extraction, s)
             d2 == After(database, s)
             m2 == {m \in missed \cup Overlooked(database, extraction, s, missed) :
                        m[2] \in DOMAIN After(database, s) \cup DOMAIN Apply(extraction, s).tables
                                   \cup Apply(extraction, s).views}
  <2>4. SchemaInv(e2, d2, m2)
    BY <2>1, <2>2, <2>3, SchemaStep
  <2>5. extraction' = e2 /\ database' = d2 /\ missed' = m2
    BY <2>3
  <2> HIDE DEF e2, d2, m2
  <2>6. SchemaInv(extraction, database, missed)'
    BY <2>4, <2>5
  <2>7. QED
    BY <2>3, <2>6 DEF ProjectInv
<1>5. ASSUME EditFiles,
             \/ /\ manifests' = manifests
                /\ DOMAIN adrs' \subseteq Decisions
                /\ \A a \in DOMAIN adrs' : /\ adrs'[a].status \in {"proposed", "accepted"}
                                           /\ adrs'[a].supersedes \subseteq Decisions
             \/ adrs' = adrs /\ manifests' \in [Packages -> SUBSET Declarations]
      PROVE  ProjectInv'
  <2>1. extraction' = extraction /\ database' = database /\ missed' = missed
    BY <1>5 DEF EditFiles, MigrationState
  <2>2. SchemaInv(extraction, database, missed)'
    BY <2>1 DEF ProjectInv
  <2>3. QED
    BY <1>5, <2>2 DEF ProjectInv
<1>6. ASSUME NEW a \in DOMAIN adrs, NEW status \in {"proposed", "accepted"}, SetStatus(a, status)
      PROVE  ProjectInv'
  <2>1. adrs' = [adrs EXCEPT ![a].status = status] /\ manifests' = manifests /\ EditFiles
    BY <1>6 DEF SetStatus
  <2>2. DOMAIN adrs' = DOMAIN adrs
    BY <2>1
  <2>3. \A b \in DOMAIN adrs : /\ adrs'[b].status \in {"proposed", "accepted"}
                               /\ adrs'[b].supersedes = adrs[b].supersedes
    <3>1. adrs'[a] = [adrs[a] EXCEPT !.status = status]
      BY <2>1
    <3>2. QED
      BY <2>1, <3>1 DEF ProjectInv
  <2>4. QED
    BY <1>5, <2>1, <2>2, <2>3 DEF ProjectInv
<1>7. ASSUME NEW a \in DOMAIN adrs, RemoveAdr(a) PROVE ProjectInv'
  <2>1. adrs' = Without(adrs, {a}) /\ manifests' = manifests /\ EditFiles
    BY <1>7 DEF RemoveAdr
  <2>2. DOMAIN adrs' \subseteq DOMAIN adrs /\ \A b \in DOMAIN adrs' : adrs'[b] = adrs[b]
    BY <2>1 DEF Without
  <2>3. QED
    BY <1>5, <2>1, <2>2 DEF ProjectInv
<1>8. ASSUME NEW pair \in Supersessions, pair[1] \in DOMAIN adrs, Supersede(pair[1], pair[2])
      PROVE  ProjectInv'
  <2>1. /\ adrs' = [adrs EXCEPT ![pair[1]].supersedes = @ \cup {pair[2]}]
        /\ manifests' = manifests /\ EditFiles
    BY <1>8 DEF Supersede
  <2>2. pair[2] \in Decisions
    BY ObligationAssumption
  <2>3. \A b \in DOMAIN adrs : /\ adrs'[b].status = adrs[b].status
                               /\ adrs'[b].supersedes \subseteq adrs[b].supersedes \cup {pair[2]}
    <3>1. adrs'[pair[1]] = [adrs[pair[1]] EXCEPT !.supersedes = @ \cup {pair[2]}]
      BY <1>8, <2>1
    <3>2. QED
      BY <2>1, <3>1
  <2>4. DOMAIN adrs' = DOMAIN adrs
    BY <2>1
  <2>5. QED
    BY <1>5, <2>1, <2>2, <2>3, <2>4 DEF ProjectInv
<1>9. ASSUME NEW p \in Packages, NEW d \in Declarations, Declare(p, d) PROVE ProjectInv'
  <2>1. /\ manifests' = [manifests EXCEPT ![p] = IF d \in @ THEN @ \ {d} ELSE @ \cup {d}]
        /\ adrs' = adrs /\ EditFiles
    BY <1>9 DEF Declare
  <2>2. manifests' \in [Packages -> SUBSET Declarations]
    BY <2>1 DEF ProjectInv
  <2>3. QED
    BY <1>5, <2>1, <2>2
<1>10. QED
  BY <1>2, <1>3, <1>4, <1>6, <1>7, <1>8, <1>9 DEF ObligationNext

THEOREM ProjectInvariant == ObligationSpec => []ProjectInv
BY ProjectInvInit, ProjectInvNext, PTL DEF ObligationSpec

\* A region is closed only if no gap covers it.
LEMMA NoGapWhereClosed ==
  ASSUME NEW r, NEW scope, IsClosed(r, scope)
  PROVE  /\ [relation |-> r, scope |-> scope] \notin extraction.gaps
         /\ [relation |-> r, scope |-> Global] \notin extraction.gaps
<1>1. \A c \in Coverage : c.relation = r /\ Covers(c.scope, scope) => c.closed
  BY DEF IsClosed
<1>2. ASSUME NEW region, [relation |-> r, scope |-> region] \in extraction.gaps,
             Covers(region, scope)
      PROVE  FALSE
  <2> DEFINE gap == [relation |-> r, scope |-> region]
             claim == [relation |-> gap.relation, closed |-> FALSE, scope |-> gap.scope]
  <2>1. claim \in Coverage
    BY <1>2 DEF Coverage, SqlCoverage
  <2>2. claim.relation = r /\ claim.scope = region /\ claim.closed = FALSE
    OBVIOUS
  <2> HIDE DEF claim
  <2>3. QED
    BY <1>1, <1>2, <2>1, <2>2
<1>3. Covers(scope, scope) /\ Covers(Global, scope)
  BY DEF Covers, Global
<1>4. QED
  BY <1>2, <1>3

LEMMA ClosedIsRight == ProjectInv => ClosedCoverageIsRight
<1> SUFFICES ASSUME ProjectInv,
                    NEW a \in SqlAtoms(extraction) \cup DatabaseAtoms(database),
                    a[1] \in Compared, <<a[1], a[2][1]>> \notin missed,
                    IsClosed(a[1], IF a[2][1] \in extraction.views
                                   THEN OfView(a[2][1]) ELSE OfTable(a[2][1]))
             PROVE  a \in SqlAtoms(extraction) <=> a \in DatabaseAtoms(database)
  BY DEF ClosedCoverageIsRight
<1> DEFINE n == a[2][1]
           region == IF n \in extraction.views THEN OfView(n) ELSE OfTable(n)
<1>1. /\ [relation |-> a[1], scope |-> region] \notin extraction.gaps
      /\ [relation |-> a[1], scope |-> Global] \notin extraction.gaps
  BY NoGapWhereClosed
<1>2. ~Blind(extraction)
  BY <1>1, ComparedAreSql DEF Blind, Gap
<1>3. /\ SchemaShape(extraction) /\ DatabaseShape(database)
      /\ RelationsOK(extraction, database, missed)
  BY <1>2 DEF ProjectInv, SchemaInv
<1>4. SqlFact(extraction, a) <=> DatabaseFact(database, a)
  BY <1>1, <1>3, FactsAgree
<1>5. QED
  BY <1>3, <1>4, SqlFacts, DatabaseFacts

\* As long as nothing has made the whole schema unknown, what is said of a table
\* or a view is there, in a partial region too, unless it is missed.
ObservedIsThere ==
  Gap({"table"}, Global) \cap extraction.gaps = {} =>
    \A a \in SqlAtoms(extraction) :
      a[1] \in Compared /\ <<a[1], a[2][1]>> \notin missed => a \in DatabaseAtoms(database)

LEMMA Seen ==
  Gap({"table"}, Global) \cap extraction.gaps = {} =>
    ~Blind(extraction)
BY DEF Blind, Gap, SqlRelations

LEMMA SaidIsThere == ProjectInv => ObservedIsThere
<1> SUFFICES ASSUME ProjectInv, Gap({"table"}, Global) \cap extraction.gaps = {},
                    NEW a \in SqlAtoms(extraction), a[1] \in Compared,
                    <<a[1], a[2][1]>> \notin missed
             PROVE  a \in DatabaseAtoms(database)
  BY DEF ObservedIsThere
<1>1. SchemaShape(extraction) /\ RelationsOK(extraction, database, missed)
  BY Seen DEF ProjectInv, SchemaInv
<1>2. SqlFact(extraction, a)
  BY <1>1, SqlFacts
<1>3. QED
  BY <1>1, <1>2, FactsWithin, DatabaseFacts

LEMMA ObligationTyped == ProjectInv => ObligationTypeOK
<1> SUFFICES ASSUME ProjectInv PROVE ObligationTypeOK
  OBVIOUS
<1>1. SchemaShape(extraction) /\ missed \subseteq Compared \X Names
  BY DEF ProjectInv, SchemaInv
<1>2. ASSUME NEW n \in extraction.views \cap DOMAIN extraction.tables
      PROVE  <<"table", n>> \in missed \/ Gap({"table"}, Global) \subseteq extraction.gaps
  <2>1. CASE Blind(extraction)
    BY <2>1 DEF Blind, Gap, SqlRelations
  <2>2. CASE RelationsOK(extraction, database, missed)
    <3>1. n \in Names
      BY <1>1 DEF SchemaShape
    <3>2. Lost(missed, n)
      BY <2>2, <3>1 DEF RelationsOK, NameOK
    <3>3. QED
      BY <3>2 DEF Lost, Compared
  <2>3. QED
    BY <2>1, <2>2 DEF ProjectInv, SchemaInv
<1>3. DOMAIN extraction.partitions \cup DOMAIN extraction.inheritance \subseteq DOMAIN extraction.tables
  BY <1>1 DEF SchemaShape
<1>4. \A p \in Packages : manifests[p] \subseteq Declarations
  BY DEF ProjectInv
<1>5. QED
  BY <1>1, <1>2, <1>3, <1>4 DEF ObligationTypeOK, ProjectInv, Names

\* Every state is one that files and statements can be in (ObligationTypeOK).
THEOREM ObligationTypeCorrect == ObligationSpec => []ObligationTypeOK
BY ProjectInvariant, ObligationTyped, PTL

\* Whatever migrations were run, in whatever order, what the extractor says in a
\* region that it calls closed is what the database has (sql_migrations.rs
\* extract, apply_file, emit_facts).
THEOREM CoverageIsRight == ObligationSpec => []ClosedCoverageIsRight
BY ProjectInvariant, ClosedIsRight, PTL

\* What the extractor says of a table the database has, whatever gaps its
\* coverage has, unless a rename, an unknown block or an unknown drop has made
\* the whole schema partial or the statement is among those that it overlooks:
\* a gap takes back nothing that the facts say (sql_migrations.rs apply_file,
\* emit_facts).
THEOREM WhatIsSaidIsThere == ObligationSpec => []ObservedIsThere
BY ProjectInvariant, SaidIsThere, PTL

-----------------------------------------------------------------------------
(* Supersession: of the ADRs that come after a, one whose heirs are fewest  *)
(* is in force, or among its own heirs.                                     *)

LEMMA HeirOfOne ==
  ASSUME NEW a, NEW b \in Above({a})
  PROVE  b \in Heir(a)
<1>1. b \in Accepting
  BY DEF Above
<1>2. ASSUME NEW some \in SUBSET Accepting, Above({a} \cup some) \subseteq some PROVE b \in some
  BY <1>2 DEF Above
<1>3. QED
  BY <1>1, <1>2 DEF Heir

LEMMA HeirOfHeir ==
  ASSUME NEW a, NEW b \in Heir(a)
  PROVE  Heir(b) \subseteq Heir(a)
<1> SUFFICES ASSUME NEW c \in Heir(b), NEW some \in SUBSET Accepting,
                    Above({a} \cup some) \subseteq some
             PROVE  c \in some
  BY DEF Heir
<1>1. b \in some
  BY DEF Heir
<1>2. Above({b} \cup some) \subseteq some
  BY <1>1 DEF Above
<1>3. QED
  BY <1>2 DEF Heir

LEMMA FewestHeirs ==
  ASSUME IsFiniteSet(Accepting), NEW some \in SUBSET Accepting, some # {}
  PROVE  \E b \in some : \A c \in some : ~(Heir(c) \subseteq Heir(b) /\ Heir(c) # Heir(b))
<1> DEFINE R == StrictSubsetOrdering(Accepting)
           T == {Heir(b) : b \in some}
<1>1. IsWellFoundedOn(R, SUBSET Accepting)
  BY FS_StrictSubsetOrderingWellFounded, FS_FiniteSubsetsOfFinite
<1>2. T \subseteq SUBSET Accepting /\ T # {}
  <2>1. \A b : Heir(b) \subseteq Accepting
    BY DEF Heir
  <2>2. QED
    BY <2>1
<1> HIDE DEF R, T
<1>3. PICK least \in T : \A x \in T : <<x, least>> \notin R
  BY <1>1, <1>2, WFMin
<1>4. PICK b \in some : least = Heir(b)
  BY DEF T
<1>5. ASSUME NEW c \in some, Heir(c) \subseteq Heir(b), Heir(c) # Heir(b) PROVE FALSE
  <2>1. Heir(c) \in T
    BY DEF T
  <2>2. <<Heir(c), least>> \in R
    BY <1>2, <1>4, <1>5, <2>1 DEF R, StrictSubsetOrdering
  <2>3. QED
    BY <1>3, <2>1, <2>2
<1>6. QED
  BY <1>5

LEMMA IntentIsKept == ProjectInv => NoIntentIsLost
<1> SUFFICES ASSUME ProjectInv, NEW a \in Accepting \ ActiveDecisions,
                    Heir(a) \cap ActiveDecisions = {}
             PROVE  \E b \in {a} \cup Heir(a) : b \in Heir(b)
  BY DEF NoIntentIsLost
<1>1. IsFiniteSet(Accepting)
  <2>1. Accepting \subseteq Decisions /\ IsFiniteSet(Decisions)
    BY ObligationAssumption DEF Accepting, ProjectInv
  <2>2. QED
    BY <2>1, FS_Subset
<1> DEFINE after == {a} \cup Heir(a)
<1>2. after \in SUBSET Accepting /\ after # {}
  BY DEF Heir
<1>3. PICK b \in after : \A c \in after : ~(Heir(c) \subseteq Heir(b) /\ Heir(c) # Heir(b))
  <2> HIDE DEF after
  <2>1. QED
    BY <1>1, <1>2, FewestHeirs
<1>4. b \in Accepting \ ActiveDecisions
  BY <1>2
\* it is superseded, and by an heir of a
<1>5. PICK c \in Accepting : b \in adrs[c].supersedes
  BY <1>4 DEF ActiveDecisions, Superseded, Accepting
<1>6. c \in Heir(b)
  BY <1>5, HeirOfOne DEF Above
<1>7. c \in after /\ Heir(c) \subseteq Heir(b)
  BY <1>6, HeirOfHeir
<1>8. Heir(c) = Heir(b)
  BY <1>3, <1>7
<1>9. QED
  BY <1>6, <1>7, <1>8

\* Whatever is edited, an accepted ADR that is out of force has one in its place,
\* or supersedes itself in a cycle (lib.rs effective).
THEOREM IntentSurvives == ObligationSpec => []NoIntentIsLost
BY ProjectInvariant, IntentIsKept, PTL

-----------------------------------------------------------------------------
(* The verdict: a function of the text and, where the constraints have      *)
(* relations of the schema, of the migrations.                              *)

AtomsFrom(x) == UNION {AtomsIn[f] : f \in x.constraints}
NamesFrom(x) == {a.name : a \in AtomsFrom(x)}
RelevantFrom(x, atoms) == {a \in atoms : \E w \in AtomsFrom(x) : Matches(w, a[1], a[2])}

RejectedFrom(x) ==
  \/ \E t \in DOMAIN x.entities : x.entities[t] = {}
  \/ \E r \in DOMAIN x.relations : \E i \in DOMAIN x.relations[r] :
       x.relations[r][i] \notin DOMAIN x.entities
  \/ \E r \in NamesFrom(x) : r \notin DOMAIN x.relations \/ x.relations[r] = <<>>
  \/ \E a \in x.asserted \cup x.denied : ~WellSorted(a[2], x.relations[a[1]], x.entities)

GroundFrom(x) ==
  LET AllOf(r) == {<<r, t>> : t \in {u \in [DOMAIN x.relations[r] -> UNION {x.entities[k] : k \in DOMAIN x.entities}] :
                                       WellSorted(u, x.relations[r], x.entities)}}
  IN  RelevantFrom(x, UNION {AllOf(r) : r \in NamesFrom(x) \cap DOMAIN x.relations})

OpenFrom(x) ==
  ({<<n, <<>>>> : n \in x.propositions} \cup GroundFrom(x)) \ (x.asserted \cup x.denied)

SatisfiableFrom(x) ==
  \E choice \in SUBSET OpenFrom(x) :
    \A f \in x.constraints : HoldsIn(f, x.entities, x.asserted \cup choice)

PackageAtoms == UNION {{<<"package", <<p>>>>, <<"workspace_member", <<p>>>>} : p \in Packages}

ClosedIn(e, r, scope) ==
  LET matching == {c \in SqlCoverage(e) \cup CargoCoverage : c.relation = r /\ Covers(c.scope, scope)}
  IN  matching # {} /\ \A c \in matching : c.closed

UncoveredFrom(x, e) ==
  \E a \in AtomsFrom(x) :
    /\ a.name # Depends
    /\ <<a.name, a.arguments>> \notin SqlAtoms(e) \cup PackageAtoms
    /\ ~ClosedIn(e, a.name, ScopeOf(a.name, a.arguments, DOMAIN a.env))

VerdictFrom(x, e) ==
  IF RejectedFrom(x) THEN "ERROR"
  ELSE IF UncoveredFrom(x, e) THEN "UNVERIFIED"
  ELSE IF SatisfiableFrom(x) THEN "PASS" ELSE "FAIL"

\* No gap is in a relation of Cargo.
SqlGaps(e) == \A g \in e.gaps : g.relation \in SqlRelations

LEMMA GapRelations ==
  ASSUME NEW some \in SUBSET SqlRelations, NEW scope
  PROVE  \A g \in Gap(some, scope) : g.relation \in SqlRelations
BY DEF Gap

LEMMA ApplyGaps ==
  ASSUME NEW e, SchemaShape(e), SqlGaps(e), NEW s, WellFormed(s)
  PROVE  SqlGaps(Apply(e, s))
<1> DEFINE t == s.table
           e2 == Apply(e, s)
<1>1. CASE s.do = "create_table"
  <2> DEFINE gaps ==
               CASE s.parent = Nobody -> {}
                 [] s.parent \notin DOMAIN e.tables ->
                      Gap({"column", "column_type", "column_not_null", "check_constraint"}, OfTable(t))
                 [] s.partition ->
                      Gap({"primary_key", "unique_constraint", "foreign_key"}, OfTable(t))
                 [] OTHER -> {}
             typed == IF s.typed THEN Gap({"column", "column_type", "column_not_null"}, OfTable(t))
                      ELSE {}
             like == IF s.like = Nobody THEN {}
                     ELSE Gap({"column", "column_type", "column_not_null", "check_constraint",
                               "primary_key", "unique_constraint"}, OfTable(t))
  <2>1. \/ e2 = e
        \/ e2.gaps = e.gaps \cup gaps \cup (typed \cup like)
    BY <1>1 DEF Apply, ApplyCreate
  <2>2. \A g \in gaps : g.relation \in SqlRelations
    BY GapRelations DEF SqlRelations
  <2>3. \A g \in typed \cup like : g.relation \in SqlRelations
    BY GapRelations DEF SqlRelations
  <2> HIDE DEF gaps, typed, like
  <2>4. QED
    BY <2>1, <2>2, <2>3 DEF SqlGaps
<1>2. CASE s.do = "create_as"
  <2>1. \/ e2.gaps = e.gaps \cup Gap({"column", "column_type"}, OfView(t))
        \/ e2.gaps = e.gaps \cup Gap({"column", "column_type"}, OfTable(t))
    BY <1>2 DEF Apply, ApplyCreateAs, SchemaShape
  <2>2. {"column", "column_type"} \in SUBSET SqlRelations
    BY DEF SqlRelations
  <2>3. QED
    BY <2>1, <2>2, GapRelations DEF SqlGaps
<1>3. CASE s.do = "alter_table"
  <2>1. \/ e2.gaps = e.gaps
        \/ e2.gaps = e.gaps \cup Gap(SqlRelations, OfTable(t))
    BY <1>3 DEF Apply, ApplyAlter, SchemaShape
  <2>2. QED
    BY <2>1, GapRelations DEF SqlGaps
<1>4. CASE s.do = "drop"
  <2>1. e2.gaps = e.gaps
    BY <1>4 DEF Apply, ApplyDrop, SchemaShape
  <2>2. QED
    BY <2>1 DEF SqlGaps
<1>5. CASE s.do \in {"rename", "drop_schema", "block", "create_schema", "other"}
  <2>1. \/ e2.gaps = e.gaps
        \/ e2.gaps = e.gaps \cup Gap(SqlRelations, Global)
    BY <1>5 DEF Apply, ApplyUnknown, SchemaShape
  <2>2. QED
    BY <2>1, GapRelations DEF SqlGaps
<1>6. QED
  BY <1>1, <1>2, <1>3, <1>4, <1>5 DEF WellFormed

\* Outside the relations of the schema the migrations do not matter.
LEMMA SqlAtomsAreSql ==
  ASSUME NEW e, NEW a \in SqlAtoms(e)
  PROVE  a[1] \in SqlRelations
<1> DEFINE tables == UNION {TableAtoms(t, e.tables[t]) : t \in DOMAIN e.tables}
           parents == UNION {{<<"inherits", <<t, p>>>> : p \in e.inheritance[t]} :
                               t \in DOMAIN e.inheritance}
           schemas == {<<"schema", <<n>>>> : n \in e.schemas}
           views == {<<"materialized_view", <<v>>>> : v \in e.views}
           partitions == {<<"partition_of", <<t, e.partitions[t]>>>> : t \in DOMAIN e.partitions}
<1>1. a \in schemas \cup tables \cup views \cup partitions \cup parents
  BY DEF SqlAtoms
<1>2. (a \in schemas \/ a \in views \/ a \in partitions) => a[1] \in SqlRelations
  BY DEF SqlRelations
<1>3. a \in parents => a[1] \in SqlRelations
  BY DEF SqlRelations
<1>4. ASSUME NEW t, a \in TableAtoms(t, e.tables[t]) PROVE a[1] \in SqlRelations
  <2> DEFINE table == e.tables[t]
             constraints == {ConstraintAtom(t, n, table.constraints[n]) : n \in DOMAIN table.constraints}
  <2>1. a \in constraints => a[1] \in SqlRelations
    BY DEF ConstraintAtom, SqlRelations
  <2>2. a \notin constraints => a[1] \in {"table", "column", "column_type", "column_not_null"}
    BY <1>4 DEF TableAtoms
  <2>3. QED
    BY <2>1, <2>2 DEF SqlRelations
<1>5. a \in tables => a[1] \in SqlRelations
  BY <1>4
<1> HIDE DEF tables, parents, schemas, views, partitions
<1>6. QED
  BY <1>1, <1>2, <1>3, <1>5

LEMMA ClosedBeyondSql ==
  ASSUME NEW e, SqlGaps(e), NEW r, r \notin SqlRelations, NEW scope
  PROVE  ClosedIn(e, r, scope) <=> r = Depends
<1>1. \A c \in SqlCoverage(e) : c.relation \in SqlRelations
  BY DEF SqlCoverage, SqlGaps
<1>2. CargoCoverage = {[relation |-> Depends, closed |-> TRUE, scope |-> Global]}
  BY DEF CargoCoverage
<1>3. Covers(Global, scope)
  BY DEF Covers, Global
<1>4. \A c \in SqlCoverage(e) \cup CargoCoverage : c.relation = r => c \in CargoCoverage
  BY <1>1
<1> DEFINE matching == {c \in SqlCoverage(e) \cup CargoCoverage : c.relation = r /\ Covers(c.scope, scope)}
<1>5. CASE r = Depends
  <2> DEFINE claim == [relation |-> Depends, closed |-> TRUE, scope |-> Global]
  <2>1. claim.relation = Depends /\ claim.closed = TRUE /\ claim.scope = Global
    OBVIOUS
  <2>2. CargoCoverage = {claim}
    BY <1>2
  <2> HIDE DEF claim
  <2>3. matching = {claim}
    BY <1>3, <1>4, <1>5, <2>1, <2>2
  <2>4. QED
    BY <1>5, <2>1, <2>3 DEF ClosedIn
<1>6. CASE r # Depends
  <2>1. matching = {}
    BY <1>2, <1>4, <1>6
  <2>2. QED
    BY <1>6, <2>1 DEF ClosedIn
<1>7. QED
  BY <1>5, <1>6

LEMMA VerdictWithoutSql ==
  ASSUME NEW x, NamesFrom(x) \cap SqlRelations = {}, NEW e, SqlGaps(e), NEW e2, SqlGaps(e2)
  PROVE  VerdictFrom(x, e) = VerdictFrom(x, e2)
<1>1. ASSUME NEW a \in AtomsFrom(x)
      PROVE  /\ <<a.name, a.arguments>> \notin SqlAtoms(e)
             /\ <<a.name, a.arguments>> \notin SqlAtoms(e2)
             /\ \A scope : ClosedIn(e, a.name, scope) <=> ClosedIn(e2, a.name, scope)
  <2>1. a.name \notin SqlRelations
    BY DEF NamesFrom
  <2>2. <<a.name, a.arguments>>[1] = a.name
    OBVIOUS
  <2>3. QED
    BY <2>1, <2>2, SqlAtomsAreSql, ClosedBeyondSql
<1>2. UncoveredFrom(x, e) <=> UncoveredFrom(x, e2)
  BY <1>1 DEF UncoveredFrom
<1>3. QED
  BY <1>2 DEF VerdictFrom

LEMMA TextIs ==
  /\ SmtText.constraints = Constraints /\ SmtText.propositions = Propositional
  /\ SmtText.entities = EntityTypes /\ SmtText.relations = Relations
  /\ SmtText.asserted = Asserted /\ SmtText.denied = Denied
BY DEF SmtText

LEMMA VerdictOfText ==
  ASSUME Valid, DOMAIN manifests = Packages, SqlGaps(extraction)
  PROVE  Verdict = VerdictFrom(SmtText, extraction)
<1> DEFINE x == SmtText
<1>1. /\ x.constraints = Constraints /\ x.propositions = Propositional
      /\ x.entities = EntityTypes /\ x.relations = Relations
      /\ x.asserted = Asserted /\ x.denied = Denied
  BY TextIs
<1> HIDE DEF x
<1>2. AtomsFrom(x) = ConstraintAtoms /\ NamesFrom(x) = ConstraintRelations
  BY <1>1 DEF AtomsFrom, NamesFrom, ConstraintAtoms, ConstraintRelations
<1>3. Rejected <=> RejectedFrom(x)
  <2>1. \A t : Declaring(t) # {} <=> t \in DOMAIN EntityTypes
    BY DEF Declaring, EntityTypes
  <2>2. \A r \in DOMAIN Relations :
          TypesDeclared(Relations[r]) <=> \A i \in DOMAIN Relations[r] : Relations[r][i] \in DOMAIN EntityTypes
    BY <2>1 DEF TypesDeclared
  <2>3. QED
    BY <1>1, <1>2, <2>2 DEF Rejected, RejectedFrom
<1>4. \A atoms : RelevantAtoms(atoms) = RelevantFrom(x, atoms)
  BY <1>2 DEF RelevantAtoms, RelevantFrom
<1>5. GroundAtoms = GroundFrom(x)
  BY <1>1, <1>2, <1>4 DEF GroundAtoms, GroundFrom
<1>6. Open = OpenFrom(x)
  BY <1>1, <1>5 DEF Open, OpenFrom
<1>7. Satisfiable <=> SatisfiableFrom(x)
  BY <1>1, <1>6 DEF Satisfiable, SatisfiableFrom, Possible
<1>8. RequiresUncoveredAbsence <=> UncoveredFrom(x, extraction)
  <2>1. \A r, scope : IsClosed(r, scope) <=> ClosedIn(extraction, r, scope)
    BY DEF IsClosed, ClosedIn, Coverage
  <2>2. \A scope : ClosedIn(extraction, Depends, scope)
    <3>1. Depends \notin SqlRelations
      BY DEF Depends, SqlRelations
    <3>2. QED
      BY <3>1, ClosedBeyondSql
  <2>3. ASSUME NEW r, NEW arguments, r # Depends
        PROVE  <<r, arguments>> \in CargoAtoms <=> <<r, arguments>> \in PackageAtoms
    BY <2>3 DEF CargoAtoms, PackageAtoms
  <2>4. QED
    BY <1>2, <2>1, <2>2, <2>3 DEF RequiresUncoveredAbsence, UncoveredFrom, Observed
<1>9. Verdict = IF Rejected THEN "ERROR"
                ELSE IF RequiresUncoveredAbsence THEN "UNVERIFIED"
                ELSE IF Satisfiable THEN "PASS" ELSE "FAIL"
  BY DEF Verdict
<1>10. Verdict = VerdictFrom(x, extraction)
  BY <1>3, <1>7, <1>8, <1>9 DEF VerdictFrom
<1>11. QED
  BY <1>10 DEF x

\* The migrations that the record counts: where it counts them all, and where it
\* need count none, its result is the one of its text and of the schema now.
Counted == {k \in Nat : <<"migration", k>> \in evidence.inputs}

EvidenceInv ==
  /\ applied \in Nat /\ SqlGaps(extraction)
  /\ evidence # NoEvidence =>
       IF NamesFrom(evidence.text) \cap SqlRelations # {}
       THEN /\ Counted \subseteq 1..applied
            /\ Counted = 1..applied => evidence.result = VerdictFrom(evidence.text, extraction)
       ELSE evidence.result = VerdictFrom(evidence.text, extraction)

LEMMA CountedInputs ==
  ASSUME applied \in Nat, UsesSql, NEW k
  PROVE  <<"migration", k>> \in SelectedInputs <=> k \in 1..applied
<1> DEFINE others == ClauseFiles(WithClauses) \cup Manifests(CargoSources)
           relevant == others \cup Migrations(UsesSql)
<1>1. \A some : <<"migration", k>> \notin ClauseFiles(some) /\ <<"migration", k>> \notin Manifests(some)
  BY DEF ClauseFiles, Manifests
<1>2. <<"migration", k>> \in Migrations(TRUE) <=> k \in 1..applied
  BY DEF Migrations
<1>3. \/ SelectedInputs = relevant
      \/ SelectedInputs = Manifests(DOMAIN manifests) \cup Migrations(TRUE)
  BY DEF SelectedInputs
<1>4. QED
  BY <1>1, <1>2, <1>3

LEMMA EvidenceInvNext ==
  ProjectInv /\ EvidenceInv /\ [ObligationNext]_modelVars => EvidenceInv'
<1> SUFFICES ASSUME ProjectInv, EvidenceInv, [ObligationNext]_modelVars PROVE EvidenceInv'
  OBVIOUS
<1>1. ASSUME UNCHANGED <<applied, extraction, evidence>> PROVE EvidenceInv'
  BY <1>1 DEF EvidenceInv, Counted
<1>2. CASE UNCHANGED modelVars
  BY <1>1, <1>2 DEF modelVars
<1>3. CASE Check
  <2>1. Valid
    BY <1>3 DEF Check, Verdict
  <2>2. Verdict = VerdictFrom(SmtText, extraction)
    BY <2>1, VerdictOfText DEF ProjectInv, EvidenceInv
  <2>3. evidence' = [inputs |-> SelectedInputs, text |-> SmtText, result |-> Verdict]
    BY <1>3 DEF Check
  <2>4. applied' = applied /\ extraction' = extraction
    BY <1>3 DEF Check, MigrationState
  <2> DEFINE text == SmtText
             inputs == SelectedInputs
             verdict == Verdict
  <2>5. NamesFrom(text) = ConstraintRelations
    BY TextIs DEF NamesFrom, AtomsFrom, ConstraintRelations, ConstraintAtoms
  <2>6. NamesFrom(text) \cap SqlRelations # {} =>
          \A k : <<"migration", k>> \in inputs <=> k \in 1..applied
    BY <2>5, CountedInputs DEF UsesSql, EvidenceInv
  <2> HIDE DEF text, inputs, verdict
  <2>7. evidence'.inputs = inputs /\ evidence'.text = text /\ evidence'.result = verdict
    BY <2>3 DEF text, inputs, verdict
  <2>8. verdict = VerdictFrom(text, extraction)
    BY <2>2 DEF verdict, text
  <2>9. NamesFrom(text) \cap SqlRelations # {} => Counted' \subseteq 1..applied
    BY <2>6, <2>7 DEF Counted
  <2>10. QED
    BY <2>4, <2>7, <2>8, <2>9 DEF EvidenceInv
<1>4. ASSUME NEW s \in Statements, Migrate(s) PROVE EvidenceInv'
  <2>1. applied' = applied + 1 /\ evidence' = evidence /\ extraction' = Apply(extraction, s)
    BY <1>4 DEF Migrate
  <2>2. WellFormed(s) /\ SchemaShape(extraction)
    BY ObligationAssumption DEF ProjectInv, SchemaInv
  <2>3. SqlGaps(extraction')
    BY <2>1, <2>2, ApplyGaps DEF EvidenceInv
  <2>4. applied \in Nat /\ applied' \in Nat
    BY <2>1 DEF EvidenceInv
  <2>5. Counted' = Counted
    BY <2>1 DEF Counted
  <2>6. Counted \subseteq 1..applied => Counted \subseteq 1..applied' /\ Counted # 1..applied'
    <3>1. applied' \in 1..applied' /\ applied' \notin 1..applied /\ 1..applied \subseteq 1..applied'
      BY <2>1, <2>4
    <3>2. QED
      BY <3>1
  <2>7. NamesFrom(evidence.text) \cap SqlRelations = {} =>
          VerdictFrom(evidence.text, extraction') = VerdictFrom(evidence.text, extraction)
    BY <2>3, VerdictWithoutSql DEF EvidenceInv
  <2>8. QED
    BY <2>1, <2>3, <2>4, <2>5, <2>6, <2>7 DEF EvidenceInv
<1>5. CASE EditFiles
  BY <1>1, <1>5 DEF EditFiles, MigrationState
<1>6. QED
  BY <1>2, <1>3, <1>4, <1>5 DEF ObligationNext, SetStatus, RemoveAdr, Supersede, Declare

LEMMA CurrentIsReproduced == ProjectInv /\ EvidenceInv => CurrentVerdictIsReproducible
<1> SUFFICES ASSUME ProjectInv, EvidenceInv, Current PROVE evidence.result = Verdict
  BY DEF CurrentVerdictIsReproducible
<1>1. /\ evidence # NoEvidence /\ Valid
      /\ evidence.inputs = SelectedInputs /\ evidence.text = SmtText
  BY DEF Current
<1>2. Verdict = VerdictFrom(SmtText, extraction)
  BY <1>1, VerdictOfText DEF ProjectInv, EvidenceInv
<1>3. NamesFrom(SmtText) = ConstraintRelations
  BY TextIs DEF NamesFrom, AtomsFrom, ConstraintRelations, ConstraintAtoms
<1>4. CASE UsesSql
  <2>1. \A k : <<"migration", k>> \in evidence.inputs <=> k \in 1..applied
    BY <1>1, <1>4, CountedInputs DEF EvidenceInv
  <2>2. Counted = 1..applied
    BY <2>1 DEF Counted
  <2>3. QED
    BY <1>1, <1>2, <1>3, <1>4, <2>2 DEF EvidenceInv, UsesSql
<1>5. CASE ~UsesSql
  BY <1>1, <1>2, <1>3, <1>5 DEF EvidenceInv, UsesSql
<1>6. QED
  BY <1>4, <1>5

\* However the files were edited and the migrations went on since a check, its
\* verdict is reported as current only where a new check would give it again
\* (lib.rs relevant_semantic_inputs, current_evidence_status_with_roots).
THEOREM CurrentIsReproducible == ObligationSpec => []CurrentVerdictIsReproducible
<1>1. ObligationInit => EvidenceInv
  BY DEF ObligationInit, EvidenceInv, EmptySchema, SqlGaps
<1>2. QED
  BY <1>1, ProjectInvariant, EvidenceInvNext, CurrentIsReproduced, PTL DEF ObligationSpec

-----------------------------------------------------------------------------
(* The verdict and the project: what the text asserts holds, what it denies *)
(* does not, and what it leaves open is what nobody answers for.            *)

IsAtom(a) ==
  /\ a = <<a[1], a[2]>>
  /\ Len(a[2]) \in Nat /\ a[2] = [i \in 1..Len(a[2]) |-> a[2][i]]

LEMMA AtomsAre ==
  ASSUME NEW r, NEW k, NEW l, NEW n
  PROVE  IsAtom(<<r, <<k>>>>) /\ IsAtom(<<r, <<k, l>>>>) /\ IsAtom(<<r, <<k, l, n>>>>)
<1>1. ASSUME NEW S, NEW u \in Seq(S) PROVE IsAtom(<<r, u>>)
  <2>1. Len(u) \in Nat /\ u = [i \in 1..Len(u) |-> u[i]]
    OBVIOUS
  <2>2. <<r, u>>[1] = r /\ <<r, u>>[2] = u
    OBVIOUS
  <2>3. QED
    BY <2>1, <2>2 DEF IsAtom
<1>2. <<k>> \in Seq({k, l, n}) /\ <<k, l>> \in Seq({k, l, n}) /\ <<k, l, n>> \in Seq({k, l, n})
  OBVIOUS
<1>3. QED
  BY <1>1, <1>2

LEMMA CargoFacts ==
  ASSUME NEW a
  PROVE  /\ a \in CargoAtoms <=>
              \E p \in DOMAIN manifests :
                \/ a = <<"package", <<p>>>> \/ a = <<"workspace_member", <<p>>>>
                \/ \E q \in Declared(p) : a = <<Depends, <<p, q>>>>
         /\ a \in Unsupported <=>
              \E p \in DOMAIN manifests : \E q \in Declared(p) \ DeclaredSupported(p) :
                a = <<Depends, <<p, q>>>>
BY DEF CargoAtoms, Unsupported

LEMMA SqlAtomsAre ==
  ASSUME NEW e, NEW a \in SqlAtoms(e)
  PROVE  IsAtom(a)
<1> DEFINE tables == UNION {TableAtoms(t, e.tables[t]) : t \in DOMAIN e.tables}
           parents == UNION {{<<"inherits", <<t, p>>>> : p \in e.inheritance[t]} :
                               t \in DOMAIN e.inheritance}
           schemas == {<<"schema", <<n>>>> : n \in e.schemas}
           views == {<<"materialized_view", <<v>>>> : v \in e.views}
           partitions == {<<"partition_of", <<t, e.partitions[t]>>>> : t \in DOMAIN e.partitions}
<1>1. a \in schemas \cup tables \cup views \cup partitions \cup parents
  BY DEF SqlAtoms
<1>2. a \in schemas \cup views \cup partitions => IsAtom(a)
  <2>1. a \in schemas => \E n : a = <<"schema", <<n>>>>
    OBVIOUS
  <2>2. a \in views => \E n : a = <<"materialized_view", <<n>>>>
    OBVIOUS
  <2>3. a \in partitions => \E n, k : a = <<"partition_of", <<n, k>>>>
    OBVIOUS
  <2> HIDE DEF schemas, views, partitions
  <2>4. QED
    BY <2>1, <2>2, <2>3, AtomsAre
<1>3. a \in parents => IsAtom(a)
  <2>1. a \in parents => \E n, k : a = <<"inherits", <<n, k>>>>
    OBVIOUS
  <2> HIDE DEF parents
  <2>2. QED
    BY <2>1, AtomsAre
<1>4. ASSUME NEW t, a \in TableAtoms(t, e.tables[t]) PROVE IsAtom(a)
  <2> DEFINE table == e.tables[t]
             constraints == {ConstraintAtom(t, n, table.constraints[n]) : n \in DOMAIN table.constraints}
  <2>1. a \in constraints => IsAtom(a)
    BY AtomsAre DEF ConstraintAtom
  <2>2. a \notin constraints =>
          \/ a = <<"table", <<t>>>>
          \/ \E c : a = <<"column", <<t, c>>>> \/ a = <<"column_not_null", <<t, c>>>>
          \/ \E c : a = <<"column_type", <<t, c, table.columns[c].type>>>>
    BY <1>4 DEF TableAtoms
  <2> HIDE DEF constraints, table
  <2>3. QED
    BY <2>1, <2>2, AtomsAre DEF table
<1>5. a \in tables => IsAtom(a)
  BY <1>4
<1> HIDE DEF tables, parents, schemas, views, partitions
<1>6. QED
  BY <1>1, <1>2, <1>3, <1>5

LEMMA ObservedAre ==
  ASSUME NEW a \in Observed
  PROVE  IsAtom(a)
<1>1. a \in CargoAtoms => \E r, k, l : a = <<r, <<k>>>> \/ a = <<r, <<k, l>>>>
  BY CargoFacts
<1>2. a \in CargoAtoms => IsAtom(a)
  BY <1>1, AtomsAre
<1>3. QED
  BY <1>2, SqlAtomsAre DEF Observed

LEMMA GreatestOfFinite ==
  ASSUME NEW S, IsFiniteSet(S), S \subseteq Nat, S # {}
  PROVE  \E a \in S : \A b \in S : b <= a
<1> DEFINE Greater(a) == {b \in S : b > a}
           T == {Greater(a) : a \in S}
           R == StrictSubsetOrdering(S)
<1>1. IsWellFoundedOn(R, SUBSET S)
  BY FS_StrictSubsetOrderingWellFounded, FS_FiniteSubsetsOfFinite
<1>2. T \subseteq SUBSET S /\ T # {}
  OBVIOUS
<1> HIDE DEF R, T
<1>3. PICK least \in T : \A x \in T : <<x, least>> \notin R
  BY <1>1, <1>2, WFMin
<1>4. PICK a \in S : least = Greater(a)
  BY DEF T
<1>5. ASSUME NEW c \in S, c > a PROVE FALSE
  <2>1. Greater(c) \in T
    BY DEF T
  <2>2. Greater(c) \subseteq Greater(a) /\ c \in Greater(a) /\ c \notin Greater(c)
    <3>1. a \in Nat /\ c \in Nat /\ \A b \in S : b \in Nat
      OBVIOUS
    <3>2. \A b \in S : b > c => b > a
      BY <1>5, <3>1
    <3>3. ~(c > c)
      BY <3>1
    <3>4. QED
      BY <1>5, <3>2, <3>3
  <2>3. <<Greater(c), least>> \in R
    BY <1>2, <1>4, <2>1, <2>2 DEF R, StrictSubsetOrdering
  <2>4. QED
    BY <1>3, <2>1, <2>3
<1>6. QED
  BY <1>5

\* The relations of the constraints are declared, over types that are, with one
\* argument or more: the solver takes no other text.
LEMMA SignaturesAre ==
  ASSUME ProjectInv, ~Rejected, NEW r \in ConstraintRelations
  PROVE  /\ r \in DOMAIN Relations /\ Relations[r] \in Seq(STRING) /\ Relations[r] # <<>>
         /\ TypesDeclared(Relations[r])
<1> DEFINE declaring == {a \in ActiveDecisions : r \in DOMAIN Signatures[a]}
           last == CHOOSE a \in ActiveDecisions : /\ r \in DOMAIN Signatures[a]
                                                  /\ \A b \in ActiveDecisions : b > a => r \notin DOMAIN Signatures[b]
<1>1. r \in DOMAIN Relations /\ Relations[r] # <<>> /\ TypesDeclared(Relations[r])
  BY DEF Rejected
<1>2. Relations[r] = Signatures[last][r]
  BY <1>1 DEF Relations
<1>3. declaring # {}
  BY <1>1 DEF Relations
<1>4. declaring \subseteq Nat /\ IsFiniteSet(declaring)
  <2>1. declaring \subseteq Decisions
    BY DEF ActiveDecisions, ProjectInv
  <2>2. QED
    BY <2>1, ObligationAssumption, FS_Subset
<1>5. \E a \in ActiveDecisions : /\ r \in DOMAIN Signatures[a]
                                 /\ \A b \in ActiveDecisions : b > a => r \notin DOMAIN Signatures[b]
  <2>1. PICK a \in declaring : \A b \in declaring : b <= a
    BY <1>3, <1>4, GreatestOfFinite
  <2>2. QED
    BY <1>4, <2>1
<1>6. last \in ActiveDecisions /\ r \in DOMAIN Signatures[last]
  BY <1>5
<1>7. last \in Decisions
  BY <1>6 DEF ActiveDecisions, ProjectInv
<1>8. QED
  BY <1>1, <1>2, <1>6, <1>7, ObligationAssumption

LEMMA GroundAre ==
  ASSUME NEW a
  PROVE  a \in GroundAtoms <=>
           /\ a = <<a[1], a[2]>>
           /\ a[1] \in ConstraintRelations \cap DOMAIN Relations
           /\ a[2] \in [DOMAIN Relations[a[1]] -> UNION {EntityTypes[k] : k \in DOMAIN EntityTypes}]
           /\ WellSorted(a[2], Relations[a[1]], EntityTypes)
           /\ \E w \in ConstraintAtoms : Matches(w, a[1], a[2])
<1> DEFINE relations == Relations
           entities == EntityTypes
           Of(r) == {u \in [DOMAIN relations[r] -> UNION {entities[k] : k \in DOMAIN entities}] :
                       WellSorted(u, relations[r], entities)}
           AllOf(r) == {<<r, t>> : t \in Of(r)}
           named == ConstraintRelations \cap DOMAIN relations
<1>1. GroundAtoms = RelevantAtoms(UNION {AllOf(r) : r \in named})
  BY DEF GroundAtoms
<1>2. a \in UNION {AllOf(r) : r \in named} <=> a = <<a[1], a[2]>> /\ a[1] \in named /\ a[2] \in Of(a[1])
  <2> HIDE DEF Of, named
  <2>1. \A r : a \in AllOf(r) <=> a = <<a[1], a[2]>> /\ a[1] = r /\ a[2] \in Of(r)
    OBVIOUS
  <2> HIDE DEF AllOf
  <2>2. QED
    BY <2>1
<1>3. a[2] \in Of(a[1]) <=>
        /\ a[2] \in [DOMAIN relations[a[1]] -> UNION {entities[k] : k \in DOMAIN entities}]
        /\ WellSorted(a[2], relations[a[1]], entities)
  OBVIOUS
<1> HIDE DEF Of, AllOf
<1>4. a \in GroundAtoms <=> /\ a \in UNION {AllOf(r) : r \in named}
                            /\ \E w \in ConstraintAtoms : Matches(w, a[1], a[2])
  BY <1>1 DEF RelevantAtoms
<1>5. QED
  BY <1>2, <1>3, <1>4

\* An atom of the text is one of those that the constraints are about.
LEMMA TextIsGround ==
  ASSUME ProjectInv, ~Rejected, NEW a, IsAtom(a), a \in Asserted \cup Denied
  PROVE  a \in GroundAtoms
<1> DEFINE signature == Relations[a[1]]
           all == UNION {EntityTypes[k] : k \in DOMAIN EntityTypes}
<1>1. PICK w \in ConstraintAtoms : Matches(w, a[1], a[2])
  BY DEF Asserted, Denied, RelevantAtoms
<1>2. a[1] \in ConstraintRelations
  BY <1>1 DEF Matches, ConstraintRelations
<1>3. /\ a[1] \in DOMAIN Relations /\ signature \in Seq(STRING) /\ TypesDeclared(signature)
  BY <1>2, SignaturesAre
<1>4. WellSorted(a[2], signature, EntityTypes)
  BY DEF Rejected
<1>5. \A i \in DOMAIN signature : signature[i] \in DOMAIN EntityTypes
  BY <1>3 DEF TypesDeclared, Declaring, EntityTypes
<1> HIDE DEF signature
<1>6. a[2] \in [DOMAIN signature -> all]
  <2>1. Len(a[2]) = Len(signature) /\ \A i \in DOMAIN signature : a[2][i] \in EntityTypes[signature[i]]
    BY <1>4 DEF WellSorted
  <2>2. DOMAIN signature = 1..Len(signature)
    BY <1>3
  <2>3. \A i \in DOMAIN signature : a[2][i] \in all
    BY <1>5, <2>1
  <2>4. a[2] = [i \in DOMAIN signature |-> a[2][i]]
    BY <2>1, <2>2 DEF IsAtom
  <2> HIDE DEF all
  <2>5. QED
    BY <2>3, <2>4
<1>7. a = <<a[1], a[2]>>
  BY DEF IsAtom
<1>8. QED
  BY <1>1, <1>2, <1>3, <1>4, <1>6, <1>7, GroundAre DEF signature

LEMMA DeniedAre ==
  ASSUME NEW a, a \in CargoAbsences \cup OtherAbsences
  PROVE  \/ /\ a[1] = Depends /\ Declaring("Package") # {}
            /\ \E p \in DOMAIN manifests : \E q \in FirstMembers("Package") \ DeclaredSupported(p) :
                 a = <<Depends, <<p, q>>>>
         \/ /\ a[1] \in DOMAIN Relations \ {Depends} /\ TypesDeclared(Relations[a[1]])
            /\ a = <<a[1], a[2]>> /\ a[2] \in Tuples(Relations[a[1]])
            /\ a \notin Observed /\ IsClosed(a[1], ScopeOf(a[1], a[2], {}))
<1>1. CASE a \in CargoAbsences
  <2>1. /\ Declaring("Package") # {}
        /\ \E p \in DOMAIN manifests : \E q \in FirstMembers("Package") \ DeclaredSupported(p) :
             a = <<Depends, <<p, q>>>>
    BY <1>1 DEF CargoAbsences
  <2>2. QED
    BY <2>1
<1>2. CASE a \in OtherAbsences
  <2> DEFINE Left(r) == {u \in Tuples(Relations[r]) : /\ <<r, u>> \notin Observed
                                                      /\ IsClosed(r, ScopeOf(r, u, {}))}
             Named == {q \in DOMAIN Relations \ {Depends} : TypesDeclared(Relations[q])}
  <2>1. OtherAbsences = UNION {{<<r, t>> : t \in Left(r)} : r \in Named}
    BY DEF OtherAbsences
  <2> HIDE DEF Left
  <2>2. PICK r \in Named : \E t \in Left(r) : a = <<r, t>>
    BY <1>2, <2>1
  <2> PICK t \in Left(r) : a = <<r, t>>
    BY <2>2
  <2>3. a[1] = r /\ a[2] = t
    BY <2>2
  <2>4. t \in Tuples(Relations[r]) /\ <<r, t>> \notin Observed /\ IsClosed(r, ScopeOf(r, t, {}))
    BY <2>2 DEF Left
  <2>5. QED
    BY <2>2, <2>3, <2>4
<1>3. QED
  BY <1>1, <1>2

LEMMA TupleAre ==
  ASSUME NEW signature, NEW u, NEW S, u \in [DOMAIN signature -> S],
         \A i \in DOMAIN signature : u[i] \in LastMembers(signature[i])
  PROVE  u \in Tuples(signature)
<1> DEFINE all == UNION {LastMembers(signature[i]) : i \in DOMAIN signature}
<1>1. \A i \in DOMAIN signature : u[i] \in all
  OBVIOUS
<1>2. u = [i \in DOMAIN signature |-> u[i]]
  OBVIOUS
<1> HIDE DEF all
<1>3. u \in [DOMAIN signature -> all]
  BY <1>1, <1>2
<1>4. QED
  BY <1>3 DEF Tuples, all

\* What is not asserted is denied exactly where somebody answers for it.
LEMMA DeniedIfAnswered ==
  ASSUME ProjectInv, ~Rejected, NEW a \in GroundAtoms, a \notin Observed \ Unsupported
  PROVE  a \in Denied <=> Answered(a)
<1>1. /\ a = <<a[1], a[2]>> /\ a[1] \in ConstraintRelations
      /\ a[2] \in [DOMAIN Relations[a[1]] -> UNION {EntityTypes[k] : k \in DOMAIN EntityTypes}]
      /\ \E w \in ConstraintAtoms : Matches(w, a[1], a[2])
  BY GroundAre
<1>2. a[1] \in DOMAIN Relations /\ TypesDeclared(Relations[a[1]])
  BY <1>1, SignaturesAre
<1>3. a \in Denied <=> a \in CargoAbsences \cup OtherAbsences
  BY <1>1 DEF Denied, RelevantAtoms
<1>4. CASE a[1] = Depends
  <2>1. ASSUME NEW p \in DOMAIN manifests, NEW q, a = <<Depends, <<p, q>>>>
        PROVE  q \notin DeclaredSupported(p)
    <3>1. SUFFICES ASSUME q \in DeclaredSupported(p) PROVE FALSE
      OBVIOUS
    <3>2. q \in Declared(p)
      BY <3>1 DEF Declared, DeclaredSupported
    <3>3. a \in Observed
      BY <2>1, <3>2, CargoFacts DEF Observed
    <3>4. a \notin Unsupported
      BY <2>1, <3>1, CargoFacts
    <3>5. QED
      BY <3>3, <3>4
  <2>2. a \in CargoAbsences \cup OtherAbsences => Answered(a)
    BY <1>4, DeniedAre DEF Answered
  <2>3. ASSUME Answered(a) PROVE a \in CargoAbsences
    <3>1. Declaring("Package") # {}
      BY <1>4, <2>3 DEF Answered
    <3>2. PICK p \in DOMAIN manifests, q \in FirstMembers("Package") : a[2] = <<p, q>>
      BY <1>4, <2>3 DEF Answered
    <3>3. a = <<Depends, <<p, q>>>>
      BY <1>1, <1>4, <3>2
    <3>4. q \in FirstMembers("Package") \ DeclaredSupported(p)
      BY <2>1, <3>2, <3>3
    <3>5. QED
      BY <3>1, <3>2, <3>3, <3>4 DEF CargoAbsences
  <2>4. QED
    BY <1>3, <2>2, <2>3
<1>5. CASE a[1] # Depends
  <2> DEFINE signature == Relations[a[1]]
  <2>1. a \notin Observed
    BY <1>5, CargoFacts
  <2>2. ASSUME a \in CargoAbsences \cup OtherAbsences PROVE Answered(a)
    <3>1. a[2] \in Tuples(signature) /\ IsClosed(a[1], ScopeOf(a[1], a[2], {}))
      BY <1>5, <2>2, DeniedAre
    <3>2. DOMAIN a[2] = DOMAIN signature /\ \A i \in DOMAIN signature : a[2][i] \in LastMembers(signature[i])
      BY <3>1 DEF Tuples
    <3>3. QED
      BY <1>5, <3>1, <3>2 DEF Answered
  <2>3. ASSUME Answered(a) PROVE a \in OtherAbsences
    <3>1. /\ IsClosed(a[1], ScopeOf(a[1], a[2], {}))
          /\ \A i \in DOMAIN a[2] : a[2][i] \in LastMembers(signature[i])
      BY <1>5, <2>3 DEF Answered
    <3>2. DOMAIN a[2] = DOMAIN signature
      BY <1>1
    <3>3. a[2] \in Tuples(signature)
      BY <1>1, <3>1, <3>2, TupleAre
    <3> DEFINE Left(r) == {u \in Tuples(Relations[r]) : /\ <<r, u>> \notin Observed
                                                        /\ IsClosed(r, ScopeOf(r, u, {}))}
               Named == {q \in DOMAIN Relations \ {Depends} : TypesDeclared(Relations[q])}
    <3>4. OtherAbsences = UNION {{<<r, t>> : t \in Left(r)} : r \in Named}
      BY DEF OtherAbsences
    <3>5. a[1] \in Named /\ a[2] \in Left(a[1])
      BY <1>1, <1>2, <1>5, <2>1, <3>1, <3>3
    <3> HIDE DEF Left, Named
    <3>6. QED
      BY <1>1, <3>4, <3>5
  <2>4. QED
    BY <1>3, <2>2, <2>3
<1>6. QED
  BY <1>4, <1>5

LEMMA AssertedAre ==
  ASSUME ProjectInv, ~Rejected, NEW a \in GroundAtoms
  PROVE  a \in Asserted <=> a \in Observed \ Unsupported
BY GroundAre DEF Asserted, RelevantAtoms

LEMMA PropositionsAreOpen ==
  ASSUME ProjectInv, ~Rejected, NEW n
  PROVE  <<n, <<>>>> \notin Asserted \cup Denied
<1> DEFINE a == <<n, <<>>>>
<1> SUFFICES ASSUME a \in Asserted \cup Denied PROVE FALSE
  OBVIOUS
<1>1. a[1] \in ConstraintRelations
  BY DEF Asserted, Denied, RelevantAtoms, Matches, ConstraintRelations
<1>2. Relations[n] \in Seq(STRING) /\ Relations[n] # <<>>
  BY <1>1, SignaturesAre
<1>3. WellSorted(a[2], Relations[a[1]], EntityTypes)
  BY DEF Rejected
<1>4. Len(Relations[n]) = 0
  BY <1>3 DEF WellSorted
<1>5. QED
  BY <1>2, <1>4

\* What the text leaves open is what the property leaves loose.
LEMMA OpenIsLoose ==
  ASSUME ProjectInv, ~Rejected
  PROVE  Open = Loose
<1> DEFINE names == {<<n, <<>>>> : n \in Propositional}
           unanswered == {a \in GroundAtoms \ (Observed \ Unsupported) : ~Answered(a)}
<1>1. \A a \in GroundAtoms : a \in Asserted \cup Denied <=> a \notin unanswered
  BY AssertedAre, DeniedIfAnswered
<1>2. names \cap (Asserted \cup Denied) = {}
  BY PropositionsAreOpen
<1> HIDE DEF names
<1>3. QED
  BY <1>1, <1>2 DEF Open, Loose, names

LEMMA TruthIs ==
  ASSUME NEW a
  PROVE  a \in Truth <=>
           \/ a \in DatabaseAtoms(database)
           \/ a \in SqlAtoms(extraction) /\ a[1] \notin Compared
           \/ \E p \in DOMAIN manifests :
                \/ a = <<"package", <<p>>>> \/ a = <<"workspace_member", <<p>>>>
                \/ \E q \in DeclaredUnconditionally(p) : a = <<Depends, <<p, q>>>>
<1> DEFINE declared == UNION {{<<"package", <<p>>>>, <<"workspace_member", <<p>>>>}
                                \cup {<<Depends, <<p, q>>>> : q \in DeclaredUnconditionally(p)} :
                                  p \in DOMAIN manifests}
<1>1. a \in declared <=>
        \E p \in DOMAIN manifests :
          \/ a = <<"package", <<p>>>> \/ a = <<"workspace_member", <<p>>>>
          \/ \E q \in DeclaredUnconditionally(p) : a = <<Depends, <<p, q>>>>
  OBVIOUS
<1> HIDE DEF declared
<1>2. Truth = DatabaseAtoms(database) \cup {k \in SqlAtoms(extraction) : k[1] \notin Compared} \cup declared
  BY DEF Truth, declared
<1>3. QED
  BY <1>1, <1>2

LEMMA DependsIsNotSql == Depends \notin SqlRelations /\ Depends \notin {"package", "workspace_member"}
BY DEF Depends, SqlRelations

\* Nothing being missed, no view is known on either side.
LEMMA NoViews ==
  ASSUME ProjectInv, missed = {}, ~Blind(extraction)
  PROVE  extraction.views = {} /\ \A n \in DOMAIN database : ~database[n].view
<1>1. /\ SchemaShape(extraction) /\ DatabaseShape(database)
      /\ RelationsOK(extraction, database, missed)
  BY DEF ProjectInv, SchemaInv
<1>2. \A n : ~Lost(missed, n)
  <2>1. \A n : <<"table", n>> \in Compared \X {n}
    BY DEF Compared
  <2>2. QED
    BY <2>1 DEF Lost
<1>3. ASSUME NEW n \in DOMAIN database PROVE ~database[n].view
  <2>1. NameOK(extraction, database, missed, n)
    BY <1>1 DEF RelationsOK, DatabaseShape
  <2>2. <<"column", n>> \in {"column", "column_type"} \X {n}
    OBVIOUS
  <2>3. QED
    BY <2>1, <2>2 DEF NameOK, ViewOK
<1>4. ASSUME NEW n \in extraction.views PROVE FALSE
  <2>1. NameOK(extraction, database, missed, n)
    BY <1>1 DEF RelationsOK, SchemaShape
  <2>2. QED
    BY <1>2, <1>3, <2>1 DEF NameOK
<1>5. QED
  BY <1>3, <1>4

\* The conditions under which a verdict is one about the project.
Exact ==
  /\ missed = {}
  /\ Gap({"table"}, Global) \cap extraction.gaps = {}
  /\ \A p \in DOMAIN manifests : DeclaredSupported(p) = DeclaredUnconditionally(p)

LEMMA AssertedHolds ==
  ASSUME ProjectInv, Exact, NEW a \in Observed \ Unsupported
  PROVE  a \in Truth
<1>1. CASE a \in SqlAtoms(extraction)
  <2>1. a[1] \in Compared => a \in DatabaseAtoms(database)
    BY <1>1, SaidIsThere DEF ObservedIsThere, Exact
  <2>2. QED
    BY <1>1, <2>1, TruthIs
<1>2. CASE a \in CargoAtoms
  <2>1. \A p \in DOMAIN manifests : \A q \in Declared(p) :
          a = <<Depends, <<p, q>>>> => q \in DeclaredUnconditionally(p)
    BY CargoFacts DEF Exact
  <2>2. QED
    BY <1>2, <2>1, CargoFacts, TruthIs
<1>3. QED
  BY <1>1, <1>2 DEF Observed

\* Where somebody answers for what is not observed, it does not hold.
LEMMA DeniedDoesNotHold ==
  ASSUME ProjectInv, ~Rejected, Exact, NEW a \in GroundAtoms, a \notin Observed \ Unsupported, Answered(a)
  PROVE  a \notin Truth
<1>1. /\ a[1] \in ConstraintRelations
      /\ a[2] \in [DOMAIN Relations[a[1]] -> UNION {EntityTypes[k] : k \in DOMAIN EntityTypes}]
  BY GroundAre
<1>2. a[1] # Depends => a \notin Observed
  BY CargoFacts
<1>3. a \notin DatabaseAtoms(database)
  <2>1. SUFFICES ASSUME a \in DatabaseAtoms(database) PROVE FALSE
    OBVIOUS
  <2>2. ~Blind(extraction) /\ extraction.views = {} /\ \A n \in DOMAIN database : ~database[n].view
    BY Seen, NoViews DEF Exact
  <2>3. a[1] \in Compared \ {"materialized_view"} /\ a[2] # <<>>
    <3>1. DatabaseFact(database, a)
      BY <2>1, DatabaseFacts
    <3>2. a[1] \in Compared \ {"materialized_view"}
      BY <2>2, <3>1 DEF DatabaseFact, Compared
    <3>3. \E k, l, n : a[2] = <<k>> \/ a[2] = <<k, l>> \/ a[2] = <<k, l, n>>
      BY <3>1 DEF DatabaseFact
    <3>4. QED
      BY <3>2, <3>3
  <2>4. a[1] # Depends
    BY <2>3, ComparedAreSql, DependsIsNotSql
  <2>5. ScopeOf(a[1], a[2], {}) = OfTable(a[2][1])
    BY <2>3, <2>4 DEF ScopeOf, Compared
  <2>6. IsClosed(a[1], OfTable(a[2][1]))
    BY <2>4, <2>5 DEF Answered
  <2>7. ClosedCoverageIsRight
    BY ClosedIsRight
  <2>8. a \in SqlAtoms(extraction)
    BY <2>1, <2>2, <2>3, <2>6, <2>7 DEF ClosedCoverageIsRight, Exact
  <2>9. QED
    BY <1>2, <2>4, <2>8 DEF Observed
<1>4. a \notin SqlAtoms(extraction)
  <2>1. SUFFICES ASSUME a \in SqlAtoms(extraction) PROVE FALSE
    OBVIOUS
  <2>2. a[1] # Depends
    BY <2>1, SqlAtomsAreSql, DependsIsNotSql
  <2>3. QED
    BY <1>2, <2>1, <2>2 DEF Observed
<1>5. ASSUME NEW p \in DOMAIN manifests PROVE a \notin {<<"package", <<p>>>>, <<"workspace_member", <<p>>>>}
  <2>1. SUFFICES ASSUME a = <<"package", <<p>>>> \/ a = <<"workspace_member", <<p>>>> PROVE FALSE
    OBVIOUS
  <2>2. a[1] # Depends /\ a \in CargoAtoms
    BY <2>1, CargoFacts, DependsIsNotSql
  <2>3. QED
    BY <1>2, <2>2 DEF Observed
<1>6. ASSUME NEW p \in DOMAIN manifests, NEW q \in DeclaredUnconditionally(p), a = <<Depends, <<p, q>>>>
      PROVE  FALSE
  <2>1. q \in DeclaredSupported(p) /\ q \in Declared(p)
    BY DEF Exact, DeclaredSupported, Declared
  <2>2. a \in Observed /\ a \notin Unsupported
    BY <1>6, <2>1, CargoFacts DEF Observed
  <2>3. QED
    BY <2>2
<1>7. QED
  BY <1>3, <1>4, <1>5, <1>6, TruthIs

LEMMA AssertedIsTruth ==
  ASSUME ProjectInv, ~Rejected, Exact
  PROVE  Asserted = (Truth \cap GroundAtoms) \ Loose
<1>1. ASSUME NEW a \in Asserted PROVE a \in (Truth \cap GroundAtoms) \ Loose
  <2>1. a \in Observed \ Unsupported
    BY DEF Asserted, RelevantAtoms
  <2>2. IsAtom(a)
    BY <2>1, ObservedAre
  <2>3. a \in GroundAtoms /\ a \in Truth
    BY <2>1, <2>2, TextIsGround, AssertedHolds
  <2>4. a \notin Open
    BY DEF Open
  <2>5. QED
    BY <2>3, <2>4, OpenIsLoose
<1>2. ASSUME NEW a \in (Truth \cap GroundAtoms) \ Loose PROVE a \in Asserted
  <2>1. a \notin Observed \ Unsupported => Answered(a)
    BY DEF Loose
  <2>2. a \in Observed \ Unsupported
    BY <2>1, DeniedDoesNotHold
  <2>3. QED
    BY <2>2, AssertedAre
<1>3. QED
  BY <1>1, <1>2

LEMMA VerdictIsAbout == ProjectInv /\ EvidenceInv => VerdictIsOfProject
<1> SUFFICES ASSUME ProjectInv, EvidenceInv, Current, evidence.result \in {"PASS", "FAIL"}, Exact
             PROVE  evidence.result = "PASS" <=> Possible((Truth \cap GroundAtoms) \ Loose, Loose)
  BY DEF VerdictIsOfProject, Exact
<1>1. evidence.result = Verdict
  BY CurrentIsReproduced DEF CurrentVerdictIsReproducible
<1>2. ~Rejected /\ (evidence.result = "PASS" <=> Satisfiable)
  BY <1>1 DEF Verdict, Current
<1>3. Satisfiable <=> Possible((Truth \cap GroundAtoms) \ Loose, Loose)
  BY <1>2, OpenIsLoose, AssertedIsTruth DEF Satisfiable
<1>4. QED
  BY <1>2, <1>3

\* A verdict that is reported as current says what holds in the project: of the
\* database as the migrations have left it and the manifests as they are, and of
\* nothing but what the property leaves loose (lib.rs run_check_with_roots,
\* obligation_to_smt, apply_closed_world_facts, apply_generic_closed_world_facts).
THEOREM VerdictIsAboutProject == ObligationSpec => []VerdictIsOfProject
<1>1. ObligationInit => EvidenceInv
  BY DEF ObligationInit, EvidenceInv, EmptySchema, SqlGaps
<1>2. QED
  BY <1>1, ProjectInvariant, EvidenceInvNext, VerdictIsAbout, PTL DEF ObligationSpec
=============================================================================
