---------------------------- MODULE SchemaGraph ----------------------------
(***************************************************************************)
(* The graph of an Omni-ERD diagram: what PostgresIntrospector reads of a  *)
(* schema's catalog, and the relationships that infer.py makes of it and   *)
(* of the admins' overrides.                                               *)
(*                                                                         *)
(* A catalog holds tables, each with its columns and its primary key, and  *)
(* the foreign keys of those tables.  A name stands for all its            *)
(* spellings (matching ignores case), and what a regular expression finds  *)
(* in it is a field: the thing a table is a dimension of ("of"), and the   *)
(* thing a "*SK" column is the key of ("keyOf"); None if it finds nothing. *)
(* Constraint names are numbers, for they order the rows.                  *)
(***************************************************************************)
EXTENDS Naturals, Sequences, SequencesExt, FiniteSetsExt

CONSTANT None  \* absent: a stem, a role, an id

End(entity, columns) == [entity |-> entity, columns |-> columns]

Relationship(origin, source, target) ==
  [origin |-> origin, source |-> source, target |-> target]

(* confidence = 1.0 for all that is not a guess. *)
Guessed(r) == r.origin = "inferred_naming"

Pair(r) == {r.source.entity, r.target.entity}
Pairs(rs) == {Pair(rs[i]) : i \in DOMAIN rs}
Ids(entities) == {entities[i].id : i \in DOMAIN entities}
EntityOf(entities, id) == entities[CHOOSE i \in DOMAIN entities : entities[i].id = id]
ColumnNames(entity) == {entity.columns[i].name : i \in DOMAIN entity.columns}

(* The elements of s that are in S, in their order. *)
Only(s, S) ==
  LET upTo[n \in 0 .. Len(s)] ==
        IF n = 0 THEN <<>>
        ELSE IF s[n] \in S THEN Append(upTo[n - 1], s[n]) ELSE upTo[n - 1]
  IN upTo[Len(s)]

(* A set in the order of what comes before what. *)
InOrder(S, Before(_, _)) ==
  [n \in 1 .. Cardinality(S) |->
     CHOOSE x \in S : Cardinality({y \in S : Before(y, x)}) = n - 1]

-----------------------------------------------------------------------------
(* Introspection. *)

(* The rows of _FOREIGN_KEYS_SQL: a row per column, by name, then ordinal. *)
ForeignKeyRows(catalog) ==
  LET keys == catalog.foreignKeys
      rows == UNION {{[name |-> keys[k].name, ord |-> o, key |-> k,
                       source |-> End(keys[k].source.entity, keys[k].source.columns[o]),
                       target |-> End(keys[k].target.entity, keys[k].target.columns[o])]
                        : o \in DOMAIN keys[k].source.columns} : k \in DOMAIN keys}
  IN InOrder(rows, LAMBDA a, b :
       \/ a.name < b.name
       \/ a.name = b.name /\ a.ord < b.ord
       \/ a.name = b.name /\ a.ord = b.ord /\ a.key < b.key)

(* Rows with one constraint name are one relationship, of the tables that  *)
(* the first of them names.                                                *)
OneRelationship(rows) ==
  Relationship("declared",
    End(rows[1].source.entity, [i \in DOMAIN rows |-> rows[i].source.columns]),
    End(rows[1].target.entity, [i \in DOMAIN rows |-> rows[i].target.columns]))

DeclaredRelationships(catalog) ==
  LET rows == ForeignKeyRows(catalog)
      names == InOrder({rows[i].name : i \in DOMAIN rows}, <)
  IN [n \in DOMAIN names |->
        OneRelationship(Only(rows, {row \in ToSet(rows) : row.name = names[n]}))]

Entities(catalog) ==
  LET referencing == {row.source : row \in ToSet(ForeignKeyRows(catalog))}
      column(t, x) == [name |-> x.name, keyOf |-> x.keyOf,
                       pk |-> x.name \in ToSet(t.primaryKey),
                       fk |-> End(t.id, x.name) \in referencing]
  IN [i \in DOMAIN catalog.tables |->
        LET t == catalog.tables[i]
        IN [id |-> t.id, of |-> t.of, primaryKey |-> t.primaryKey,
            columns |-> [j \in DOMAIN t.columns |-> column(t, t.columns[j])]]]

-----------------------------------------------------------------------------
(* Inference. *)

(* An override still fits the catalog; the others are dropped in silence. *)
Resolves(o, entities) ==
  /\ Pair(o) \subseteq Ids(entities)
  /\ o.source.entity # o.target.entity
  /\ \A end \in {o.source, o.target} :
       ToSet(end.columns) \subseteq ColumnNames(EntityOf(entities, end.entity))

(* Every column of every entity with every entity it may lead to, in       *)
(* catalog order.                                                          *)
Candidates(entities) ==
  FlattenSeq([i \in DOMAIN entities |->
    FlattenSeq([j \in DOMAIN entities[i].columns |->
      [k \in DOMAIN entities |->
        [from |-> entities[i], column |-> entities[i].columns[j], to |-> entities[k]]]])])

(* One relationship for each of the candidates that are meant. *)
Guess(x) ==
  Relationship("inferred_naming", End(x.from.id, <<x.column.name>>), End(x.to.id, <<x.column.name>>))

Matches(entities, meant) ==
  LET candidates == Only(Candidates(entities), meant)
  IN [n \in DOMAIN candidates |-> Guess(candidates[n])]

(* Of dimensions of one thing the last is in the dict. *)
Dimension(entities, t) ==
  \E i \in DOMAIN entities :
    /\ entities[i] = t
    /\ \A j \in i + 1 .. Len(entities) : entities[j].of # t.of

SurrogateKeys(entities) ==
  Matches(entities, {x \in ToSet(Candidates(entities)) :
    /\ x.column.keyOf # None /\ x.to.of = x.column.keyOf
    /\ Dimension(entities, x.to)
    /\ x.column.name \in ColumnNames(x.to)})

SameNamedKeys(entities) ==
  Matches(entities, {x \in ToSet(Candidates(entities)) :
    /\ ~x.column.pk
    /\ x.to.id # x.from.id
    /\ x.to.primaryKey = <<x.column.name>>})

(* A guess is drawn if nothing has claimed its pair. *)
Emit(claimed, guesses) ==
  LET upTo[n \in 0 .. Len(guesses)] ==
        IF n = 0 THEN <<>>
        ELSE LET out == upTo[n - 1]
                 r == guesses[n]
             IN IF \/ r.source.entity = r.target.entity
                   \/ Pair(r) \in claimed \union Pairs(out)
                THEN out
                ELSE Append(out, r)
  IN upTo[Len(guesses)]

(* The overrides that fit the catalog, and those of them that join. *)
Resolved(entities, overrides) ==
  Only(overrides, {o \in ToSet(overrides) : Resolves(o, entities)})

Joining(entities, overrides) ==
  Only(Resolved(entities, overrides), {o \in ToSet(overrides) : o.action = "join"})

Asserted(joins) ==
  [i \in DOMAIN joins |-> Relationship("admin_override", joins[i].source, joins[i].target)]

(* Declared constraints within the graph that no override speaks of. *)
Kept(entities, declared, overridden) ==
  Only(declared, {r \in ToSet(declared) :
                    Pair(r) \subseteq Ids(entities) /\ Pair(r) \notin overridden})

(* Variant: an override that suppresses a join claims no pair. *)
InferUnsuppressed(entities, declared, overrides) ==
  LET joins == Joining(entities, overrides)
      kept == Kept(entities, declared, Pairs(joins))
  IN Asserted(joins) \o kept
       \o Emit(Pairs(joins) \union Pairs(kept),
               SurrogateKeys(entities) \o SameNamedKeys(entities))

(* Overrides, then declared constraints, then guesses. *)
InferRelationships(entities, declared, overrides) ==
  LET resolved == Resolved(entities, overrides)
      kept == Kept(entities, declared, Pairs(resolved))
  IN Asserted(Joining(entities, overrides)) \o kept
       \o Emit(Pairs(resolved) \union Pairs(kept),
               SurrogateKeys(entities) \o SameNamedKeys(entities))

(* The graph endpoint's answer; the catalog and the overrides are kept for *)
(* the properties.                                                         *)
Graph(catalog, overrides) ==
  LET entities == Entities(catalog)
  IN [entities |-> entities,
      relationships |-> InferRelationships(entities, DeclaredRelationships(catalog), overrides),
      foreignKeys |-> catalog.foreignKeys, overrides |-> overrides]
=============================================================================
