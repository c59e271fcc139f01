----------------------------- MODULE ObjectStore -----------------------------
(***************************************************************************)
(* ObjectStore (Realm/ObjectStore/object_store.cpp and object_schema.cpp): *)
(* how a group, the content of a Realm file, is brought to the schema of   *)
(* the program that opens it.  The functions work on one group inside one  *)
(* transaction, so they are operators on it; what they throw is part of    *)
(* their result.                                                           *)
(*                                                                         *)
(* Properties are plain values: links between classes are left out.  The   *)
(* user's migration block leaves the rows as they are, or fails.           *)
(***************************************************************************)
EXTENDS Naturals, Sequences, FiniteSets, SequencesExt

CONSTANTS
  Classes,     (* object types                                            *)
  Names,       (* property names                                          *)
  Types,       (* property types                                          *)
  Indexable,   (* the types a search index can be made for                *)
  NotVersioned (* the schema version of a file that has none              *)

ASSUME ObjectStoreAssumption ==
  /\ Indexable \subseteq Types
  /\ NotVersioned \in Nat
  /\ "" \notin Names

NoName == "" (* the primary key of a class without one                    *)

(* A class of a schema: its properties in order, each with a name, a type,  *)
(* whether it is nullable and whether it is indexed, and its primary key.   *)
(* A schema is a version and the classes it has.                            *)
Properties == [name : Names, type : Types, nullable : BOOLEAN, indexed : BOOLEAN]

NoClass == [properties |-> <<>>, primary |-> NoName, declared |-> FALSE]

(* A table: its columns in order, and its rows, each with a value for every *)
(* column.                                                                  *)
NoTable == [columns |-> <<>>, rows |-> <<>>, exists |-> FALSE]
EmptyTable == [NoTable EXCEPT !.exists = TRUE]

(* A group: the metadata table, the tables of the classes, the "pk" table.  *)
EmptyGroup == [version |-> NotVersioned,
               metadata |-> FALSE,
               table |-> [c \in Classes |-> NoTable],
               primary |-> [c \in Classes |-> NoName]]

Declared(schema) == {c \in Classes : schema.class[c].declared}

(* property_for_name, in a table or in a class: the place of the first one  *)
(* of that name, 0 for none.                                                *)
PlaceOf(items, name) == SelectInSeq(items, LAMBDA item : item.name = name)
HasName(items, name) == PlaceOf(items, name) # 0
ForName(items, name) == items[PlaceOf(items, name)]

-----------------------------------------------------------------------------
(* Versions. *)

(* get_schema_version *)
SchemaVersion(group) == IF group.metadata THEN group.version ELSE NotVersioned

(* is_schema_at_version throws for a file of a later version.               *)
TooNew(group, version) ==
  LET old == SchemaVersion(group) IN old > version /\ old # NotVersioned

(* What it returns otherwise.                                               *)
is_schema_at_version(group, version) == SchemaVersion(group) # version

(* create_metadata_tables *)
WithMetadata(group) == [group EXCEPT !.metadata = TRUE]

-----------------------------------------------------------------------------
(* create_tables *)

(* property_has_changed, of two properties of one name.                     *)
HasChanged(p, q) == p.type # q.type \/ p.nullable # q.nullable

(* property_can_be_migrated_to_nullable *)
CanBeNullable(p, q) == p.type = q.type /\ ~p.nullable /\ q.nullable

(* What a new column holds in the rows that are there.                      *)
Default == 0

(* add_column: at the end, without an index.  copy_property_values fills it *)
(* from the column it replaces when only nullability was added.             *)
NothingCopied(table, p, i) == Default (* Mutant: copy_property_values is not called. *)

CopiedValue(table, p, i) ==
  LET old == PlaceOf(table.columns, p.name) IN
  IF old # 0 /\ CanBeNullable(table.columns[old], p) THEN table.rows[i][old] ELSE Default

WithColumn(table, p) ==
  [table EXCEPT !.columns = Append(@, [p EXCEPT !.indexed = FALSE]),
                !.rows = [i \in DOMAIN @ |-> Append(@[i], CopiedValue(table, p, i))]]

(* First a column for each new property, by the columns there were; as      *)
(* table.columns still starts with those, the first column of a name is the *)
(* old one.                                                                 *)
IsNew(columns, p) == ~HasName(columns, p.name) \/ HasChanged(ForName(columns, p.name), p)

AddColumns(table, class) ==
  LET after[n \in 0 .. Len(class.properties)] ==
        IF n = 0 THEN table
        ELSE LET p == class.properties[n] IN
             IF IsNew(table.columns, p) THEN WithColumn(after[n - 1], p) ELSE after[n - 1]
  IN after[Len(class.properties)]

(* Then the old columns that were replaced or have no property any more go, *)
(* the last one first.                                                      *)
IsExtra(column, class) ==
  \/ ~HasName(class.properties, column.name)
  \/ HasChanged(column, ForName(class.properties, column.name))

Ascending(columns, n) == n (* Mutant: not sorted by falling column. *)

InRemovalOrder(columns, n) == Len(columns) + 1 - n

WithoutColumn(table, i) ==
  [table EXCEPT !.columns = RemoveAt(@, i),
                !.rows = [r \in DOMAIN @ |-> RemoveAt(@[r], i)]]

RemoveColumns(table, columns, class) ==
  LET after[n \in 0 .. Len(columns)] ==
        IF n = 0 THEN table
        ELSE LET i == InRemovalOrder(columns, n) IN
             IF IsExtra(columns[i], class) THEN WithoutColumn(after[n - 1], i) ELSE after[n - 1]
  IN after[Len(columns)]

UpdatedTable(table, class) == RemoveColumns(AddColumns(table, class), table.columns, class)

(* Every class of the schema gets a table; with update_existing all of them *)
(* are brought to the schema, otherwise only the new ones.                  *)
AlwaysAll(group, schema, update_existing) == (* Mutant: existing tables are always updated. *)
  Declared(schema)

ToUpdate(group, schema, update_existing) ==
  {c \in Declared(schema) : update_existing \/ ~group.table[c].exists}

CreateTables(group, schema, update_existing) ==
  LET update == ToUpdate(group, schema, update_existing)
      TableOf(c) == IF group.table[c].exists THEN group.table[c] ELSE EmptyTable
  IN [group EXCEPT
        !.table = [c \in Classes |->
           IF c \in update THEN UpdatedTable(TableOf(c), schema.class[c]) ELSE @[c]],
        !.primary = [c \in Classes |->
           IF c \in update THEN schema.class[c].primary ELSE @[c]]]

-----------------------------------------------------------------------------
(* validate_schema and update_column_mapping *)

(* The column of each property, in the group it was aligned with.           *)
Mapping(group, schema) ==
  [c \in Declared(schema) |->
     [i \in DOMAIN schema.class[c].properties |->
        PlaceOf(group.table[c].columns, schema.class[c].properties[i].name)]]

(* No validation error: the same properties, of the same type, nullability  *)
(* and primary key.  An index is no matter of validation.                   *)
ClassValid(group, schema, c) ==
  LET columns == group.table[c].columns
      class == schema.class[c]
  IN /\ \A i \in DOMAIN columns :
          LET name == columns[i].name IN
          /\ HasName(class.properties, name)
          /\ ~HasChanged(columns[i], ForName(class.properties, name))
          /\ (name = group.primary[c]) = (name = class.primary)
     /\ \A i \in DOMAIN class.properties : HasName(columns, class.properties[i].name)

HasAllTables(group, schema) == \A c \in Declared(schema) : group.table[c].exists

Valid(group, schema) ==
  \A c \in Declared(schema) : group.table[c].exists => ClassValid(group, schema, c)

-----------------------------------------------------------------------------
(* Indexes. *)

RequiresIndex(class, p) == p.indexed \/ p.name = class.primary

(* indexes_are_up_to_date reads the table_column of every property.  It is  *)
(* never set for a property the table does not have: the answer is then     *)
(* either one, or none.                                                     *)
UnsetColumn(group, schema) ==
  \E c \in Declared(schema) : 0 \in Range(Mapping(group, schema)[c])

IndexesMatch(group, schema) ==
  \A c \in Declared(schema) : \A i \in DOMAIN schema.class[c].properties :
    LET p == schema.class[c].properties[i]
        column == Mapping(group, schema)[c][i]
    IN column # 0 => group.table[c].columns[column].indexed = RequiresIndex(schema.class[c], p)

(* update_indexes throws for a type that cannot be indexed.                 *)
IndexesPossible(group, schema) ==
  \A c \in Declared(schema) : \A i \in DOMAIN schema.class[c].properties :
    LET p == schema.class[c].properties[i] IN
    RequiresIndex(schema.class[c], p) => p.type \in Indexable

Reindexed(class, q) ==
  [q EXCEPT !.indexed = RequiresIndex(class, ForName(class.properties, q.name))]

ReindexedTable(table, class) ==
  [table EXCEPT !.columns = [i \in DOMAIN @ |-> Reindexed(class, @[i])]]

Indexed(group, schema) ==
  [group EXCEPT !.table = [c \in Classes |->
     IF c \notin Declared(schema) THEN @[c] ELSE ReindexedTable(@[c], schema.class[c])]]

-----------------------------------------------------------------------------
(* update_realm_with_schema *)

Values(table, column) == {table.rows[i][column] : i \in DOMAIN table.rows}

KeysNotLookedAt(group, schema) == TRUE (* Mutant: the rows are not looked at. *)

(* validate_primary_column_uniqueness *)
PrimaryUnique(group, schema) ==
  \A c \in Declared(schema) :
    schema.class[c].primary # NoName =>
      LET column == PlaceOf(group.table[c].columns, schema.class[c].primary)
      IN Cardinality(Values(group.table[c], column)) = Len(group.table[c].rows)

(* Every class had its table and its indexes and the version was right.     *)
Tabled(group, schema, migrating) == CreateTables(WithMetadata(group), schema, migrating)

(* The version is checked again inside the write transaction: another      *)
(* process may have migrated the file since.                               *)
NeverTooNew(group, version) == FALSE (* Mutant: it is not checked again. *)

TooNewByNow(group, version) == TooNew(group, version)

ThrowsBeforeBlock(group, schema, migrating) ==
  LET tabled == Tabled(group, schema, migrating) IN
  \/ TooNewByNow(group, schema.version)
  \/ ~Valid(tabled, schema)
  \/ ~IndexesPossible(tabled, schema)

Throws(group, schema, migrating) ==
  \/ ThrowsBeforeBlock(group, schema, migrating)
  \/ migrating /\ ~PrimaryUnique(Tabled(group, schema, migrating), schema)

(* The migration block is for files that have old data.                     *)
CallsMigration(group, migrating) == migrating /\ SchemaVersion(group) # NotVersioned

Updated(group, schema, migrating) ==
  LET indexed == Indexed(Tabled(group, schema, migrating), schema)
  IN IF migrating THEN [indexed EXCEPT !.version = schema.version] ELSE indexed

=============================================================================
