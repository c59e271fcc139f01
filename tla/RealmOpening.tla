---------------------------- MODULE RealmOpening ----------------------------
(***************************************************************************)
(* RealmOpening (RLMObjectStore.mm, RLMRealm.mm): programs of several      *)
(* versions open one Realm file, each in a process of its own, and migrate *)
(* it to their schema.  A process first looks at the file in a read        *)
(* transaction; what it finds may be old when it gets the write            *)
(* transaction, and it may die at any step.  A commit replaces the file at *)
(* once: Realm's core is not part of this model.                           *)
(*                                                                         *)
(* A process that is open when another one migrates keeps the columns it   *)
(* was opened with.  What it then reads and writes is not modelled.        *)
(***************************************************************************)
EXTENDS ObjectStore

CONSTANTS
  Processes,
  Schemas,      (* the schemas of the program's versions *)
  RowValues,    (* the values rows are written with      *)
  MaxLaunches,  (* bound: launches of processes          *)
  MaxRows       (* bound: rows of a table                *)

(* Properties have names of their own, and the primary key is one of them,  *)
(* of a type that can be indexed (RLMObjectSchema.mm:105-131).              *)
Class == [properties : Seq(Properties), primary : Names \cup {NoName}, declared : BOOLEAN]

Sound(class) ==
  /\ \A i, k \in DOMAIN class.properties :
       class.properties[i].name = class.properties[k].name => i = k
  /\ class.primary # NoName =>
       \E i \in DOMAIN class.properties :
         class.properties[i].name = class.primary /\ class.properties[i].type \in Indexable

ASSUME RealmOpeningAssumption ==
  /\ Schemas # {}
  /\ \A s \in Schemas :
       /\ s.version \in Nat \ {NotVersioned}
       /\ \A c \in Classes : s.class[c] \in Class /\ Sound(s.class[c])
  /\ MaxLaunches \in Nat /\ MaxRows \in Nat

VARIABLES
  file,     (* the committed group                                        *)
  writer,   (* the process inside the write transaction, as a set         *)
  pc,       (* where each process is                                      *)
  schema,   (* the schema of each process's program                       *)
  mapping,  (* the columns of its properties, as its RLMSchema has them   *)
  launches

vars == <<file, writer, pc, schema, mapping, launches>>

(* "refused": the migration block returned an error.                       *)
Places == {"off", "opening", "waiting", "updating", "opened", "failed", "refused"}

-----------------------------------------------------------------------------

Init ==
  /\ file = EmptyGroup
  /\ writer = {}
  /\ pc = [p \in Processes |-> "off"]
  /\ schema \in [Processes -> {CHOOSE s \in Schemas : TRUE}]
  /\ mapping = [p \in Processes |-> <<>>]
  /\ launches = 0

(* A program starts, of the version it had before or another one.          *)
Launch(p, s) ==
  /\ pc[p] = "off" /\ launches < MaxLaunches
  /\ pc' = [pc EXCEPT ![p] = "opening"]
  /\ schema' = [schema EXCEPT ![p] = s]
  /\ launches' = launches + 1
  /\ UNCHANGED <<file, writer, mapping>>

Opened(p, group) ==
  /\ pc' = [pc EXCEPT ![p] = "opened"]
  /\ mapping' = [mapping EXCEPT ![p] = Mapping(group, schema[p])]

(* RLMUpdateRealmToSchemaVersion before the write transaction: no write is *)
(* needed when all the tables, the version and the indexes are right.      *)
AtVersion(p) == ~is_schema_at_version(file, schema[p].version)

OpenFast(p) ==
  /\ pc[p] = "opening"
  /\ HasAllTables(file, schema[p]) /\ AtVersion(p)
  /\ IndexesMatch(file, schema[p])
  /\ Valid(file, schema[p])
  /\ Opened(p, file)
  /\ UNCHANGED <<file, writer, schema, launches>>

(* RLMRealmSetSchema finds the tables different, or the file is of a later *)
(* version.                                                                *)
OpenFails(p) ==
  /\ pc[p] = "opening"
  /\ HasAllTables(file, schema[p])
  /\ \/ TooNew(file, schema[p].version)
     \/ AtVersion(p) /\ IndexesMatch(file, schema[p]) /\ ~Valid(file, schema[p])
  /\ pc' = [pc EXCEPT ![p] = "failed"]
  /\ UNCHANGED <<file, writer, schema, mapping, launches>>

(* An index flag read through a column that was never set may differ.      *)
NeedsWrite(p) ==
  /\ pc[p] = "opening"
  /\ ~(HasAllTables(file, schema[p]) /\ TooNew(file, schema[p].version))
  /\ \/ ~HasAllTables(file, schema[p])
     \/ ~AtVersion(p)
     \/ ~IndexesMatch(file, schema[p])
     \/ UnsetColumn(file, schema[p])
  /\ pc' = [pc EXCEPT ![p] = "waiting"]
  /\ UNCHANGED <<file, writer, schema, mapping, launches>>

(* beginWriteTransaction takes the file's lock and advances to the newest  *)
(* content, which is what update_realm_with_schema checks again.           *)
BeginWrite(p) ==
  /\ pc[p] = "waiting" /\ writer = {}
  /\ writer' = {p}
  /\ pc' = [pc EXCEPT ![p] = "updating"]
  /\ UNCHANGED <<file, schema, mapping, launches>>

Migrating(p) == is_schema_at_version(file, schema[p].version)

(* An exception of the object store: cancelWriteTransaction.               *)
Cancel(p) ==
  /\ pc[p] = "updating"
  /\ Throws(file, schema[p], Migrating(p))
  /\ pc' = [pc EXCEPT ![p] = "failed"]
  /\ writer' = {}
  /\ UNCHANGED <<file, schema, mapping, launches>>

(* The block returns an error.  It is called before the primary keys are   *)
(* looked at.                                                              *)
BlockFails(p) ==
  /\ pc[p] = "updating"
  /\ CallsMigration(file, Migrating(p))
  /\ ~ThrowsBeforeBlock(file, schema[p], Migrating(p))
  /\ pc' = [pc EXCEPT ![p] = "refused"]
  /\ writer' = {}
  /\ UNCHANGED <<file, schema, mapping, launches>>

(* The update is committed, or cancelled when it changed nothing.          *)
Commit(p) ==
  /\ pc[p] = "updating"
  /\ ~Throws(file, schema[p], Migrating(p))
  /\ file' = Updated(file, schema[p], Migrating(p))
  /\ Opened(p, file')
  /\ writer' = {}
  /\ UNCHANGED <<schema, launches>>

(* The process ends.  The lock of a dead process is free, and what it had  *)
(* not committed never was in the file.                                    *)
LockAfter(p) == writer \ {p}

Die(p) ==
  /\ pc[p] # "off"
  /\ pc' = [pc EXCEPT ![p] = "off"]
  /\ mapping' = [mapping EXCEPT ![p] = <<>>]
  /\ writer' = LockAfter(p)
  /\ UNCHANGED <<file, schema, launches>>

-----------------------------------------------------------------------------
(* Objects. *)

(* RLMAddObjectToRealm with createOrUpdate: the row with that primary key,  *)
(* else a new one.                                                          *)
RowFor(table, key, row) ==
  IF key = 0 THEN 0 ELSE SelectInSeq(table.rows, LAMBDA other : other[key] = row[key])

WithRow(rows, row, place) == IF place = 0 THEN Append(rows, row) ELSE [rows EXCEPT ![place] = row]

RowOf(columnOf, values) ==
  [i \in DOMAIN values |-> values[CHOOSE k \in DOMAIN values : columnOf[k] = i]]

AddObject(p, c, values) ==
  LET table == file.table[c]
      row == RowOf(mapping[p][c], values)
      key == PlaceOf(table.columns, file.primary[c])
      rows == WithRow(table.rows, row, RowFor(table, key, row))
  IN /\ pc[p] = "opened" /\ writer = {}
     /\ SchemaVersion(file) = schema[p].version
     /\ c \in Declared(schema[p])
     /\ Len(rows) <= MaxRows
     /\ file' = [file EXCEPT !.table[c].rows = rows]
     /\ UNCHANGED <<writer, pc, schema, mapping, launches>>

-----------------------------------------------------------------------------

AddAnObject ==
  \E p \in Processes : \E c \in Declared(schema[p]) :
    \E values \in [DOMAIN schema[p].class[c].properties -> RowValues] : AddObject(p, c, values)

OpeningStep(p) ==
  OpenFast(p) \/ OpenFails(p) \/ NeedsWrite(p) \/ BeginWrite(p)
    \/ Cancel(p) \/ BlockFails(p) \/ Commit(p)

Next ==
  \/ \E p \in Processes : (\E s \in Schemas : Launch(p, s)) \/ OpeningStep(p) \/ Die(p)
  \/ AddAnObject

Spec == Init /\ [][Next]_vars

-----------------------------------------------------------------------------
(* Properties. *)

TypeOK ==
  /\ writer \in SUBSET Processes
  /\ pc \in [Processes -> Places]
  /\ schema \in [Processes -> Schemas]
  /\ launches \in 0 .. MaxLaunches

(* The column the file has for a property, as the class declares it.       *)
Holds(table, column, p) ==
  LET q == table.columns[column] IN
  q.name = p.name /\ q.type = p.type /\ q.nullable = p.nullable

(* While the file is at the version of an open program, every property is  *)
(* in the column the program thinks, with its type and nullability, and no *)
(* column is left over: whoever else opens the file, at that version or in *)
(* between.                                                                *)
OpenMeansAligned ==
  \A p \in Processes :
    pc[p] = "opened" /\ SchemaVersion(file) = schema[p].version =>
      \A c \in Declared(schema[p]) :
        LET properties == schema[p].class[c].properties IN
        /\ Len(file.table[c].columns) = Len(properties)
        /\ \A i \in DOMAIN properties :
             /\ mapping[p][c][i] \in DOMAIN file.table[c].columns
             /\ Holds(file.table[c], mapping[p][c][i], properties[i])
        /\ file.primary[c] = schema[p].class[c].primary

(* The primary key of every class in the file is a column, it has an index  *)
(* (find_first would scan), and no two rows share a value.                  *)
KeysSound ==
  \A c \in Classes :
    file.primary[c] # NoName =>
      LET table == file.table[c]
          key == PlaceOf(table.columns, file.primary[c])
      IN /\ key # 0
         /\ table.columns[key].indexed
         /\ \A i, j \in DOMAIN table.rows : table.rows[i][key] = table.rows[j][key] => i = j

(* No step takes the file back to an earlier version, although a program    *)
(* may have found an older file when it decided to write.                   *)
VersionsGrow ==
  [][SchemaVersion(file) # NotVersioned =>
       /\ SchemaVersion(file') # NotVersioned
       /\ SchemaVersion(file') >= SchemaVersion(file)]_vars

(* A migration keeps every row, and in it the value of every property that   *)
(* stays or only becomes optional, wherever its column goes.                 *)
Survives(p, q) == p.name = q.name /\ p.type = q.type /\ (p.nullable => q.nullable)

DataKept ==
  [][SchemaVersion(file') # SchemaVersion(file) =>
       \A c \in Classes :
         LET old == file.table[c]  new == file'.table[c] IN
         /\ Len(new.rows) = Len(old.rows)
         /\ \A i \in DOMAIN old.columns, j \in DOMAIN new.columns :
              Survives(old.columns[i], new.columns[j]) =>
                \A r \in DOMAIN old.rows : new.rows[r][j] = old.rows[r][i]]_vars

(* The reasons not to open: a file of a later version, another class at the *)
(* same version, a type without an index, a new primary key for the rows    *)
(* there are, or the old one with another type.  A file of an earlier       *)
(* version opens in every other case.                                       *)
OtherShape(p) ==
  SchemaVersion(file) = schema[p].version
    /\ \E c \in Declared(schema[p]) : file.table[c].exists /\ ~ClassValid(file, schema[p], c)

AsksForNoIndex(p) ==
  \A c \in Declared(schema[p]) : \A q \in Range(schema[p].class[c].properties) :
    q.indexed => q.type \in Indexable

KeyStays(class, c) ==
  /\ class.primary = file.primary[c]
  /\ \E q \in Range(file.table[c].columns), r \in Range(class.properties) :
       q.name = class.primary /\ Survives(q, r)

NewKey(p) ==
  \E c \in Declared(schema[p]) :
    /\ schema[p].class[c].primary # NoName /\ ~KeyStays(schema[p].class[c], c)
    /\ Len(file.table[c].rows) > 1

FailsOnlyForCause ==
  [][\A p \in Processes :
       pc[p] # "failed" /\ pc'[p] = "failed" =>
         \/ SchemaVersion(file) > schema[p].version
         \/ OtherShape(p) \/ ~AsksForNoIndex(p) \/ NewKey(p)]_vars

=============================================================================
