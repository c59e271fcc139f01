-------------------------- MODULE RealmOpeningProofs --------------------------
(***************************************************************************)
(* Opening and migrating a Realm file, proved for any number of processes, *)
(* any schemas with the classes RLMObjectSchema accepts, any values and    *)
(* any number of launches and rows.                                        *)
(*                                                                         *)
(* The functions of the object store come first.  AddColumns and           *)
(* RemoveColumns go through the properties one by one, so what they make   *)
(* of a table is an induction over how many they have seen (AllAdded,      *)
(* AllRemoved): the columns of the old table stay where they were until    *)
(* the extra ones go, and as those go from the last to the first, the      *)
(* places of the others in front still hold.  Brought puts the two         *)
(* together: the table fits the class, column for property, it has its     *)
(* rows, and what survives has its values.                                 *)
(*                                                                         *)
(* Then the group: what create_tables, validation and update_indexes make  *)
(* of it together (Commits), that a commit keeps the primary keys          *)
(* (KeysSurvive), the version (CommitVersion) and the data                 *)
(* (CommitKeepsData).                                                      *)
(*                                                                         *)
(* The invariant, OpeningInd: the file is a sound group in which every     *)
(* primary key is an indexed column of different values, and every open    *)
(* process has a schema no newer than the file, which, when it is not      *)
(* older either, fits the file and has its mapping.  That the file is only *)
(* ever at a version an open process has or at a later one is what         *)
(* OpenMeansAligned itself does not say and its proof needs: a file that   *)
(* went back would be migrated a second time under an open process.        *)
(***************************************************************************)
EXTENDS RealmOpening, InductionLemmas

(* property_for_name finds the first of that name, if there is one. *)
LEMMA FirstOfName ==
  ASSUME NEW items \in Seq(Properties), NEW name
  PROVE  /\ PlaceOf(items, name) \in 0 .. Len(items)
         /\ HasName(items, name) <=> \E i \in 1 .. Len(items) : items[i].name = name
         /\ HasName(items, name) => PlaceOf(items, name) \in 1 .. Len(items)
         /\ HasName(items, name) => items[PlaceOf(items, name)].name = name
         /\ \A i \in 1 .. Len(items) : items[i].name = name => PlaceOf(items, name) <= i
<1>1. PICK I : I = {i \in 1 .. Len(items) : items[i].name = name}
  OBVIOUS
<1>2. PlaceOf(items, name) = IF I # {} THEN Min(I) ELSE 0
  BY <1>1 DEF PlaceOf, SelectInSeq
<1>3. I \subseteq Nat
  BY <1>1
<1>4. I # {} => Min(I) \in I /\ \A y \in I : Min(I) <= y
  BY <1>3, Smallest
<1>5. CASE I = {}
  BY <1>1, <1>2, <1>5 DEF HasName
<1>6. CASE I # {}
  <2>1. PICK m \in I : m = PlaceOf(items, name) /\ \A y \in I : m <= y
    BY <1>2, <1>4, <1>6
  <2>2. m \in 1 .. Len(items) /\ items[m].name = name
    BY <1>1, <2>1
  <2>3. \A i \in 1 .. Len(items) : items[i].name = name => m <= i
    BY <1>1, <2>1
  <2> QED
    BY <2>1, <2>2, <2>3 DEF HasName
<1> QED
  BY <1>5, <1>6

-----------------------------------------------------------------------------
(* Tables: a row has a cell for every column. *)

Cells == RowValues \cup {Default}

Rectangular(table) == \A r \in 1 .. Len(table.rows) : Len(table.rows[r]) = Len(table.columns)

Tables == {table \in [columns : Seq(Properties), rows : Seq(Seq(Cells)), exists : BOOLEAN] :
             Rectangular(table)}

LEMMA TableFacts ==
  ASSUME NEW t \in Tables
  PROVE  /\ t.columns \in Seq(Properties) /\ t.rows \in Seq(Seq(Cells)) /\ t.exists \in BOOLEAN
         /\ Len(t.columns) \in Nat /\ Len(t.rows) \in Nat
         /\ DOMAIN t.columns = 1 .. Len(t.columns) /\ DOMAIN t.rows = 1 .. Len(t.rows)
         /\ \A i \in 1 .. Len(t.columns) : t.columns[i] \in Properties
         /\ \A r \in 1 .. Len(t.rows) : t.rows[r] \in Seq(Cells)
         /\ \A r \in 1 .. Len(t.rows) : Len(t.rows[r]) = Len(t.columns)
         /\ t = [columns |-> t.columns, rows |-> t.rows, exists |-> t.exists]
<1>1. t \in [columns : Seq(Properties), rows : Seq(Seq(Cells)), exists : BOOLEAN] /\ Rectangular(t)
  BY DEF Tables
<1> HIDE DEF Tables
<1>2. t.columns \in Seq(Properties) /\ t.rows \in Seq(Seq(Cells)) /\ t.exists \in BOOLEAN
  BY <1>1
<1>3. t = [columns |-> t.columns, rows |-> t.rows, exists |-> t.exists]
  BY <1>1
<1>4. \A i \in 1 .. Len(t.columns) : t.columns[i] \in Properties
  BY <1>2
<1>5. \A r \in 1 .. Len(t.rows) : t.rows[r] \in Seq(Cells)
  BY <1>2
<1> QED
  BY <1>1, <1>2, <1>3, <1>4, <1>5 DEF Rectangular

(* The element at a place goes and those behind it move up. *)
LEMMA Removed ==
  ASSUME NEW S, NEW s \in Seq(S), NEW i \in 1 .. Len(s)
  PROVE  /\ RemoveAt(s, i) \in Seq(S)
         /\ Len(RemoveAt(s, i)) = Len(s) - 1
         /\ \A j \in 1 .. Len(s) - 1 : RemoveAt(s, i)[j] = IF j < i THEN s[j] ELSE s[j + 1]
<1>1. PICK a : a = SubSeq(s, 1, i - 1)
  OBVIOUS
<1>2. PICK b : b = SubSeq(s, i + 1, Len(s))
  OBVIOUS
<1>3. a \in Seq(S) /\ Len(a) = i - 1 /\ \A j \in 1 .. i - 1 : a[j] = s[j]
  BY <1>1
<1>4. b \in Seq(S) /\ Len(b) = Len(s) - i /\ \A j \in 1 .. Len(s) - i : b[j] = s[i + j]
  BY <1>2
<1>5. RemoveAt(s, i) = a \o b
  BY <1>1, <1>2 DEF RemoveAt
<1>6. a \o b \in Seq(S) /\ Len(a \o b) = Len(s) - 1
  BY <1>3, <1>4
<1>7. ASSUME NEW j \in 1 .. Len(s) - 1 PROVE (a \o b)[j] = IF j < i THEN s[j] ELSE s[j + 1]
  <2>1. CASE j < i
    <3>1. j \in 1 .. i - 1
      BY <2>1
    <3> QED
      BY <1>3, <1>4, <2>1, <3>1
  <2>2. CASE j >= i
    <3>1. PICK k \in 1 .. Len(s) - i : j = (i - 1) + k
      <4>1. j - (i - 1) \in 1 .. Len(s) - i
        BY <2>2
      <4> QED
        BY <4>1
    <3>2. (a \o b)[j] = b[k]
      BY <1>3, <1>4, <3>1
    <3> QED
      BY <1>4, <2>2, <3>1, <3>2
  <2>3. j < i \/ j >= i
    OBVIOUS
  <2> QED
    BY <2>1, <2>2, <2>3
<1> QED
  BY <1>5, <1>6, <1>7

(* An element more at the end. *)
LEMMA Appended ==
  ASSUME NEW S, NEW s \in Seq(S), NEW e \in S
  PROVE  /\ Append(s, e) \in Seq(S) /\ Len(Append(s, e)) = Len(s) + 1
         /\ \A i \in 1 .. Len(s) : Append(s, e)[i] = s[i]
         /\ Append(s, e)[Len(s) + 1] = e
  OBVIOUS

(* Another element in a place. *)
LEMMA Replaced ==
  ASSUME NEW S, NEW s \in Seq(S), NEW e \in S, NEW i \in 1 .. Len(s), NEW r, r = [s EXCEPT ![i] = e]
  PROVE  /\ r \in Seq(S) /\ Len(r) = Len(s) /\ DOMAIN r = 1 .. Len(s)
         /\ \A j \in 1 .. Len(s) : r[j] = IF j = i THEN e ELSE s[j]
  OBVIOUS

(* A table with rows and columns that fit is one of Tables. *)
LEMMA TableOf ==
  ASSUME NEW columns \in Seq(Properties), NEW rows \in Seq(Seq(Cells)), NEW exists \in BOOLEAN,
         \A r \in 1 .. Len(rows) : Len(rows[r]) = Len(columns)
  PROVE  [columns |-> columns, rows |-> rows, exists |-> exists] \in Tables
  BY DEF Tables, Rectangular

(* add_column: every row gets a cell at its end.                            *)
LEMMA ColumnAdded ==
  ASSUME NEW t \in Tables, NEW p \in Properties
  PROVE  /\ WithColumn(t, p) \in Tables
         /\ WithColumn(t, p).exists = t.exists
         /\ Len(WithColumn(t, p).rows) = Len(t.rows)
         /\ Len(WithColumn(t, p).columns) = Len(t.columns) + 1
         /\ \A i \in 1 .. Len(t.columns) : WithColumn(t, p).columns[i] = t.columns[i]
         /\ WithColumn(t, p).columns[Len(t.columns) + 1] = [p EXCEPT !.indexed = FALSE]
         /\ \A r \in 1 .. Len(t.rows), i \in 1 .. Len(t.columns) :
              WithColumn(t, p).rows[r][i] = t.rows[r][i]
         /\ \A r \in 1 .. Len(t.rows) :
              WithColumn(t, p).rows[r][Len(t.columns) + 1] = CopiedValue(t, p, r)
<1>1. PICK q \in Properties : q = [p EXCEPT !.indexed = FALSE]
  BY DEF Properties
<1>2. \A r \in 1 .. Len(t.rows) : CopiedValue(t, p, r) \in Cells
  <2> TAKE r \in 1 .. Len(t.rows)
  <2>1. PICK o : o = PlaceOf(t.columns, p.name)
    OBVIOUS
  <2>2. t.rows[r] \in Seq(Cells) /\ Len(t.rows[r]) = Len(t.columns)
    BY TableFacts
  <2>3. o \in 0 .. Len(t.columns)
    BY <2>1, TableFacts, FirstOfName
  <2>4. CASE o # 0
    <3>1. o \in 1 .. Len(t.rows[r])
      BY <2>2, <2>3, <2>4, TableFacts
    <3>2. t.rows[r][o] \in Cells
      BY <2>2, <3>1
    <3> QED
      BY <2>1, <3>2 DEF CopiedValue, Cells
  <2>5. CASE o = 0
    BY <2>1, <2>5 DEF CopiedValue, Cells
  <2> QED
    BY <2>4, <2>5
<1>3. PICK value : value = [r \in 1 .. Len(t.rows) |-> CopiedValue(t, p, r)]
  OBVIOUS
<1>4. \A r \in 1 .. Len(t.rows) : value[r] \in Cells /\ value[r] = CopiedValue(t, p, r)
  BY <1>2, <1>3
<1>5. PICK columns \in Seq(Properties), rows \in Seq(Seq(Cells)), exists \in BOOLEAN :
        /\ t.columns = columns /\ t.rows = rows /\ t.exists = exists
        /\ t = [columns |-> columns, rows |-> rows, exists |-> exists]
  BY TableFacts
<1>6. \A r \in 1 .. Len(rows) : rows[r] \in Seq(Cells) /\ Len(rows[r]) = Len(columns)
  BY <1>5, TableFacts
<1>7. PICK longer : longer = [r \in 1 .. Len(rows) |-> Append(rows[r], value[r])]
  OBVIOUS
<1>8. WithColumn(t, p) = [columns |-> Append(columns, q), rows |-> longer, exists |-> exists]
  <2>1. DOMAIN rows = 1 .. Len(rows)
    OBVIOUS
  <2>2. longer = [r \in DOMAIN t.rows |-> Append(t.rows[r], CopiedValue(t, p, r))]
    BY <1>4, <1>5, <1>7, <2>1
  <2>3. PICK u : u = [t EXCEPT !.columns = Append(t.columns, q), !.rows = longer]
    OBVIOUS
  <2>4. u = [columns |-> Append(columns, q), rows |-> longer, exists |-> exists]
    BY <1>5, <2>3
  <2> QED
    BY <1>1, <2>2, <2>3, <2>4, Zenon DEF WithColumn
<1>9. \A r \in 1 .. Len(rows) :
        /\ longer[r] \in Seq(Cells) /\ Len(longer[r]) = Len(columns) + 1
        /\ \A i \in 1 .. Len(columns) : longer[r][i] = rows[r][i]
        /\ longer[r][Len(columns) + 1] = value[r]
  <2> TAKE r \in 1 .. Len(rows)
  <2>1. PICK row \in Seq(Cells), v \in Cells : row = rows[r] /\ v = value[r] /\ Len(row) = Len(columns)
    BY <1>4, <1>5, <1>6
  <2>2. longer[r] = Append(row, v)
    BY <1>7, <2>1
  <2>3. /\ Append(row, v) \in Seq(Cells) /\ Len(Append(row, v)) = Len(row) + 1
        /\ \A i \in 1 .. Len(row) : Append(row, v)[i] = row[i]
        /\ Append(row, v)[Len(row) + 1] = v
    BY Appended
  <2>4. PICK next : next = Append(row, v)
    OBVIOUS
  <2>5. next \in Seq(Cells) /\ Len(next) = Len(columns) + 1
    BY <2>1, <2>3, <2>4
  <2>6. \A i \in 1 .. Len(columns) : next[i] = rows[r][i]
    BY <2>1, <2>3, <2>4
  <2>7. next[Len(columns) + 1] = value[r]
    BY <2>1, <2>3, <2>4
  <2>8. longer[r] = next
    BY <2>2, <2>4
  <2> QED
    BY <2>5, <2>6, <2>7, <2>8
<1>10. longer \in Seq(Seq(Cells)) /\ Len(longer) = Len(rows)
  BY <1>7, <1>9
<1>11. PICK more : more = Append(columns, q)
  OBVIOUS
<1>12. /\ more \in Seq(Properties) /\ Len(more) = Len(columns) + 1
       /\ \A i \in 1 .. Len(columns) : more[i] = columns[i]
       /\ more[Len(columns) + 1] = q
  BY <1>11, Appended
<1>13. PICK w : w = WithColumn(t, p)
  OBVIOUS
<1>14. w.columns = more /\ w.rows = longer /\ w.exists = exists
  BY <1>8, <1>11, <1>13
<1>15. w \in Tables
  <2>1. w = [columns |-> more, rows |-> longer, exists |-> exists]
    BY <1>8, <1>11, <1>13
  <2>2. \A r \in 1 .. Len(longer) : Len(longer[r]) = Len(more)
    BY <1>9, <1>10, <1>12
  <2> QED
    BY <1>10, <1>12, <2>1, <2>2, TableOf
<1>16. /\ w.exists = t.exists /\ Len(w.rows) = Len(t.rows)
       /\ Len(w.columns) = Len(t.columns) + 1
       /\ \A i \in 1 .. Len(t.columns) : w.columns[i] = t.columns[i]
       /\ w.columns[Len(t.columns) + 1] = q
  BY <1>5, <1>10, <1>12, <1>14
<1>17. \A r \in 1 .. Len(t.rows), i \in 1 .. Len(t.columns) : w.rows[r][i] = t.rows[r][i]
  BY <1>5, <1>9, <1>14
<1>18. \A r \in 1 .. Len(t.rows) : w.rows[r][Len(t.columns) + 1] = CopiedValue(t, p, r)
  BY <1>4, <1>5, <1>9, <1>14
<1>19. w.columns[Len(t.columns) + 1] = [p EXCEPT !.indexed = FALSE]
  BY <1>1, <1>16
<1> QED
  BY <1>13, <1>15, <1>16, <1>17, <1>18, <1>19, Zenon

(* remove_column: the cells behind it move up in every row.                 *)
LEMMA ColumnRemoved ==
  ASSUME NEW t \in Tables, NEW i \in 1 .. Len(t.columns)
  PROVE  /\ WithoutColumn(t, i) \in Tables
         /\ WithoutColumn(t, i).exists = t.exists
         /\ Len(WithoutColumn(t, i).rows) = Len(t.rows)
         /\ Len(WithoutColumn(t, i).columns) = Len(t.columns) - 1
         /\ \A j \in 1 .. Len(t.columns) - 1 :
              WithoutColumn(t, i).columns[j] = IF j < i THEN t.columns[j] ELSE t.columns[j + 1]
         /\ \A r \in 1 .. Len(t.rows), j \in 1 .. Len(t.columns) - 1 :
              WithoutColumn(t, i).rows[r][j] = IF j < i THEN t.rows[r][j] ELSE t.rows[r][j + 1]
<1>1. PICK columns \in Seq(Properties), rows \in Seq(Seq(Cells)), exists \in BOOLEAN :
        /\ t.columns = columns /\ t.rows = rows /\ t.exists = exists
        /\ t = [columns |-> columns, rows |-> rows, exists |-> exists]
  BY TableFacts
<1>2. \A r \in 1 .. Len(rows) : rows[r] \in Seq(Cells) /\ Len(rows[r]) = Len(columns)
  BY <1>1, TableFacts
<1>3. PICK shorter : shorter = [r \in 1 .. Len(rows) |-> RemoveAt(rows[r], i)]
  OBVIOUS
<1>4. PICK fewer : fewer = RemoveAt(columns, i)
  OBVIOUS
<1>5. WithoutColumn(t, i) = [columns |-> fewer, rows |-> shorter, exists |-> exists]
  <2>1. DOMAIN rows = 1 .. Len(rows)
    OBVIOUS
  <2> QED
    <3>1. PICK u : u = [t EXCEPT !.columns = fewer, !.rows = shorter]
      OBVIOUS
    <3>2. u = [columns |-> fewer, rows |-> shorter, exists |-> exists]
      BY <1>1, <3>1
    <3>3. shorter = [r \in DOMAIN t.rows |-> RemoveAt(t.rows[r], i)]
      BY <1>1, <1>3, <2>1
    <3>4. fewer = RemoveAt(t.columns, i)
      BY <1>1, <1>4
    <3> QED
      BY <3>1, <3>2, <3>3, <3>4, Zenon DEF WithoutColumn
<1>6. i \in 1 .. Len(columns)
  BY <1>1
<1>7. /\ fewer \in Seq(Properties) /\ Len(fewer) = Len(columns) - 1
      /\ \A j \in 1 .. Len(columns) - 1 : fewer[j] = IF j < i THEN columns[j] ELSE columns[j + 1]
  BY <1>4, <1>6, Removed
<1>8. ASSUME NEW r \in 1 .. Len(rows)
      PROVE  /\ shorter[r] \in Seq(Cells) /\ Len(shorter[r]) = Len(columns) - 1
             /\ \A j \in 1 .. Len(columns) - 1 :
                  shorter[r][j] = IF j < i THEN rows[r][j] ELSE rows[r][j + 1]
  <2>1. shorter[r] = RemoveAt(rows[r], i) /\ rows[r] \in Seq(Cells) /\ Len(rows[r]) = Len(columns)
    BY <1>2, <1>3
  <2>2. i \in 1 .. Len(rows[r])
    BY <1>6, <2>1
  <2> QED
    BY <2>1, <2>2, Removed
<1>9. shorter \in Seq(Seq(Cells)) /\ Len(shorter) = Len(rows)
  BY <1>3, <1>8
<1>10. WithoutColumn(t, i) \in Tables
  BY <1>5, <1>7, <1>8, <1>9, TableOf
<1>11. WithoutColumn(t, i).columns = fewer /\ WithoutColumn(t, i).rows = shorter
       /\ WithoutColumn(t, i).exists = exists
  BY <1>5
<1> QED
  BY <1>1, <1>7, <1>8, <1>9, <1>10, <1>11

-----------------------------------------------------------------------------
(* create_tables, one table: what the loop over the properties adds. *)

Distinct(items) ==
  \A i, k \in 1 .. Len(items) : items[i].name = items[k].name => i = k

(* The columns behind those of t. *)
Behind(t, a) == Len(t.columns) + 1 .. Len(a.columns)

KeepsColumns(t, a) ==
  /\ a \in Tables /\ a.exists = t.exists /\ Len(a.rows) = Len(t.rows)
  /\ Len(t.columns) <= Len(a.columns)
  /\ \A i \in 1 .. Len(t.columns) : a.columns[i] = t.columns[i]
  /\ \A r \in 1 .. Len(t.rows), i \in 1 .. Len(t.columns) : a.rows[r][i] = t.rows[r][i]

(* The column j of a is the one of the property p. *)
IsColumnOf(t, a, j, p) ==
  /\ IsNew(t.columns, p)
  /\ a.columns[j] = [p EXCEPT !.indexed = FALSE]
  /\ \A r \in 1 .. Len(t.rows) : a.rows[r][j] = CopiedValue(t, p, r)

(* After the first n properties. *)
Added(t, a, properties, n) ==
  /\ KeepsColumns(t, a)
  /\ \A j \in Behind(t, a) : \E k \in 1 .. n : IsColumnOf(t, a, j, properties[k])
  /\ \A k \in 1 .. n :
       IsNew(t.columns, properties[k]) => \E j \in Behind(t, a) : IsColumnOf(t, a, j, properties[k])
  /\ \A i, j \in Behind(t, a) : a.columns[i].name = a.columns[j].name => i = j

(* The copy takes the old column, whatever was added before it.             *)
LEMMA CopiesTheOld ==
  ASSUME NEW t \in Tables, NEW a, NEW properties \in Seq(Properties), Distinct(properties),
         NEW n \in Nat, n + 1 <= Len(properties), Added(t, a, properties, n),
         NEW r \in 1 .. Len(t.rows)
  PROVE  CopiedValue(a, properties[n + 1], r) = CopiedValue(t, properties[n + 1], r)
<1>1. PICK p \in Properties : p = properties[n + 1]
  <2>1. n + 1 \in 1 .. Len(properties)
    OBVIOUS
  <2> QED
    BY <2>1
<1>2. KeepsColumns(t, a)
  BY DEF Added
<1>3. /\ a \in Tables /\ Len(t.columns) <= Len(a.columns)
      /\ \A i \in 1 .. Len(t.columns) : a.columns[i] = t.columns[i]
      /\ \A i \in 1 .. Len(t.columns) : a.rows[r][i] = t.rows[r][i]
  BY <1>2 DEF KeepsColumns
<1>4. PICK old \in 0 .. Len(t.columns) : old = PlaceOf(t.columns, p.name)
  BY FirstOfName, TableFacts
<1>5. PICK new \in 0 .. Len(a.columns) : new = PlaceOf(a.columns, p.name)
  BY <1>3, FirstOfName, TableFacts
<1>6. /\ old # 0 => old \in 1 .. Len(t.columns) /\ t.columns[old].name = p.name
      /\ \A i \in 1 .. Len(t.columns) : t.columns[i].name = p.name => old # 0 /\ old <= i
  BY <1>4, FirstOfName, TableFacts, SMTT(30) DEF HasName
<1>7. /\ new # 0 => new \in 1 .. Len(a.columns) /\ a.columns[new].name = p.name
      /\ \A i \in 1 .. Len(a.columns) : a.columns[i].name = p.name => new # 0 /\ new <= i
  BY <1>3, <1>5, FirstOfName, TableFacts, SMTT(30) DEF HasName
<1>8. Len(t.columns) \in Nat /\ Len(a.columns) \in Nat
  BY <1>3, TableFacts
<1>9. \A j \in Behind(t, a) : a.columns[j].name # p.name
  <2> SUFFICES ASSUME NEW j \in Behind(t, a), a.columns[j].name = p.name PROVE FALSE
    OBVIOUS
  <2>1. PICK k \in 1 .. n : a.columns[j] = [properties[k] EXCEPT !.indexed = FALSE]
    BY DEF Added, IsColumnOf
  <2>2. k \in 1 .. Len(properties) /\ n + 1 \in 1 .. Len(properties)
    OBVIOUS
  <2>3. PICK q \in Properties : q = properties[k]
    BY <2>2
  <2>4. q.name = p.name
    BY <2>1, <2>3 DEF Properties
  <2> QED
    BY <1>1, <2>2, <2>3, <2>4 DEF Distinct
<1>10. new = old
  <2>1. CASE old # 0
    <3>1. old \in 1 .. Len(a.columns) /\ a.columns[old].name = p.name
      BY <1>3, <1>6, <1>8, <2>1
    <3>2. new # 0 /\ new <= old
      BY <1>7, <3>1
    <3>3. new \in 1 .. Len(t.columns)
      BY <1>6, <2>1, <3>2
    <3>4. t.columns[new].name = p.name
      BY <1>3, <1>7, <3>2, <3>3
    <3> QED
      BY <1>6, <3>2, <3>3, <3>4
  <2>2. CASE old = 0
    <3>1. \A i \in 1 .. Len(a.columns) : i \in 1 .. Len(t.columns) \/ i \in Behind(t, a)
      BY <1>8 DEF Behind
    <3>2. \A i \in 1 .. Len(a.columns) : a.columns[i].name # p.name
      BY <1>3, <1>6, <1>9, <2>2, <3>1
    <3> QED
      BY <1>7, <2>2, <3>2
  <2> QED
    BY <2>1, <2>2
<1>11. CASE old = 0
  BY <1>1, <1>4, <1>5, <1>10, <1>11 DEF CopiedValue
<1>12. CASE old # 0
  <2>1. a.columns[old] = t.columns[old] /\ a.rows[r][old] = t.rows[r][old]
    BY <1>3, <1>6, <1>12
  <2> QED
    BY <1>1, <1>4, <1>5, <1>10, <2>1 DEF CopiedValue
<1> QED
  BY <1>11, <1>12

LEMMA OneMoreAdded ==
  ASSUME NEW t \in Tables, NEW a, NEW properties \in Seq(Properties), Distinct(properties),
         NEW n \in Nat, n + 1 <= Len(properties), Added(t, a, properties, n),
         IsNew(t.columns, properties[n + 1])
  PROVE  Added(t, WithColumn(a, properties[n + 1]), properties, n + 1)
<1>1. PICK p \in Properties : p = properties[n + 1]
  <2>1. n + 1 \in 1 .. Len(properties)
    OBVIOUS
  <2> QED
    BY <2>1
<1>2. KeepsColumns(t, a)
  BY DEF Added
<1>3. a \in Tables /\ a.exists = t.exists /\ Len(a.rows) = Len(t.rows)
      /\ Len(t.columns) <= Len(a.columns)
  BY <1>2 DEF KeepsColumns
<1>4. PICK w : w = WithColumn(a, p)
  OBVIOUS
<1>5. /\ w \in Tables /\ w.exists = a.exists /\ Len(w.rows) = Len(a.rows)
      /\ Len(w.columns) = Len(a.columns) + 1
      /\ \A i \in 1 .. Len(a.columns) : w.columns[i] = a.columns[i]
      /\ w.columns[Len(a.columns) + 1] = [p EXCEPT !.indexed = FALSE]
      /\ \A r \in 1 .. Len(a.rows), i \in 1 .. Len(a.columns) : w.rows[r][i] = a.rows[r][i]
      /\ \A r \in 1 .. Len(a.rows) : w.rows[r][Len(a.columns) + 1] = CopiedValue(a, p, r)
  <2>1. WithColumn(a, p) \in Tables /\ WithColumn(a, p).exists = a.exists
    BY <1>3, ColumnAdded
  <2>2. /\ Len(WithColumn(a, p).rows) = Len(a.rows)
        /\ Len(WithColumn(a, p).columns) = Len(a.columns) + 1
    BY <1>3, ColumnAdded
  <2>3. \A i \in 1 .. Len(a.columns) : WithColumn(a, p).columns[i] = a.columns[i]
    BY <1>3, ColumnAdded
  <2>4. WithColumn(a, p).columns[Len(a.columns) + 1] = [p EXCEPT !.indexed = FALSE]
    BY <1>3, ColumnAdded
  <2>5. \A r \in 1 .. Len(a.rows), i \in 1 .. Len(a.columns) :
          WithColumn(a, p).rows[r][i] = a.rows[r][i]
    BY <1>3, ColumnAdded
  <2>6. \A r \in 1 .. Len(a.rows) :
          WithColumn(a, p).rows[r][Len(a.columns) + 1] = CopiedValue(a, p, r)
    BY <1>3, ColumnAdded
  <2> QED
    BY <1>4, <2>1, <2>2, <2>3, <2>4, <2>5, <2>6
<1>6. PICK L \in Nat : L = Len(t.columns)
  BY TableFacts
<1>7. PICK M \in Nat : M = Len(a.columns)
  BY <1>3, TableFacts
<1>8. PICK R \in Nat : R = Len(t.rows)
  BY TableFacts
<1>9. KeepsColumns(t, w)
  <2>1. \A i \in 1 .. L : i \in 1 .. M
    BY <1>3, <1>6, <1>7
  <2>2. \A i \in 1 .. L : w.columns[i] = t.columns[i]
    BY <1>2, <1>5, <1>6, <1>7, <2>1 DEF KeepsColumns
  <2>3. \A r \in 1 .. R, i \in 1 .. L : w.rows[r][i] = t.rows[r][i]
    BY <1>2, <1>3, <1>5, <1>6, <1>7, <1>8, <2>1, SMTT(30) DEF KeepsColumns
  <2>4. Len(t.columns) <= Len(w.columns)
    BY <1>3, <1>5, <1>6, <1>7
  <2> QED
    BY <1>3, <1>5, <1>6, <1>8, <2>2, <2>3, <2>4 DEF KeepsColumns
<1>10. Behind(t, a) = L + 1 .. M /\ Behind(t, w) = L + 1 .. M + 1
  BY <1>5, <1>6, <1>7 DEF Behind
<1>11. \A j \in L + 1 .. M : \A q : IsColumnOf(t, a, j, q) => IsColumnOf(t, w, j, q)
  <2> SUFFICES ASSUME NEW j \in L + 1 .. M, NEW q, IsColumnOf(t, a, j, q)
               PROVE  IsColumnOf(t, w, j, q)
    OBVIOUS
  <2>1. j \in 1 .. M
    BY <1>6
  <2>2. w.columns[j] = a.columns[j]
    BY <1>5, <1>7, <2>1
  <2>3. \A r \in 1 .. R : w.rows[r][j] = a.rows[r][j]
    BY <1>3, <1>5, <1>7, <1>8, <2>1
  <2> QED
    BY <1>8, <2>2, <2>3 DEF IsColumnOf
<1>12. IsColumnOf(t, w, M + 1, p)
  <2>1. \A r \in 1 .. Len(t.rows) : CopiedValue(a, p, r) = CopiedValue(t, p, r)
    BY <1>1, CopiesTheOld
  <2> QED
    BY <1>1, <1>3, <1>5, <1>7, <2>1 DEF IsColumnOf
<1>13. L + 1 <= M + 1 /\ M + 1 \in L + 1 .. M + 1
  BY <1>3, <1>6, <1>7
<1>14. \A j \in L + 1 .. M + 1 : j = M + 1 \/ j \in L + 1 .. M
  BY <1>6, <1>7
<1>15. \A k \in 1 .. n + 1 : k = n + 1 \/ k \in 1 .. n
  OBVIOUS
<1>16. \A j \in Behind(t, w) : \E k \in 1 .. n + 1 : IsColumnOf(t, w, j, properties[k])
  <2> TAKE j \in Behind(t, w)
  <2>1. CASE j = M + 1
    BY <1>1, <1>12, <2>1
  <2>2. CASE j \in L + 1 .. M
    <3>1. PICK k \in 1 .. n : IsColumnOf(t, a, j, properties[k])
      BY <1>10, <2>2 DEF Added
    <3>2. k \in 1 .. n + 1
      OBVIOUS
    <3> QED
      BY <1>11, <2>2, <3>1, <3>2
  <2> QED
    BY <1>10, <1>14, <2>1, <2>2
<1>17. ASSUME NEW k \in 1 .. n + 1, IsNew(t.columns, properties[k])
       PROVE  \E j \in Behind(t, w) : IsColumnOf(t, w, j, properties[k])
  <2>1. CASE k = n + 1
    BY <1>1, <1>10, <1>12, <1>13, <2>1
  <2>2. CASE k \in 1 .. n
    <3>1. PICK j \in L + 1 .. M : IsColumnOf(t, a, j, properties[k])
      BY <1>10, <1>17, <2>2 DEF Added
    <3>2. j \in L + 1 .. M + 1
      BY <1>6, <1>7
    <3> QED
      BY <1>10, <1>11, <3>1, <3>2
  <2> QED
    BY <1>15, <2>1, <2>2
<1>18. \A j \in L + 1 .. M : w.columns[j].name # p.name
  <2> SUFFICES ASSUME NEW j \in L + 1 .. M, w.columns[j].name = p.name PROVE FALSE
    OBVIOUS
  <2>1. PICK k \in 1 .. n : IsColumnOf(t, w, j, properties[k])
    BY <1>10, <1>11 DEF Added
  <2>2. k \in 1 .. Len(properties) /\ n + 1 \in 1 .. Len(properties)
    OBVIOUS
  <2>3. PICK q \in Properties : q = properties[k]
    BY <2>2
  <2>4. q.name = p.name
    BY <2>1, <2>3 DEF Properties, IsColumnOf
  <2> QED
    BY <1>1, <2>2, <2>3, <2>4 DEF Distinct
<1>19. w.columns[M + 1].name = p.name
  BY <1>5, <1>7 DEF Properties
<1>20. \A i, j \in L + 1 .. M : w.columns[i].name = w.columns[j].name => i = j
  <2> TAKE i, j \in L + 1 .. M
  <2>1. i \in 1 .. M /\ j \in 1 .. M
    BY <1>6
  <2>2. w.columns[i] = a.columns[i] /\ w.columns[j] = a.columns[j]
    BY <1>5, <1>7, <2>1
  <2> QED
    BY <1>10, <2>2 DEF Added
<1>21. \A i, j \in Behind(t, w) : w.columns[i].name = w.columns[j].name => i = j
  BY <1>10, <1>14, <1>18, <1>19, <1>20
<1> QED
  BY <1>1, <1>4, <1>9, <1>16, <1>17, <1>21 DEF Added

LEMMA NothingAdded == ASSUME NEW t \in Tables, NEW properties PROVE Added(t, t, properties, 0)
<1>1. Len(t.columns) \in Nat
  BY TableFacts
<1>2. Behind(t, t) = {}
  BY <1>1 DEF Behind
<1>3. KeepsColumns(t, t)
  BY <1>1 DEF KeepsColumns
<1> QED
  BY <1>2, <1>3 DEF Added

LEMMA NoneAdded ==
  ASSUME NEW t, NEW a, NEW properties, NEW n \in Nat, Added(t, a, properties, n),
         ~IsNew(t.columns, properties[n + 1])
  PROVE  Added(t, a, properties, n + 1)
<1>1. \A k \in 1 .. n + 1 : k = n + 1 \/ k \in 1 .. n
  OBVIOUS
<1>2. \A k \in 1 .. n : k \in 1 .. n + 1
  OBVIOUS
<1>3. \A j \in Behind(t, a) : \E k \in 1 .. n + 1 : IsColumnOf(t, a, j, properties[k])
  BY <1>2 DEF Added
<1>4. \A k \in 1 .. n + 1 :
        IsNew(t.columns, properties[k]) => \E j \in Behind(t, a) : IsColumnOf(t, a, j, properties[k])
  BY <1>1 DEF Added
<1> QED
  BY <1>3, <1>4 DEF Added

LEMMA AllAdded ==
  ASSUME NEW t \in Tables, NEW class, class.properties \in Seq(Properties),
         Distinct(class.properties)
  PROVE  Added(t, AddColumns(t, class), class.properties, Len(class.properties))
<1> DEFINE P == class.properties
           L == Len(class.properties)
           after == CHOOSE f : f = [n \in 0 .. L |->
                      IF n = 0 THEN t
                      ELSE IF IsNew(t.columns, P[n]) THEN WithColumn(f[n - 1], P[n]) ELSE f[n - 1]]
<1>1. AddColumns(t, class) = after[L]
  BY DEF AddColumns
<1>2. PICK Q \in Seq(Properties) : Q = P
  OBVIOUS
<1>3. PICK l \in Nat : l = L
  OBVIOUS
<1> HIDE DEF P, L
<1>4. l = Len(Q)
  BY <1>2, <1>3 DEF P, L
<1>5. PICK step : step = [n \in 1 .. l |-> [s \in Tables |->
                            IF IsNew(t.columns, Q[n]) THEN WithColumn(s, Q[n]) ELSE s]]
  OBVIOUS
<1>6. StaysIn(Tables, l, step)
  <2>1. \A n \in 1 .. l, s \in Tables : WithColumn(s, Q[n]) \in Tables
    <3> SUFFICES ASSUME NEW n \in 1 .. l, NEW s \in Tables PROVE WithColumn(s, Q[n]) \in Tables
      OBVIOUS
    <3>1. Q[n] \in Properties
      BY <1>4
    <3> QED
      BY <3>1, ColumnAdded
  <2> QED
    BY <1>5, <2>1 DEF StaysIn
<1>7. PICK f \in [0 .. l -> Tables] :
        f[0] = t /\ \A n \in 1 .. l : f[n] = step[n][f[n - 1]]
  <2>1. HasIteration(Tables, l, t, step)
    BY <1>6, Iterated
  <2> QED
    BY <2>1 DEF HasIteration
<1>8. f = [n \in 0 .. L |->
             IF n = 0 THEN t
             ELSE IF IsNew(t.columns, P[n]) THEN WithColumn(f[n - 1], P[n]) ELSE f[n - 1]]
  <2>1. \A n \in 0 .. l : n # 0 => n \in 1 .. l /\ n - 1 \in 0 .. l
    OBVIOUS
  <2>2. \A n \in 0 .. l : n # 0 => step[n][f[n - 1]] =
          IF IsNew(t.columns, Q[n]) THEN WithColumn(f[n - 1], Q[n]) ELSE f[n - 1]
    BY <1>5, <1>7, <2>1
  <2>3. \A n \in 0 .. l : f[n] =
          IF n = 0 THEN t
          ELSE IF IsNew(t.columns, Q[n]) THEN WithColumn(f[n - 1], Q[n]) ELSE f[n - 1]
    BY <1>7, <2>2
  <2> QED
    BY <1>2, <1>3, <1>7, <2>3
<1>9. after = [n \in 0 .. L |->
                 IF n = 0 THEN t
                 ELSE IF IsNew(t.columns, P[n]) THEN WithColumn(after[n - 1], P[n]) ELSE after[n - 1]]
  BY <1>8
<1>10. PICK h : h = after
  OBVIOUS
<1>11. h[0] = t /\ \A n \in 0 .. l : n # 0 =>
         h[n] = IF IsNew(t.columns, Q[n]) THEN WithColumn(h[n - 1], Q[n]) ELSE h[n - 1]
  <2>1. h = [n \in 0 .. l |->
               IF n = 0 THEN t
               ELSE IF IsNew(t.columns, Q[n]) THEN WithColumn(h[n - 1], Q[n]) ELSE h[n - 1]]
    BY <1>2, <1>3, <1>9, <1>10
  <2>2. 0 \in 0 .. l
    OBVIOUS
  <2> QED
    BY <2>1, <2>2
<1>12. PICK K : K = {k \in Nat : k <= l => Added(t, h[k], Q, k)}
  OBVIOUS
<1>13. 0 \in K
  BY <1>11, <1>12, NothingAdded
<1>14. ASSUME NEW k \in Nat, k \in K PROVE k + 1 \in K
  <2>1. SUFFICES ASSUME k + 1 <= l PROVE Added(t, h[k + 1], Q, k + 1)
    BY <1>12
  <2>2. k <= l /\ k + 1 \in 0 .. l /\ k + 1 # 0 /\ (k + 1) - 1 = k
    BY <2>1
  <2>3. Added(t, h[k], Q, k)
    BY <1>12, <1>14, <2>2
  <2>4. h[k + 1] = IF IsNew(t.columns, Q[k + 1]) THEN WithColumn(h[k], Q[k + 1]) ELSE h[k]
    BY <1>11, <2>2
  <2>5. Distinct(Q)
    BY <1>2 DEF P
  <2>6. CASE IsNew(t.columns, Q[k + 1])
    <3>1. Added(t, WithColumn(h[k], Q[k + 1]), Q, k + 1)
      BY <1>4, <2>1, <2>3, <2>5, <2>6, OneMoreAdded
    <3> QED
      BY <2>4, <2>6, <3>1
  <2>7. CASE ~IsNew(t.columns, Q[k + 1])
    <3>1. Added(t, h[k], Q, k + 1)
      BY <2>3, <2>7, NoneAdded
    <3> QED
      BY <2>4, <2>7, <3>1
  <2> QED
    BY <2>6, <2>7
<1>15. l \in K
  BY <1>13, <1>14, SetInduction
<1>16. Added(t, h[l], Q, l)
  BY <1>12, <1>15
<1> QED
  BY <1>1, <1>2, <1>3, <1>10, <1>16 DEF P, L

-----------------------------------------------------------------------------
(* create_tables, one table: what the loop over the old columns removes. *)

(* Where each column of u was in a. *)
Follows(a, u, g) ==
  /\ g \in [1 .. Len(u.columns) -> 1 .. Len(a.columns)]
  /\ \A j, k \in 1 .. Len(u.columns) : g[j] = g[k] => j = k
  /\ \A j \in 1 .. Len(u.columns) : u.columns[j] = a.columns[g[j]]
  /\ \A r \in 1 .. Len(a.rows), j \in 1 .. Len(u.columns) : u.rows[r][j] = a.rows[r][g[j]]

(* u is a without the columns that are gone; the first ones are where they  *)
(* were.                                                                    *)
Placed(a, u, gone, intact, g) ==
  /\ Follows(a, u, g)
  /\ \A j \in 1 .. Len(u.columns) : g[j] \notin gone
  /\ \A m \in 1 .. Len(a.columns) : m \notin gone => \E j \in 1 .. Len(u.columns) : g[j] = m
  /\ \A i \in 1 .. intact : i \in 1 .. Len(u.columns) /\ g[i] = i

Without(a, u, gone, intact) ==
  /\ u \in Tables /\ u.exists = a.exists /\ Len(u.rows) = Len(a.rows)
  /\ \E g : Placed(a, u, gone, intact, g)

LEMMA NothingRemoved ==
  ASSUME NEW a \in Tables, NEW intact \in 0 .. Len(a.columns)
  PROVE  Without(a, a, {}, intact)
<1>1. PICK L \in Nat : L = Len(a.columns)
  BY TableFacts
<1>2. PICK g : g = [j \in 1 .. L |-> j]
  OBVIOUS
<1>3. Follows(a, a, g)
  BY <1>1, <1>2 DEF Follows
<1>4. Placed(a, a, {}, intact, g)
  BY <1>1, <1>2, <1>3 DEF Placed
<1> QED
  BY <1>4 DEF Without

LEMMA LessIntact ==
  ASSUME NEW a, NEW u, NEW gone, NEW i \in Nat, Without(a, u, gone, i + 1)
  PROVE  Without(a, u, gone, i)
<1>1. PICK g : Placed(a, u, gone, i + 1, g)
  BY DEF Without
<1>2. \A k \in 1 .. i : k \in 1 .. i + 1
  OBVIOUS
<1>3. Placed(a, u, gone, i, g)
  BY <1>1, <1>2 DEF Placed
<1> QED
  BY <1>3 DEF Without

LEMMA OneMoreRemoved ==
  ASSUME NEW a \in Tables, NEW u, NEW gone, NEW i \in Nat, Without(a, u, gone, i + 1)
  PROVE  Without(a, WithoutColumn(u, i + 1), gone \cup {i + 1}, i)
<1>1. PICK g : Placed(a, u, gone, i + 1, g)
  BY DEF Without
<1>2. u \in Tables /\ u.exists = a.exists /\ Len(u.rows) = Len(a.rows)
  BY DEF Without
<1>3. PICK L \in Nat : L = Len(u.columns)
  BY <1>2, TableFacts
<1>4. PICK M \in Nat : M = Len(a.columns)
  BY TableFacts
<1>5. PICK R \in Nat : R = Len(a.rows)
  BY TableFacts
<1>6. /\ g \in [1 .. L -> 1 .. M]
      /\ \A j, k \in 1 .. L : g[j] = g[k] => j = k
      /\ \A j \in 1 .. L : u.columns[j] = a.columns[g[j]]
      /\ \A r \in 1 .. R, j \in 1 .. L : u.rows[r][j] = a.rows[r][g[j]]
  BY <1>1, <1>3, <1>4, <1>5 DEF Placed, Follows
<1>7. /\ \A j \in 1 .. L : g[j] \notin gone
      /\ \A m \in 1 .. M : m \notin gone => \E j \in 1 .. L : g[j] = m
      /\ \A k \in 1 .. i + 1 : k \in 1 .. L /\ g[k] = k
  BY <1>1, <1>3, <1>4 DEF Placed
<1>8. i + 1 \in 1 .. L /\ g[i + 1] = i + 1
  BY <1>7
<1>9. PICK w : w = WithoutColumn(u, i + 1)
  OBVIOUS
<1>10. i + 1 \in 1 .. Len(u.columns)
  BY <1>3, <1>8
<1>11. w \in Tables /\ w.exists = u.exists /\ Len(w.rows) = Len(u.rows)
  BY <1>2, <1>9, <1>10, ColumnRemoved
<1>12. Len(w.columns) = L - 1
  BY <1>2, <1>3, <1>9, <1>10, ColumnRemoved
<1>13. \A j \in 1 .. L - 1 :
         w.columns[j] = IF j < i + 1 THEN u.columns[j] ELSE u.columns[j + 1]
  BY <1>2, <1>3, <1>9, <1>10, ColumnRemoved
<1>14. \A r \in 1 .. R, j \in 1 .. L - 1 :
         w.rows[r][j] = IF j < i + 1 THEN u.rows[r][j] ELSE u.rows[r][j + 1]
  BY <1>2, <1>3, <1>5, <1>9, <1>10, ColumnRemoved
<1>15. PICK old : old = [j \in 1 .. L - 1 |-> IF j < i + 1 THEN j ELSE j + 1]
  OBVIOUS
<1>16. /\ \A j \in 1 .. L - 1 : old[j] \in 1 .. L /\ old[j] # i + 1
       /\ \A j, k \in 1 .. L - 1 : old[j] = old[k] => j = k
       /\ \A m \in 1 .. L : m # i + 1 => \E j \in 1 .. L - 1 : old[j] = m
  <2>1. \A j \in 1 .. L - 1 : old[j] \in 1 .. L /\ old[j] # i + 1
    BY <1>15
  <2>2. \A j, k \in 1 .. L - 1 : old[j] = old[k] => j = k
    BY <1>15
  <2>3. ASSUME NEW m \in 1 .. L, m # i + 1 PROVE \E j \in 1 .. L - 1 : old[j] = m
    <3>1. CASE m < i + 1
      <4>1. m \in 1 .. L - 1
        BY <1>8, <3>1
      <4> QED
        BY <1>15, <3>1, <4>1
    <3>2. CASE m > i + 1
      <4>1. m - 1 \in 1 .. L - 1 /\ ~(m - 1 < i + 1) /\ (m - 1) + 1 = m
        BY <3>2
      <4> QED
        BY <1>15, <4>1
    <3> QED
      BY <2>3, <3>1, <3>2
  <2> QED
    BY <2>1, <2>2, <2>3
<1>17. PICK h : h = [j \in 1 .. L - 1 |-> g[old[j]]]
  OBVIOUS
<1>18. \A j \in 1 .. L - 1 : w.columns[j] = u.columns[old[j]]
  BY <1>13, <1>15
<1>19. \A r \in 1 .. R, j \in 1 .. L - 1 : w.rows[r][j] = u.rows[r][old[j]]
  BY <1>14, <1>15
<1>20. Follows(a, w, h)
  <2>1. h \in [1 .. L - 1 -> 1 .. M]
    BY <1>6, <1>16, <1>17
  <2>2. \A j, k \in 1 .. L - 1 : h[j] = h[k] => j = k
    BY <1>6, <1>16, <1>17
  <2>3. \A j \in 1 .. L - 1 : w.columns[j] = a.columns[h[j]]
    BY <1>6, <1>16, <1>17, <1>18
  <2>4. \A r \in 1 .. R, j \in 1 .. L - 1 : w.rows[r][j] = a.rows[r][h[j]]
    <3> SUFFICES ASSUME NEW r \in 1 .. R, NEW j \in 1 .. L - 1
                 PROVE  w.rows[r][j] = a.rows[r][h[j]]
      OBVIOUS
    <3>1. old[j] \in 1 .. L /\ h[j] = g[old[j]]
      BY <1>16, <1>17
    <3>2. w.rows[r][j] = u.rows[r][old[j]]
      BY <1>19
    <3> QED
      BY <1>6, <3>1, <3>2
  <2> QED
    BY <1>4, <1>5, <1>12, <2>1, <2>2, <2>3, <2>4 DEF Follows
<1>21. \A j \in 1 .. L - 1 : h[j] \notin gone \cup {i + 1}
  <2> TAKE j \in 1 .. L - 1
  <2>1. old[j] \in 1 .. L /\ old[j] # i + 1 /\ h[j] = g[old[j]]
    BY <1>16, <1>17
  <2>2. g[old[j]] # i + 1
    BY <1>6, <1>8, <2>1
  <2> QED
    BY <1>7, <2>1, <2>2
<1>22. ASSUME NEW m \in 1 .. M, m \notin gone \cup {i + 1}
       PROVE  \E j \in 1 .. L - 1 : h[j] = m
  <2>1. PICK k \in 1 .. L : g[k] = m
    BY <1>7, <1>22
  <2>2. k # i + 1
    BY <1>8, <1>22, <2>1
  <2>3. PICK j \in 1 .. L - 1 : old[j] = k
    BY <1>16, <2>2
  <2> QED
    BY <1>17, <2>1, <2>3
<1>23. \A k \in 1 .. i : k \in 1 .. L - 1 /\ h[k] = k
  <2> TAKE k \in 1 .. i
  <2>1. k \in 1 .. L - 1 /\ k < i + 1 /\ k \in 1 .. i + 1
    BY <1>8
  <2>2. old[k] = k
    BY <1>15, <2>1
  <2> QED
    BY <1>7, <1>17, <2>1, <2>2
<1>24. Placed(a, w, gone \cup {i + 1}, i, h)
  BY <1>4, <1>12, <1>20, <1>21, <1>22, <1>23 DEF Placed
<1> QED
  BY <1>2, <1>9, <1>11, <1>24 DEF Without

(* The extra ones of the last n columns. *)
ExtraOf(columns, class, n) ==
  {i \in Len(columns) + 1 - n .. Len(columns) : IsExtra(columns[i], class)}

(* As they go by falling place, each is still where it was when it is its   *)
(* turn.                                                                    *)
LEMMA Falling ==
  ASSUME NEW a \in Tables, NEW columns \in Seq(Properties), NEW class,
         NEW l \in Nat, l = Len(columns), l <= Len(a.columns),
         NEW h, h[0] = a,
         \A n \in 0 .. l - 1 :
           l - n \in 1 .. Len(h[n].columns) =>
             h[n + 1] = IF IsExtra(columns[l - n], class) THEN WithoutColumn(h[n], l - n) ELSE h[n]
  PROVE  \A n \in 0 .. l :
           /\ Without(a, h[n], ExtraOf(columns, class, n), l - n)
           /\ n # l => l - n \in 1 .. Len(h[n].columns)
<1>1. PICK K : K = {k \in Nat : k <= l => Without(a, h[k], ExtraOf(columns, class, k), l - k)}
  OBVIOUS
<1>2. 0 \in K
  <2>1. ExtraOf(columns, class, 0) = {}
    BY DEF ExtraOf
  <2>2. l - 0 = l /\ l \in 0 .. Len(a.columns)
    BY TableFacts
  <2>3. Without(a, a, {}, l)
    BY <2>2, NothingRemoved
  <2> QED
    BY <1>1, <2>1, <2>2, <2>3
<1>3. ASSUME NEW n \in 0 .. l, n # l, Without(a, h[n], ExtraOf(columns, class, n), l - n)
      PROVE  l - n \in 1 .. Len(h[n].columns)
  <2>1. PICK g : Placed(a, h[n], ExtraOf(columns, class, n), l - n, g)
    BY <1>3 DEF Without
  <2>2. l - n \in 1 .. l - n
    BY <1>3
  <2> QED
    BY <2>1, <2>2 DEF Placed
<1>4. ASSUME NEW k \in Nat, k \in K PROVE k + 1 \in K
  <2>1. SUFFICES ASSUME k + 1 <= l
                 PROVE  Without(a, h[k + 1], ExtraOf(columns, class, k + 1), l - (k + 1))
    BY <1>1
  <2>2. PICK i \in Nat : l - k = i + 1
    <3>1. l - k - 1 \in Nat /\ l - k = (l - k - 1) + 1
      BY <2>1
    <3> QED
      BY <3>1
  <2>3. l - (k + 1) = i
    BY <2>2
  <2>4. Without(a, h[k], ExtraOf(columns, class, k), i + 1)
    BY <1>1, <1>4, <2>1, <2>2
  <2>5. k \in 0 .. l /\ k # l /\ k \in 0 .. l - 1
    BY <2>1
  <2>6. i + 1 \in 1 .. Len(h[k].columns)
    BY <1>3, <2>2, <2>4, <2>5
  <2>7. h[k + 1] = IF IsExtra(columns[i + 1], class) THEN WithoutColumn(h[k], i + 1) ELSE h[k]
    BY <2>2, <2>5, <2>6
  <2>8. \A m : m \in l + 1 - (k + 1) .. l <=> m \in l + 1 - k .. l \/ m = i + 1
    BY <2>1, <2>2
  <2>9. CASE IsExtra(columns[i + 1], class)
    <3>1. ExtraOf(columns, class, k + 1) = ExtraOf(columns, class, k) \cup {i + 1}
      BY <2>8, <2>9 DEF ExtraOf
    <3>2. Without(a, WithoutColumn(h[k], i + 1), ExtraOf(columns, class, k) \cup {i + 1}, i)
      BY <2>4, OneMoreRemoved
    <3> QED
      BY <2>3, <2>7, <2>9, <3>1, <3>2
  <2>10. CASE ~IsExtra(columns[i + 1], class)
    <3>1. ExtraOf(columns, class, k + 1) = ExtraOf(columns, class, k)
      BY <2>8, <2>10 DEF ExtraOf
    <3>2. Without(a, h[k], ExtraOf(columns, class, k), i)
      BY <2>4, LessIntact
    <3> QED
      BY <2>3, <2>7, <2>10, <3>1, <3>2
  <2> QED
    BY <2>9, <2>10
<1>5. \A k \in Nat : k \in K
  BY <1>2, <1>4, SetInduction
<1> QED
  BY <1>1, <1>3, <1>5

LEMMA AllRemoved ==
  ASSUME NEW a \in Tables, NEW columns \in Seq(Properties), Len(columns) <= Len(a.columns),
         NEW class
  PROVE  Without(a, RemoveColumns(a, columns, class), ExtraOf(columns, class, Len(columns)), 0)
<1> DEFINE L == Len(columns)
           At(n) == InRemovalOrder(columns, n)
           after == CHOOSE f : f = [n \in 0 .. L |->
                      IF n = 0 THEN a
                      ELSE IF IsExtra(columns[At(n)], class) THEN WithoutColumn(f[n - 1], At(n))
                           ELSE f[n - 1]]
<1>1. RemoveColumns(a, columns, class) = after[L]
  BY DEF RemoveColumns
<1>2. PICK l \in Nat : l = L
  OBVIOUS
<1>3. \A n \in 0 .. l - 1 : At(n + 1) = l - n
  BY <1>2 DEF InRemovalOrder
<1> HIDE DEF L, At
<1>4. l = Len(columns) /\ l <= Len(a.columns)
  BY <1>2 DEF L
<1>5. PICK step : step = [n \in 1 .. l |-> [s \in Tables |->
                            IF IsExtra(columns[At(n)], class) /\ At(n) \in 1 .. Len(s.columns)
                            THEN WithoutColumn(s, At(n)) ELSE s]]
  OBVIOUS
<1>6. StaysIn(Tables, l, step)
  <2>1. \A n \in 1 .. l, s \in Tables :
          At(n) \in 1 .. Len(s.columns) => WithoutColumn(s, At(n)) \in Tables
    BY ColumnRemoved
  <2> QED
    BY <1>5, <2>1 DEF StaysIn
<1>7. PICK f \in [0 .. l -> Tables] :
        f[0] = a /\ \A n \in 1 .. l : f[n] = step[n][f[n - 1]]
  <2>1. HasIteration(Tables, l, a, step)
    BY <1>6, Iterated
  <2> QED
    BY <2>1 DEF HasIteration
<1>8. \A n \in 0 .. l - 1 : n + 1 \in 1 .. l /\ n \in 0 .. l /\ (n + 1) - 1 = n
  OBVIOUS
<1>9. \A n \in 0 .. l - 1 : f[n + 1] =
        IF IsExtra(columns[l - n], class) /\ l - n \in 1 .. Len(f[n].columns)
        THEN WithoutColumn(f[n], l - n) ELSE f[n]
  <2> SUFFICES ASSUME NEW n \in 0 .. l - 1
               PROVE  f[n + 1] = IF IsExtra(columns[l - n], class) /\ l - n \in 1 .. Len(f[n].columns)
                                 THEN WithoutColumn(f[n], l - n) ELSE f[n]
    OBVIOUS
  <2>1. f[n + 1] = step[n + 1][f[n]] /\ f[n] \in Tables
    BY <1>7, <1>8
  <2>2. At(n + 1) = l - n
    BY <1>3
  <2> QED
    BY <1>5, <1>8, <2>1, <2>2
<1>10. \A n \in 0 .. l :
         /\ Without(a, f[n], ExtraOf(columns, class, n), l - n)
         /\ n # l => l - n \in 1 .. Len(f[n].columns)
  BY <1>4, <1>7, <1>9, Falling
<1>11. f = [n \in 0 .. L |->
              IF n = 0 THEN a
              ELSE IF IsExtra(columns[At(n)], class) THEN WithoutColumn(f[n - 1], At(n))
                   ELSE f[n - 1]]
  <2>1. ASSUME NEW n \in 0 .. l, n # 0
        PROVE  f[n] = IF IsExtra(columns[At(n)], class) THEN WithoutColumn(f[n - 1], At(n)) ELSE f[n - 1]
    <3>1. PICK k \in 0 .. l - 1 : n = k + 1
      <4>1. n - 1 \in 0 .. l - 1 /\ n = (n - 1) + 1
        BY <2>1
      <4> QED
        BY <4>1
    <3>2. l - k \in 1 .. Len(f[k].columns)
      BY <1>8, <1>10
    <3>3. At(n) = l - k /\ n - 1 = k
      BY <1>3, <3>1
    <3> QED
      BY <1>9, <3>1, <3>2, <3>3
  <2> QED
    BY <1>2, <1>7, <2>1
<1>12. after = [n \in 0 .. L |->
                  IF n = 0 THEN a
                  ELSE IF IsExtra(columns[At(n)], class) THEN WithoutColumn(after[n - 1], At(n))
                       ELSE after[n - 1]]
  BY <1>11
<1>13. PICK h : h = after
  OBVIOUS
<1>14. h = [n \in 0 .. l |->
              IF n = 0 THEN a
              ELSE IF IsExtra(columns[At(n)], class) THEN WithoutColumn(h[n - 1], At(n))
                   ELSE h[n - 1]]
  BY <1>2, <1>12, <1>13
<1>15. h[0] = a
  BY <1>14
<1>16. \A n \in 0 .. l - 1 :
         h[n + 1] = IF IsExtra(columns[l - n], class) THEN WithoutColumn(h[n], l - n) ELSE h[n]
  BY <1>3, <1>8, <1>14
<1>17. Without(a, h[l], ExtraOf(columns, class, l), l - l)
  <2>1. l \in 0 .. l
    OBVIOUS
  <2> QED
    BY <1>4, <1>15, <1>16, <2>1, Falling
<1>18. l - l = 0
  OBVIOUS
<1> QED
  BY <1>1, <1>2, <1>4, <1>13, <1>17, <1>18

-----------------------------------------------------------------------------
(* create_tables, one table: what comes out. *)

Same(q, p) == q.name = p.name /\ ~HasChanged(q, p)

(* One column for each property and no other.                               *)
Fits(columns, properties) ==
  /\ Distinct(columns)
  /\ \A j \in 1 .. Len(columns) : \E k \in 1 .. Len(properties) : Same(columns[j], properties[k])
  /\ \A k \in 1 .. Len(properties) : \E j \in 1 .. Len(columns) : Same(columns[j], properties[k])

ValuesKept(old, new) ==
  \A i \in 1 .. Len(old.columns), j \in 1 .. Len(new.columns) :
    Survives(old.columns[i], new.columns[j]) =>
      \A r \in 1 .. Len(old.rows) : new.rows[r][j] = old.rows[r][i]

(* A name that is there once is found there.                                *)
LEMMA FoundAt ==
  ASSUME NEW items \in Seq(Properties), Distinct(items), NEW i \in 1 .. Len(items)
  PROVE  /\ HasName(items, items[i].name)
         /\ PlaceOf(items, items[i].name) = i
         /\ ForName(items, items[i].name) = items[i]
<1>1. HasName(items, items[i].name)
  BY FirstOfName
<1>2. PICK k \in 1 .. Len(items) : k = PlaceOf(items, items[i].name)
  BY <1>1, FirstOfName
<1>3. items[k].name = items[i].name
  BY <1>1, <1>2, FirstOfName
<1>4. k = i
  BY <1>3 DEF Distinct
<1> QED
  BY <1>1, <1>2, <1>4 DEF ForName

LEMMA OldIsNotNew ==
  ASSUME NEW columns \in Seq(Properties), Distinct(columns), NEW p \in Properties
  PROVE  ~IsNew(columns, p) <=> \E i \in 1 .. Len(columns) : Same(columns[i], p)
<1>1. ASSUME ~IsNew(columns, p) PROVE \E i \in 1 .. Len(columns) : Same(columns[i], p)
  <2>1. HasName(columns, p.name) /\ ~HasChanged(ForName(columns, p.name), p)
    BY <1>1 DEF IsNew
  <2>2. PICK k \in 1 .. Len(columns) : k = PlaceOf(columns, p.name)
    BY <2>1, FirstOfName
  <2>3. columns[k].name = p.name
    BY <2>1, <2>2, FirstOfName
  <2>4. ForName(columns, p.name) = columns[k]
    BY <2>2 DEF ForName
  <2> QED
    BY <2>1, <2>3, <2>4 DEF Same
<1>2. ASSUME NEW i \in 1 .. Len(columns), Same(columns[i], p) PROVE ~IsNew(columns, p)
  <2>1. columns[i].name = p.name /\ ~HasChanged(columns[i], p)
    BY <1>2 DEF Same
  <2>2. HasName(columns, p.name) /\ ForName(columns, p.name) = columns[i]
    BY <2>1, FoundAt
  <2> QED
    BY <2>1, <2>2 DEF IsNew
<1> QED
  BY <1>1, <1>2

LEMMA StaysIfSame ==
  ASSUME NEW class, class.properties \in Seq(Properties), Distinct(class.properties),
         NEW q \in Properties
  PROVE  ~IsExtra(q, class) <=> \E k \in 1 .. Len(class.properties) : Same(q, class.properties[k])
<1>1. PICK P \in Seq(Properties) : P = class.properties
  OBVIOUS
<1>2. Distinct(P)
  BY <1>1
<1>3. ASSUME ~IsExtra(q, class) PROVE \E k \in 1 .. Len(P) : Same(q, P[k])
  <2>1. HasName(P, q.name) /\ ~HasChanged(q, ForName(P, q.name))
    BY <1>1, <1>3 DEF IsExtra
  <2>2. PICK k \in 1 .. Len(P) : k = PlaceOf(P, q.name)
    BY <2>1, FirstOfName
  <2>3. P[k].name = q.name
    BY <2>1, <2>2, FirstOfName
  <2>4. ForName(P, q.name) = P[k]
    BY <2>2 DEF ForName
  <2> QED
    BY <2>1, <2>3, <2>4 DEF Same
<1>4. ASSUME NEW k \in 1 .. Len(P), Same(q, P[k]) PROVE ~IsExtra(q, class)
  <2>1. q.name = P[k].name /\ ~HasChanged(q, P[k])
    BY <1>4 DEF Same
  <2>2. HasName(P, q.name) /\ ForName(P, q.name) = P[k]
    BY <1>2, <2>1, FoundAt
  <2> QED
    BY <1>1, <2>1, <2>2 DEF IsExtra
<1> QED
  BY <1>1, <1>3, <1>4

(* The table has the shape of the class, its rows, and what survives.       *)
LEMMA Brought ==
  ASSUME NEW t \in Tables, Distinct(t.columns),
         NEW class, class.properties \in Seq(Properties), Distinct(class.properties)
  PROVE  /\ UpdatedTable(t, class) \in Tables
         /\ UpdatedTable(t, class).exists = t.exists
         /\ Len(UpdatedTable(t, class).rows) = Len(t.rows)
         /\ Fits(UpdatedTable(t, class).columns, class.properties)
         /\ ValuesKept(t, UpdatedTable(t, class))
<1>1. PICK a : a = AddColumns(t, class)
  OBVIOUS
<1>2. PICK u : u = UpdatedTable(t, class)
  OBVIOUS
<1>3. PICK P \in Seq(Properties) : P = class.properties
  OBVIOUS
<1>4. PICK C \in Seq(Properties) : C = t.columns
  BY TableFacts
<1>5. Added(t, a, P, Len(P)) /\ Distinct(P) /\ Distinct(C)
  BY <1>1, <1>3, <1>4, AllAdded
<1>6. KeepsColumns(t, a)
  BY <1>5 DEF Added
<1>7. /\ a \in Tables /\ a.exists = t.exists /\ Len(a.rows) = Len(t.rows)
      /\ Len(C) <= Len(a.columns)
      /\ \A i \in 1 .. Len(C) : a.columns[i] = C[i]
      /\ \A r \in 1 .. Len(t.rows), i \in 1 .. Len(C) : a.rows[r][i] = t.rows[r][i]
  BY <1>4, <1>6 DEF KeepsColumns
<1>8. Without(a, u, ExtraOf(C, class, Len(C)), 0)
  <2>1. Without(a, RemoveColumns(a, C, class), ExtraOf(C, class, Len(C)), 0)
    BY <1>7, AllRemoved
  <2>2. u = RemoveColumns(a, C, class)
    BY <1>1, <1>2, <1>4 DEF UpdatedTable
  <2> QED
    BY <2>1, <2>2
<1>9. PICK X : X = ExtraOf(C, class, Len(C))
  OBVIOUS
<1>10. X = {i \in 1 .. Len(C) : IsExtra(C[i], class)}
  BY <1>9 DEF ExtraOf
<1>11. PICK g : Placed(a, u, X, 0, g)
  BY <1>8, <1>9 DEF Without
<1>12. u \in Tables /\ u.exists = t.exists /\ Len(u.rows) = Len(t.rows)
  BY <1>7, <1>8 DEF Without
<1>13. PICK LC \in Nat : LC = Len(C)
  OBVIOUS
<1>14. PICK LP \in Nat : LP = Len(P)
  OBVIOUS
<1>15. PICK LA \in Nat : LA = Len(a.columns)
  BY <1>7, TableFacts
<1>16. PICK LU \in Nat : LU = Len(u.columns)
  BY <1>12, TableFacts
<1>17. PICK R \in Nat : R = Len(t.rows)
  BY TableFacts
<1>18. /\ g \in [1 .. LU -> 1 .. LA]
       /\ \A j, k \in 1 .. LU : g[j] = g[k] => j = k
       /\ \A j \in 1 .. LU : u.columns[j] = a.columns[g[j]]
       /\ \A r \in 1 .. R, j \in 1 .. LU : u.rows[r][j] = a.rows[r][g[j]]
  BY <1>7, <1>11, <1>15, <1>16, <1>17 DEF Placed, Follows
<1>19. /\ \A j \in 1 .. LU : g[j] \notin X
       /\ \A m \in 1 .. LA : m \notin X => \E j \in 1 .. LU : g[j] = m
  BY <1>11, <1>15, <1>16 DEF Placed
<1>20. Behind(t, a) = LC + 1 .. LA /\ LC <= LA
  BY <1>4, <1>7, <1>13, <1>15 DEF Behind
<1>21. /\ \A j \in LC + 1 .. LA : \E k \in 1 .. LP : IsColumnOf(t, a, j, P[k])
       /\ \A k \in 1 .. LP :
            IsNew(C, P[k]) => \E j \in LC + 1 .. LA : IsColumnOf(t, a, j, P[k])
       /\ \A i, j \in LC + 1 .. LA : a.columns[i].name = a.columns[j].name => i = j
  BY <1>4, <1>5, <1>14, <1>20 DEF Added
<1>22. \A j \in LC + 1 .. LA, k \in 1 .. LP : IsColumnOf(t, a, j, P[k]) => Same(a.columns[j], P[k])
  <2> SUFFICES ASSUME NEW j \in LC + 1 .. LA, NEW k \in 1 .. LP, IsColumnOf(t, a, j, P[k])
               PROVE  Same(a.columns[j], P[k])
    OBVIOUS
  <2>1. PICK p \in Properties : p = P[k]
    BY <1>14
  <2>2. a.columns[j] = [p EXCEPT !.indexed = FALSE]
    BY <2>1 DEF IsColumnOf
  <2>3. p.name = a.columns[j].name /\ p.type = a.columns[j].type /\ p.nullable = a.columns[j].nullable
    BY <2>2 DEF Properties
  <2> QED
    BY <2>1, <2>3 DEF Same, HasChanged
<1>23. \A i \in 1 .. LC : i \notin X <=> \E k \in 1 .. LP : Same(C[i], P[k])
  <2> TAKE i \in 1 .. LC
  <2>1. C[i] \in Properties
    BY <1>13
  <2>2. ~IsExtra(C[i], class) <=> \E k \in 1 .. LP : Same(C[i], P[k])
    BY <1>3, <1>14, <2>1, StaysIfSame
  <2> QED
    BY <1>10, <1>13, <2>2
<1>24. \A k \in 1 .. LP : ~IsNew(C, P[k]) <=> \E i \in 1 .. LC : Same(C[i], P[k])
  <2> TAKE k \in 1 .. LP
  <2>1. P[k] \in Properties
    BY <1>14
  <2> QED
    BY <1>5, <1>13, <2>1, OldIsNotNew
<1>25. \A i \in 1 .. LC : a.columns[i] = C[i]
  BY <1>7, <1>13
<1>26. \A m \in 1 .. LA : m \in 1 .. LC \/ m \in LC + 1 .. LA
  OBVIOUS
<1>27. \A m \in LC + 1 .. LA : m \notin X /\ m \in 1 .. LA
  BY <1>10, <1>13
<1>28. \A m \in 1 .. LC : m \in 1 .. LA
  BY <1>20
<1>29. ASSUME NEW j \in 1 .. LU PROVE \E k \in 1 .. LP : Same(u.columns[j], P[k])
  <2>1. PICK m \in 1 .. LA : m = g[j]
    BY <1>18
  <2>2. u.columns[j] = a.columns[m] /\ m \notin X
    BY <1>18, <1>19, <2>1
  <2>3. CASE m \in 1 .. LC
    BY <1>23, <1>25, <2>2, <2>3
  <2>4. CASE m \in LC + 1 .. LA
    BY <1>21, <1>22, <2>2, <2>4
  <2> QED
    BY <1>26, <2>3, <2>4
<1>30. ASSUME NEW k \in 1 .. LP PROVE \E j \in 1 .. LU : Same(u.columns[j], P[k])
  <2>1. PICK m \in 1 .. LA : m \notin X /\ Same(a.columns[m], P[k])
    <3>1. CASE IsNew(C, P[k])
      BY <1>21, <1>22, <1>27, <3>1
    <3>2. CASE ~IsNew(C, P[k])
      <4>1. PICK i \in 1 .. LC : Same(C[i], P[k])
        BY <1>24, <3>2
      <4> QED
        BY <1>23, <1>25, <1>28, <4>1
    <3> QED
      BY <3>1, <3>2
  <2>2. PICK j \in 1 .. LU : g[j] = m
    BY <1>19, <2>1
  <2> QED
    BY <1>18, <2>1, <2>2
<1>31. ASSUME NEW m \in 1 .. LC, NEW n \in LC + 1 .. LA, m \notin X,
              a.columns[m].name = a.columns[n].name
       PROVE  FALSE
  <2>1. PICK k \in 1 .. LP : Same(C[m], P[k])
    BY <1>23, <1>31
  <2>2. PICK l \in 1 .. LP : IsColumnOf(t, a, n, P[l])
    BY <1>21
  <2>3. Same(a.columns[n], P[l])
    BY <1>22, <2>2
  <2>4. P[k].name = P[l].name
    BY <1>25, <1>31, <2>1, <2>3 DEF Same
  <2>5. k = l
    BY <1>5, <1>14, <2>4 DEF Distinct
  <2>6. IsNew(C, P[l])
    BY <1>4, <2>2 DEF IsColumnOf
  <2> QED
    BY <1>24, <2>1, <2>5, <2>6
<1>32. ASSUME NEW i \in 1 .. LU, NEW j \in 1 .. LU, u.columns[i].name = u.columns[j].name
       PROVE  i = j
  <2>1. PICK m \in 1 .. LA : m = g[i]
    BY <1>18
  <2>2. PICK n \in 1 .. LA : n = g[j]
    BY <1>18
  <2>3. a.columns[m].name = a.columns[n].name /\ m \notin X /\ n \notin X
    BY <1>18, <1>19, <1>32, <2>1, <2>2
  <2>4. CASE m \in 1 .. LC /\ n \in 1 .. LC
    <3>1. C[m].name = C[n].name
      BY <1>25, <2>3, <2>4
    <3>2. m = n
      BY <1>5, <1>13, <2>4, <3>1 DEF Distinct
    <3> QED
      BY <1>18, <2>1, <2>2, <3>2
  <2>5. CASE m \in LC + 1 .. LA /\ n \in LC + 1 .. LA
    <3>1. m = n
      BY <1>21, <2>3, <2>5
    <3> QED
      BY <1>18, <2>1, <2>2, <3>1
  <2>6. CASE m \in 1 .. LC /\ n \in LC + 1 .. LA
    BY <1>31, <2>3, <2>6
  <2>7. CASE m \in LC + 1 .. LA /\ n \in 1 .. LC
    BY <1>31, <2>3, <2>7
  <2> QED
    BY <1>26, <2>4, <2>5, <2>6, <2>7
<1>33. Fits(u.columns, P)
  BY <1>14, <1>16, <1>29, <1>30, <1>32 DEF Fits, Distinct
<1>34. ASSUME NEW i \in 1 .. LC, NEW j \in 1 .. LU, Survives(C[i], u.columns[j]), NEW r \in 1 .. R
       PROVE  u.rows[r][j] = t.rows[r][i]
  <2>1. PICK m \in 1 .. LA : m = g[j]
    BY <1>18
  <2>2. u.columns[j] = a.columns[m] /\ u.rows[r][j] = a.rows[r][m]
    BY <1>18, <2>1
  <2>3. CASE m \in 1 .. LC
    <3>1. C[m].name = C[i].name
      BY <1>25, <1>34, <2>2, <2>3 DEF Survives
    <3>2. m = i
      BY <1>5, <1>13, <2>3, <3>1 DEF Distinct
    <3> QED
      BY <1>7, <1>13, <1>17, <2>2, <3>2
  <2>4. CASE m \in LC + 1 .. LA
    <3>1. PICK k \in 1 .. LP : IsColumnOf(t, a, m, P[k])
      BY <1>21, <2>4
    <3>2. PICK p \in Properties : p = P[k]
      BY <1>14
    <3>3. Same(a.columns[m], p)
      BY <1>22, <2>4, <3>1, <3>2
    <3>4. IsNew(C, p) /\ a.rows[r][m] = CopiedValue(t, p, r)
      BY <1>4, <1>17, <3>1, <3>2 DEF IsColumnOf
    <3>5. C[i].name = p.name /\ C[i].type = p.type /\ (C[i].nullable => p.nullable)
      BY <1>34, <2>2, <3>3 DEF Same, HasChanged, Survives
    <3>6. i \in 1 .. Len(C) /\ PlaceOf(C, p.name) = i
      <4>1. PlaceOf(C, C[i].name) = i
        BY <1>5, <1>13, FoundAt
      <4> QED
        BY <1>13, <3>5, <4>1
    <3>7. ~Same(C[i], p)
      BY <1>5, <3>4, <3>6, OldIsNotNew
    <3>8. PICK q \in Properties : q = C[i]
      BY <1>13
    <3>9. C[i].nullable \in BOOLEAN /\ p.nullable \in BOOLEAN
      BY <3>8 DEF Properties
    <3>10. ~C[i].nullable /\ p.nullable
      BY <3>5, <3>7, <3>9 DEF Same, HasChanged
    <3>11. CanBeNullable(C[i], p)
      BY <3>5, <3>10 DEF CanBeNullable
    <3>12. i # 0
      OBVIOUS
    <3>13. CopiedValue(t, p, r) = t.rows[r][i]
      BY <1>4, <3>6, <3>11, <3>12 DEF CopiedValue
    <3> QED
      BY <2>2, <3>4, <3>13
  <2> QED
    BY <1>26, <2>3, <2>4
<1>35. ValuesKept(t, u)
  BY <1>4, <1>13, <1>16, <1>17, <1>34 DEF ValuesKept
<1> QED
  BY <1>2, <1>3, <1>12, <1>33, <1>35

-----------------------------------------------------------------------------
(* Groups. *)

(* What a table and its primary key always have in common. *)
SoundTable(t, key) ==
  /\ Distinct(t.columns)
  /\ ~t.exists => Len(t.columns) = 0 /\ Len(t.rows) = 0 /\ key = NoName
  /\ key # NoName => HasName(t.columns, key)

Keys == Names \cup {NoName}

Groups == [version : Nat, metadata : BOOLEAN, table : [Classes -> Tables], primary : [Classes -> Keys]]

SoundGroup(g) ==
  /\ g \in Groups
  /\ \A c \in Classes : SoundTable(g.table[c], g.primary[c])

LEMMA ClassFacts ==
  ASSUME NEW s \in Schemas, NEW c \in Classes
  PROVE  /\ s.version \in Nat /\ s.version # NotVersioned
         /\ s.class[c].properties \in Seq(Properties) /\ Distinct(s.class[c].properties)
         /\ s.class[c].primary \in Keys
         /\ s.class[c].primary # NoName =>
              \E k \in 1 .. Len(s.class[c].properties) :
                /\ s.class[c].properties[k].name = s.class[c].primary
                /\ s.class[c].properties[k].type \in Indexable
<1>1. s.version \in Nat \ {NotVersioned} /\ s.class[c] \in Class /\ Sound(s.class[c])
  BY RealmOpeningAssumption
<1>2. s.class[c].properties \in Seq(Properties) /\ s.class[c].primary \in Names \cup {NoName}
  BY <1>1 DEF Class
<1>3. DOMAIN s.class[c].properties = 1 .. Len(s.class[c].properties)
  BY <1>2
<1>4. Distinct(s.class[c].properties)
  BY <1>1, <1>3 DEF Sound, Distinct
<1>5. s.class[c].primary # NoName =>
        \E k \in 1 .. Len(s.class[c].properties) :
          /\ s.class[c].properties[k].name = s.class[c].primary
          /\ s.class[c].properties[k].type \in Indexable
  BY <1>1, <1>3 DEF Sound
<1> QED
  BY <1>1, <1>2, <1>4, <1>5 DEF Keys

LEMMA GroupFacts ==
  ASSUME NEW g, SoundGroup(g)
  PROVE  /\ g.version \in Nat /\ g.metadata \in BOOLEAN
         /\ g.table \in [Classes -> Tables] /\ g.primary \in [Classes -> Keys]
         /\ g = [version |-> g.version, metadata |-> g.metadata, table |-> g.table,
                 primary |-> g.primary]
         /\ \A c \in Classes : g.table[c] \in Tables /\ g.primary[c] \in Keys
         /\ \A c \in Classes : SoundTable(g.table[c], g.primary[c])
<1> HIDE DEF Tables, Keys
<1>1. g \in Groups /\ \A c \in Classes : SoundTable(g.table[c], g.primary[c])
  BY DEF SoundGroup
<1> QED
  BY <1>1 DEF Groups

LEMMA EmptySequence == ASSUME NEW S PROVE <<>> \in Seq(S) /\ Len(<<>>) = 0
  OBVIOUS

LEMMA EmptyTableFacts ==
  /\ EmptyTable \in Tables /\ EmptyTable.exists
  /\ Len(EmptyTable.columns) = 0 /\ Len(EmptyTable.rows) = 0 /\ Distinct(EmptyTable.columns)
  /\ NoTable \in Tables /\ ~NoTable.exists
  /\ Len(NoTable.columns) = 0 /\ Len(NoTable.rows) = 0 /\ Distinct(NoTable.columns)
<1>1. PICK none : none = <<>>
  OBVIOUS
<1>2. none \in Seq(Properties) /\ none \in Seq(Seq(Cells)) /\ Len(none) = 0
  BY <1>1, EmptySequence
<1>3. PICK no \in BOOLEAN : no = FALSE
  OBVIOUS
<1>4. PICK yes \in BOOLEAN : yes = TRUE
  OBVIOUS
<1>5. PICK t : t = [columns |-> none, rows |-> none, exists |-> no]
  OBVIOUS
<1>6. PICK u : u = [columns |-> none, rows |-> none, exists |-> yes]
  OBVIOUS
<1>7. NoTable = t
  BY <1>1, <1>3, <1>5, Zenon DEF NoTable
<1>8. u = [t EXCEPT !.exists = TRUE]
  <2>1. PICK w : w = [t EXCEPT !.exists = yes]
    OBVIOUS
  <2>2. w = u
    BY <1>5, <1>6, <2>1
  <2> QED
    BY <1>4, <2>1, <2>2, Zenon
<1>9. EmptyTable = u
  BY <1>7, <1>8, Zenon DEF EmptyTable
<1>10. \A r \in 1 .. Len(none) : Len(none[r]) = Len(none)
  BY <1>2
<1>11. t \in Tables
  BY <1>2, <1>5, <1>10, TableOf
<1>12. u \in Tables
  BY <1>2, <1>6, <1>10, TableOf
<1>13. Distinct(none)
  BY <1>2 DEF Distinct
<1>14. /\ t.columns = none /\ t.rows = none /\ ~t.exists
       /\ u.columns = none /\ u.rows = none /\ u.exists
  BY <1>3, <1>4, <1>5, <1>6
<1> QED
  BY <1>2, <1>7, <1>9, <1>11, <1>12, <1>13, <1>14, Zenon

(* The table create_tables starts from. *)
Start(g, c) == IF g.table[c].exists THEN g.table[c] ELSE EmptyTable

LEMMA StartFacts ==
  ASSUME NEW g, SoundGroup(g), NEW c \in Classes
  PROVE  /\ Start(g, c) \in Tables /\ Start(g, c).exists /\ Distinct(Start(g, c).columns)
         /\ Len(Start(g, c).rows) = Len(g.table[c].rows)
         /\ Len(Start(g, c).columns) = Len(g.table[c].columns)
<1>1. g.table[c] \in Tables /\ SoundTable(g.table[c], g.primary[c])
  BY GroupFacts
<1>2. CASE g.table[c].exists
  BY <1>1, <1>2 DEF Start, SoundTable
<1>3. CASE ~g.table[c].exists
  BY <1>1, <1>3, EmptyTableFacts DEF Start, SoundTable
<1> QED
  BY <1>2, <1>3

IsUpdated(g, s, migrating, c) == c \in Declared(s) /\ (migrating \/ ~g.table[c].exists)

LEMMA TabledIs ==
  ASSUME NEW g, SoundGroup(g), NEW s, NEW migrating \in BOOLEAN
  PROVE  Tabled(g, s, migrating) =
           [version |-> g.version, metadata |-> TRUE,
            table |-> [c \in Classes |->
               IF IsUpdated(g, s, migrating, c) THEN UpdatedTable(Start(g, c), s.class[c])
               ELSE g.table[c]],
            primary |-> [c \in Classes |->
               IF IsUpdated(g, s, migrating, c) THEN s.class[c].primary ELSE g.primary[c]]]
<1>1. PICK m : m = WithMetadata(g)
  OBVIOUS
<1>2. m = [version |-> g.version, metadata |-> TRUE, table |-> g.table, primary |-> g.primary]
  <2>1. g = [version |-> g.version, metadata |-> g.metadata, table |-> g.table,
             primary |-> g.primary]
    BY GroupFacts
  <2> QED
    BY <1>1, <2>1 DEF WithMetadata
<1>3. m.table = g.table /\ m.primary = g.primary
  BY <1>2
<1>4. \A c : c \in ToUpdate(m, s, migrating) <=> IsUpdated(g, s, migrating, c)
  BY <1>3 DEF ToUpdate, IsUpdated
<1>5. PICK table : table = [c \in Classes |->
               IF IsUpdated(g, s, migrating, c) THEN UpdatedTable(Start(g, c), s.class[c])
               ELSE g.table[c]]
  OBVIOUS
<1>6. PICK primary : primary = [c \in Classes |->
               IF IsUpdated(g, s, migrating, c) THEN s.class[c].primary ELSE g.primary[c]]
  OBVIOUS
<1>7. table = [c \in Classes |->
           IF c \in ToUpdate(m, s, migrating)
           THEN UpdatedTable(IF m.table[c].exists THEN m.table[c] ELSE EmptyTable, s.class[c])
           ELSE m.table[c]]
  BY <1>3, <1>4, <1>5, Zenon DEF Start
<1>8. primary = [c \in Classes |->
           IF c \in ToUpdate(m, s, migrating) THEN s.class[c].primary ELSE m.primary[c]]
  BY <1>3, <1>4, <1>6, Zenon
<1>9. PICK u : u = [m EXCEPT !.table = table, !.primary = primary]
  OBVIOUS
<1>10. u = [version |-> g.version, metadata |-> TRUE, table |-> table, primary |-> primary]
  BY <1>2, <1>9
<1>11. CreateTables(m, s, migrating) = u
  BY <1>7, <1>8, <1>9, Zenon DEF CreateTables
<1> QED
  BY <1>1, <1>5, <1>6, <1>10, <1>11, Zenon DEF Tabled

(* What create_tables makes of a group. *)
TabledAs(g, s, migrating, T) ==
  /\ T \in Groups /\ T.version = g.version /\ T.metadata = TRUE
  /\ \A c \in Classes : ~IsUpdated(g, s, migrating, c) =>
       T.table[c] = g.table[c] /\ T.primary[c] = g.primary[c]
  /\ \A c \in Classes : IsUpdated(g, s, migrating, c) =>
       /\ T.table[c] \in Tables /\ T.table[c].exists
       /\ Len(T.table[c].rows) = Len(g.table[c].rows)
       /\ Fits(T.table[c].columns, s.class[c].properties)
       /\ ValuesKept(Start(g, c), T.table[c])
       /\ T.primary[c] = s.class[c].primary

LEMMA TabledClass ==
  ASSUME NEW g, SoundGroup(g), NEW s \in Schemas, NEW migrating \in BOOLEAN
  PROVE  TabledAs(g, s, migrating, Tabled(g, s, migrating))
<1> SUFFICES ASSUME NEW T, T = Tabled(g, s, migrating) PROVE TabledAs(g, s, migrating, T)
  OBVIOUS
<1> DEFINE tableOf(c) == IF IsUpdated(g, s, migrating, c) THEN UpdatedTable(Start(g, c), s.class[c])
                         ELSE g.table[c]
           primaryOf(c) == IF IsUpdated(g, s, migrating, c) THEN s.class[c].primary ELSE g.primary[c]
<1>1. T = [version |-> g.version, metadata |-> TRUE, table |-> [c \in Classes |-> tableOf(c)],
           primary |-> [c \in Classes |-> primaryOf(c)]]
  BY TabledIs, Zenon
<1>2. ASSUME NEW c \in Classes
      PROVE  /\ UpdatedTable(Start(g, c), s.class[c]) \in Tables
             /\ UpdatedTable(Start(g, c), s.class[c]).exists
             /\ Len(UpdatedTable(Start(g, c), s.class[c]).rows) = Len(g.table[c].rows)
             /\ Fits(UpdatedTable(Start(g, c), s.class[c]).columns, s.class[c].properties)
             /\ ValuesKept(Start(g, c), UpdatedTable(Start(g, c), s.class[c]))
  <2>1. s.class[c].properties \in Seq(Properties) /\ Distinct(s.class[c].properties)
    BY ClassFacts
  <2>2. /\ Start(g, c) \in Tables /\ Start(g, c).exists /\ Distinct(Start(g, c).columns)
        /\ Len(Start(g, c).rows) = Len(g.table[c].rows)
    BY StartFacts
  <2>3. PICK t \in Tables : t = Start(g, c)
    BY <2>2
  <2>4. PICK class : class = s.class[c]
    OBVIOUS
  <2>5. /\ UpdatedTable(t, class) \in Tables
        /\ UpdatedTable(t, class).exists = t.exists
        /\ Len(UpdatedTable(t, class).rows) = Len(t.rows)
        /\ Fits(UpdatedTable(t, class).columns, class.properties)
        /\ ValuesKept(t, UpdatedTable(t, class))
    BY <2>1, <2>2, <2>3, <2>4, Brought
  <2> QED
    BY <2>2, <2>3, <2>4, <2>5
<1>3. \A c \in Classes : T.table[c] = tableOf(c) /\ T.primary[c] = primaryOf(c)
  BY <1>1
<1>4. \A c \in Classes : g.table[c] \in Tables /\ g.primary[c] \in Keys /\ s.class[c].primary \in Keys
  BY GroupFacts, ClassFacts
<1>5. \A c \in Classes : tableOf(c) \in Tables /\ primaryOf(c) \in Keys
  BY <1>2, <1>4
<1>6. g.version \in Nat
  BY GroupFacts
<1>7. T \in Groups
  <2>1. PICK table : table = [c \in Classes |-> tableOf(c)]
    OBVIOUS
  <2>2. PICK primary : primary = [c \in Classes |-> primaryOf(c)]
    OBVIOUS
  <2> HIDE DEF tableOf, primaryOf, Tables, Keys
  <2>3. table \in [Classes -> Tables] /\ primary \in [Classes -> Keys]
    BY <1>5, <2>1, <2>2
  <2>4. T = [version |-> g.version, metadata |-> TRUE, table |-> table, primary |-> primary]
    BY <1>1, <2>1, <2>2, Zenon
  <2> QED
    BY <1>6, <2>3, <2>4 DEF Groups
<1>8. T.version = g.version /\ T.metadata = TRUE
  BY <1>1
<1>9. ASSUME NEW c \in Classes, ~IsUpdated(g, s, migrating, c)
      PROVE  T.table[c] = g.table[c] /\ T.primary[c] = g.primary[c]
  BY <1>3, <1>9
<1>10. ASSUME NEW c \in Classes, IsUpdated(g, s, migrating, c)
       PROVE  /\ T.table[c] \in Tables /\ T.table[c].exists
              /\ Len(T.table[c].rows) = Len(g.table[c].rows)
              /\ Fits(T.table[c].columns, s.class[c].properties)
              /\ ValuesKept(Start(g, c), T.table[c])
              /\ T.primary[c] = s.class[c].primary
  <2>1. T.table[c] = UpdatedTable(Start(g, c), s.class[c]) /\ T.primary[c] = s.class[c].primary
    BY <1>3, <1>10
  <2> QED
    BY <1>2, <2>1
<1> HIDE DEF tableOf, primaryOf
<1> QED
  BY <1>7, <1>8, <1>9, <1>10 DEF TabledAs

LEMMA TabledSound ==
  ASSUME NEW g, SoundGroup(g), NEW s \in Schemas, NEW migrating \in BOOLEAN, NEW T,
         T = Tabled(g, s, migrating)
  PROVE  SoundGroup(T) /\ \A c \in Declared(s) : T.table[c].exists
<1>1. TabledAs(g, s, migrating, T)
  BY TabledClass
<1>2. T \in Groups
  BY <1>1 DEF TabledAs
<1>3. ASSUME NEW c \in Classes PROVE SoundTable(T.table[c], T.primary[c])
  <2>1. CASE ~IsUpdated(g, s, migrating, c)
    <3>1. T.table[c] = g.table[c] /\ T.primary[c] = g.primary[c]
      BY <1>1, <2>1 DEF TabledAs
    <3> QED
      BY <3>1, GroupFacts
  <2>2. CASE IsUpdated(g, s, migrating, c)
    <3>1. /\ T.table[c] \in Tables /\ T.table[c].exists
          /\ Fits(T.table[c].columns, s.class[c].properties)
          /\ T.primary[c] = s.class[c].primary
      BY <1>1, <2>2 DEF TabledAs
    <3>2. PICK columns \in Seq(Properties) : columns = T.table[c].columns
      BY <3>1, TableFacts
    <3>3. Distinct(columns)
      BY <3>1, <3>2 DEF Fits
    <3>4. ASSUME T.primary[c] # NoName PROVE HasName(columns, T.primary[c])
      <4>1. PICK k \in 1 .. Len(s.class[c].properties) :
              s.class[c].properties[k].name = s.class[c].primary
        BY <3>1, <3>4, ClassFacts
      <4>2. PICK j \in 1 .. Len(columns) : Same(columns[j], s.class[c].properties[k])
        BY <3>1, <3>2 DEF Fits
      <4>3. columns[j].name = T.primary[c]
        BY <3>1, <4>1, <4>2 DEF Same
      <4> QED
        BY <4>3, FirstOfName
    <3> QED
      BY <3>1, <3>2, <3>3, <3>4 DEF SoundTable
  <2> QED
    BY <2>1, <2>2
<1>4. ASSUME NEW c \in Declared(s) PROVE T.table[c].exists
  <2>1. c \in Classes
    BY DEF Declared
  <2>2. CASE IsUpdated(g, s, migrating, c)
    BY <1>1, <2>1, <2>2 DEF TabledAs
  <2>3. CASE ~IsUpdated(g, s, migrating, c)
    <3>1. T.table[c] = g.table[c]
      BY <1>1, <2>1, <2>3 DEF TabledAs
    <3> QED
      BY <2>3, <3>1 DEF IsUpdated
  <2> QED
    BY <2>2, <2>3
<1> QED
  BY <1>2, <1>3, <1>4 DEF SoundGroup

(* validate_schema passes exactly the tables that fit.                      *)
LEMMA ValidFits ==
  ASSUME NEW g, SoundGroup(g), NEW s \in Schemas, NEW c \in Classes, ClassValid(g, s, c)
  PROVE  /\ Fits(g.table[c].columns, s.class[c].properties)
         /\ g.primary[c] = s.class[c].primary
<1>1. g.table[c] \in Tables /\ SoundTable(g.table[c], g.primary[c])
  BY GroupFacts
<1>2. PICK C \in Seq(Properties) : C = g.table[c].columns
  BY <1>1, TableFacts
<1>3. PICK P \in Seq(Properties) : P = s.class[c].properties
  BY ClassFacts
<1>4. Distinct(C) /\ Distinct(P)
  BY <1>1, <1>2, <1>3, ClassFacts DEF SoundTable
<1>5. /\ \A i \in 1 .. Len(C) :
           /\ HasName(P, C[i].name)
           /\ ~HasChanged(C[i], ForName(P, C[i].name))
           /\ (C[i].name = g.primary[c]) = (C[i].name = s.class[c].primary)
      /\ \A i \in 1 .. Len(P) : HasName(C, P[i].name)
  BY <1>2, <1>3 DEF ClassValid
<1>6. ASSUME NEW i \in 1 .. Len(C) PROVE \E k \in 1 .. Len(P) : Same(C[i], P[k])
  <2>1. HasName(P, C[i].name) /\ ~HasChanged(C[i], ForName(P, C[i].name))
    BY <1>5
  <2>2. PICK k \in 1 .. Len(P) : k = PlaceOf(P, C[i].name)
    BY <2>1, FirstOfName
  <2>3. P[k].name = C[i].name
    BY <2>1, <2>2, FirstOfName
  <2> QED
    BY <2>1, <2>2, <2>3 DEF Same, ForName
<1>7. ASSUME NEW k \in 1 .. Len(P) PROVE \E i \in 1 .. Len(C) : Same(C[i], P[k])
  <2>1. PICK i \in 1 .. Len(C) : C[i].name = P[k].name
    BY <1>5, FirstOfName
  <2>2. PICK m \in 1 .. Len(P) : Same(C[i], P[m])
    BY <1>6
  <2>3. m = k
    BY <1>4, <2>1, <2>2 DEF Same, Distinct
  <2> QED
    BY <2>2, <2>3
<1>8. Fits(C, P)
  BY <1>4, <1>6, <1>7 DEF Fits
<1>9. g.primary[c] = s.class[c].primary
  <2>1. CASE s.class[c].primary # NoName
    <3>1. PICK k \in 1 .. Len(P) : P[k].name = s.class[c].primary
      BY <1>3, <2>1, ClassFacts
    <3>2. PICK i \in 1 .. Len(C) : C[i].name = s.class[c].primary
      BY <1>7, <3>1 DEF Same
    <3> QED
      BY <1>5, <3>2
  <2>2. CASE g.primary[c] # NoName
    <3>1. HasName(C, g.primary[c])
      BY <1>1, <1>2, <2>2 DEF SoundTable
    <3>2. PICK i \in 1 .. Len(C) : C[i].name = g.primary[c]
      BY <3>1, FirstOfName
    <3> QED
      BY <1>5, <3>2
  <2> QED
    BY <2>1, <2>2
<1> QED
  BY <1>2, <1>3, <1>8, <1>9

LEMMA FitsIsValid ==
  ASSUME NEW g, SoundGroup(g), NEW s \in Schemas, NEW c \in Classes,
         Fits(g.table[c].columns, s.class[c].properties), g.primary[c] = s.class[c].primary
  PROVE  ClassValid(g, s, c)
<1>1. g.table[c] \in Tables
  BY GroupFacts
<1>2. PICK C \in Seq(Properties) : C = g.table[c].columns
  BY <1>1, TableFacts
<1>3. PICK P \in Seq(Properties) : P = s.class[c].properties
  BY ClassFacts
<1>4. Distinct(P) /\ Fits(C, P)
  BY <1>2, <1>3, ClassFacts
<1>5. ASSUME NEW i \in 1 .. Len(C)
      PROVE  HasName(P, C[i].name) /\ ~HasChanged(C[i], ForName(P, C[i].name))
  <2>1. PICK k \in 1 .. Len(P) : Same(C[i], P[k])
    BY <1>4 DEF Fits
  <2>2. C[i].name = P[k].name /\ ~HasChanged(C[i], P[k])
    BY <2>1 DEF Same
  <2>3. HasName(P, P[k].name) /\ ForName(P, P[k].name) = P[k]
    BY <1>4, FoundAt
  <2> QED
    BY <2>2, <2>3
<1>6. ASSUME NEW k \in 1 .. Len(P) PROVE HasName(C, P[k].name)
  <2>1. PICK i \in 1 .. Len(C) : C[i].name = P[k].name
    BY <1>4 DEF Fits, Same
  <2> QED
    BY <2>1, FirstOfName
<1>7. DOMAIN C = 1 .. Len(C) /\ DOMAIN P = 1 .. Len(P)
  OBVIOUS
<1> QED
  BY <1>2, <1>3, <1>5, <1>6, <1>7 DEF ClassValid

-----------------------------------------------------------------------------
(* update_indexes changes nothing but the indexes. *)

SameShape(C, D) ==
  /\ Len(C) = Len(D)
  /\ \A j \in 1 .. Len(C) : /\ C[j].name = D[j].name /\ C[j].type = D[j].type
                            /\ C[j].nullable = D[j].nullable

SameButIndex(t, u) ==
  u \in Tables /\ u.exists = t.exists /\ u.rows = t.rows /\ SameShape(t.columns, u.columns)

LEMMA SamePlaces ==
  ASSUME NEW C \in Seq(Properties), NEW D \in Seq(Properties), SameShape(C, D)
  PROVE  /\ \A name : PlaceOf(D, name) = PlaceOf(C, name) /\ HasName(D, name) = HasName(C, name)
         /\ Distinct(C) <=> Distinct(D)
<1>1. Len(C) = Len(D) /\ \A j \in 1 .. Len(C) : C[j].name = D[j].name
  BY DEF SameShape
<1>2. ASSUME NEW name PROVE PlaceOf(D, name) = PlaceOf(C, name)
  <2>1. HasName(C, name) <=> HasName(D, name)
    BY <1>1, FirstOfName
  <2>2. CASE ~HasName(C, name)
    BY <2>1, <2>2 DEF HasName
  <2>3. CASE HasName(C, name)
    <3>1. PICK i \in 1 .. Len(C) : i = PlaceOf(C, name)
      BY <2>3, FirstOfName
    <3>2. PICK j \in 1 .. Len(D) : j = PlaceOf(D, name)
      BY <2>1, <2>3, FirstOfName
    <3>3. C[i].name = name
      BY <2>3, <3>1, FirstOfName
    <3>4. D[j].name = name
      BY <2>1, <2>3, <3>2, FirstOfName
    <3>5. i <= j
      BY <1>1, <3>1, <3>4, FirstOfName
    <3>6. j <= i
      BY <1>1, <3>2, <3>3, FirstOfName
    <3> QED
      BY <1>1, <3>1, <3>2, <3>5, <3>6
  <2> QED
    BY <2>2, <2>3
<1>3. Distinct(C) <=> Distinct(D)
  BY <1>1 DEF Distinct
<1> QED
  BY <1>2, <1>3 DEF HasName

LEMMA OnlyIndexes ==
  ASSUME NEW t \in Tables, NEW class, class.properties \in Seq(Properties),
         Fits(t.columns, class.properties), Distinct(class.properties)
  PROVE  /\ SameButIndex(t, ReindexedTable(t, class))
         /\ \A j \in 1 .. Len(t.columns) :
              ReindexedTable(t, class).columns[j].indexed
                = RequiresIndex(class, ForName(class.properties, t.columns[j].name))
<1>1. PICK columns \in Seq(Properties), rows \in Seq(Seq(Cells)), exists \in BOOLEAN :
        /\ t.columns = columns /\ t.rows = rows /\ t.exists = exists
        /\ t = [columns |-> columns, rows |-> rows, exists |-> exists]
  BY TableFacts
<1>2. \A r \in 1 .. Len(rows) : Len(rows[r]) = Len(columns)
  BY <1>1, TableFacts
<1>3. PICK P \in Seq(Properties) : P = class.properties
  OBVIOUS
<1>4. PICK L \in Nat : L = Len(columns)
  OBVIOUS
<1>5. ASSUME NEW j \in 1 .. L
      PROVE  RequiresIndex(class, ForName(P, columns[j].name)) \in BOOLEAN
  <2>1. PICK k \in 1 .. Len(P) : Same(columns[j], P[k])
    BY <1>1, <1>3, <1>4 DEF Fits
  <2>2. Distinct(P) /\ columns[j].name = P[k].name
    BY <1>3, <2>1 DEF Same
  <2>3. ForName(P, columns[j].name) = P[k]
    BY <2>2, FoundAt
  <2>4. PICK p \in Properties : p = P[k]
    OBVIOUS
  <2>5. p.indexed \in BOOLEAN
    BY DEF Properties
  <2> QED
    BY <2>3, <2>4, <2>5 DEF RequiresIndex
<1>6. PICK needs : needs = [j \in 1 .. L |-> RequiresIndex(class, ForName(P, columns[j].name))]
  OBVIOUS
<1>7. needs \in [1 .. L -> BOOLEAN]
  BY <1>5, <1>6
<1>8. PICK again : again = [j \in 1 .. L |-> [columns[j] EXCEPT !.indexed = needs[j]]]
  OBVIOUS
<1>9. ASSUME NEW j \in 1 .. L
      PROVE  /\ again[j] \in Properties /\ again[j].name = columns[j].name
             /\ again[j].type = columns[j].type /\ again[j].nullable = columns[j].nullable
             /\ again[j].indexed = needs[j]
  <2>1. PICK q \in Properties : q = columns[j]
    BY <1>4
  <2>2. PICK b \in BOOLEAN : b = needs[j]
    BY <1>7
  <2>3. again[j] = [q EXCEPT !.indexed = b]
    BY <1>8, <2>1, <2>2
  <2> QED
    BY <2>1, <2>2, <2>3 DEF Properties
<1>10. again \in Seq(Properties) /\ Len(again) = L
  <2>1. \A j \in 1 .. L : again[j] \in Properties
    BY <1>9
  <2>2. again \in [1 .. L -> Properties]
    <3> HIDE DEF Properties
    <3> QED
      BY <1>8, <2>1
  <2> QED
    BY <2>2
<1>11. ReindexedTable(t, class) = [columns |-> again, rows |-> rows, exists |-> exists]
  <2>1. PICK u : u = [t EXCEPT !.columns = again]
    OBVIOUS
  <2>2. u = [columns |-> again, rows |-> rows, exists |-> exists]
    BY <1>1, <2>1
  <2>3. DOMAIN columns = 1 .. L
    BY <1>4
  <2>4. again = [j \in DOMAIN t.columns |-> Reindexed(class, t.columns[j])]
    <3>1. \A j \in 1 .. L : needs[j] = RequiresIndex(class, ForName(class.properties, columns[j].name))
      BY <1>3, <1>6
    <3>2. \A j \in 1 .. L : again[j] = Reindexed(class, columns[j])
      <4> SUFFICES ASSUME NEW j \in 1 .. L PROVE again[j] = Reindexed(class, columns[j])
        OBVIOUS
      <4>1. again[j] = [columns[j] EXCEPT !.indexed = needs[j]]
        BY <1>8
      <4>2. needs[j] = RequiresIndex(class, ForName(class.properties, columns[j].name))
        BY <3>1
      <4> QED
        BY <4>1, <4>2, Zenon DEF Reindexed
    <3>3. again = [j \in 1 .. L |-> Reindexed(class, columns[j])]
      BY <1>8, <3>2
    <3> QED
      BY <1>1, <2>3, <3>3
  <2> QED
    BY <2>1, <2>2, <2>4, Zenon DEF ReindexedTable
<1>12. [columns |-> again, rows |-> rows, exists |-> exists] \in Tables
  BY <1>2, <1>4, <1>10, TableOf
<1>13. PICK u \in Tables : u = ReindexedTable(t, class) /\ u.columns = again /\ u.rows = rows
                           /\ u.exists = exists
  BY <1>11, <1>12
<1>14. SameShape(columns, again)
  BY <1>4, <1>9, <1>10 DEF SameShape
<1>15. SameButIndex(t, u)
  BY <1>1, <1>13, <1>14 DEF SameButIndex
<1>16. \A j \in 1 .. L : again[j].indexed = RequiresIndex(class, ForName(class.properties, columns[j].name))
  BY <1>3, <1>6, <1>9
<1> QED
  BY <1>1, <1>4, <1>13, <1>15, <1>16

(* What update_indexes makes of a group.                                    *)
IndexedAs(T, s, I) ==
  /\ SoundGroup(I)
  /\ I.version = T.version /\ I.metadata = T.metadata /\ I.primary = T.primary
  /\ \A c \in Classes : c \notin Declared(s) => I.table[c] = T.table[c]
  /\ \A c \in Declared(s) :
       /\ SameButIndex(T.table[c], I.table[c])
       /\ \A j \in 1 .. Len(T.table[c].columns) :
            I.table[c].columns[j].indexed
              = RequiresIndex(s.class[c], ForName(s.class[c].properties, T.table[c].columns[j].name))

LEMMA IndexedClass ==
  ASSUME NEW T, SoundGroup(T), NEW s \in Schemas, \A c \in Declared(s) : ClassValid(T, s, c)
  PROVE  IndexedAs(T, s, Indexed(T, s))
<1>1. PICK I : I = Indexed(T, s)
  OBVIOUS
<1>2. PICK table : table = [c \in Classes |-> IF c \notin Declared(s) THEN T.table[c]
                                              ELSE ReindexedTable(T.table[c], s.class[c])]
  OBVIOUS
<1>3. I = [T EXCEPT !.table = table]
  BY <1>1, <1>2, Zenon DEF Indexed
<1>4. T = [version |-> T.version, metadata |-> T.metadata, table |-> T.table, primary |-> T.primary]
  BY GroupFacts
<1>5. I = [version |-> T.version, metadata |-> T.metadata, table |-> table, primary |-> T.primary]
  BY <1>3, <1>4
<1>6. /\ I.version = T.version /\ I.metadata = T.metadata /\ I.primary = T.primary
      /\ I.table = table
  BY <1>5
<1>7. \A c \in Classes : c \notin Declared(s) => I.table[c] = T.table[c]
  BY <1>2, <1>6
<1>8. \A c \in Declared(s) : c \in Classes
  BY DEF Declared
<1>9. ASSUME NEW c \in Declared(s)
      PROVE  /\ SameButIndex(T.table[c], I.table[c])
             /\ \A j \in 1 .. Len(T.table[c].columns) :
                  I.table[c].columns[j].indexed
                    = RequiresIndex(s.class[c],
                                    ForName(s.class[c].properties, T.table[c].columns[j].name))
  <2>1. T.table[c] \in Tables
    BY <1>8, GroupFacts
  <2>2. s.class[c].properties \in Seq(Properties) /\ Distinct(s.class[c].properties)
    BY <1>8, ClassFacts
  <2>3. Fits(T.table[c].columns, s.class[c].properties)
    BY <1>8, ValidFits
  <2>4. I.table[c] = ReindexedTable(T.table[c], s.class[c])
    BY <1>2, <1>6, <1>8
  <2> QED
    BY <2>1, <2>2, <2>3, <2>4, OnlyIndexes
<1>10. ASSUME NEW c \in Classes PROVE I.table[c] \in Tables /\ SoundTable(I.table[c], I.primary[c])
  <2>1. T.table[c] \in Tables /\ SoundTable(T.table[c], T.primary[c])
    BY GroupFacts
  <2>2. CASE c \notin Declared(s)
    BY <1>6, <1>7, <2>1, <2>2
  <2>3. CASE c \in Declared(s)
    <3>1. SameButIndex(T.table[c], I.table[c])
      BY <1>9, <2>3
    <3>2. /\ I.table[c] \in Tables /\ I.table[c].exists = T.table[c].exists
          /\ I.table[c].rows = T.table[c].rows
          /\ SameShape(T.table[c].columns, I.table[c].columns)
      BY <3>1 DEF SameButIndex
    <3>3. PICK C \in Seq(Properties) : C = T.table[c].columns
      BY <2>1, TableFacts
    <3>4. PICK D \in Seq(Properties) : D = I.table[c].columns
      BY <3>2, TableFacts
    <3>5. (Distinct(C) <=> Distinct(D)) /\ \A name : HasName(D, name) = HasName(C, name)
      BY <3>2, <3>3, <3>4, SamePlaces
    <3>6. Len(D) = Len(C)
      BY <3>2, <3>3, <3>4 DEF SameShape
    <3> QED
      BY <1>6, <2>1, <3>2, <3>3, <3>4, <3>5, <3>6 DEF SoundTable
  <2> QED
    BY <2>2, <2>3
<1>11. I \in Groups
  <2> HIDE DEF Tables, Keys
  <2>1. \A c \in Classes : table[c] \in Tables
    BY <1>6, <1>10
  <2>2. table \in [Classes -> Tables]
    BY <1>2, <2>1
  <2>3. T.version \in Nat /\ T.metadata \in BOOLEAN /\ T.primary \in [Classes -> Keys]
    BY GroupFacts
  <2> QED
    BY <1>5, <2>2, <2>3 DEF Groups
<1>12. SoundGroup(I)
  BY <1>10, <1>11 DEF SoundGroup
<1> QED
  BY <1>1, <1>6, <1>7, <1>9, <1>12 DEF IndexedAs

-----------------------------------------------------------------------------
(* A commit. *)

(* T is the group with its tables, before the indexes; G is what is          *)
(* committed.                                                                *)
CommittedAs(g, s, migrating, T, G) ==
  /\ TabledAs(g, s, migrating, T) /\ SoundGroup(T)
  /\ \A c \in Declared(s) : ClassValid(T, s, c) /\ T.table[c].exists
  /\ SoundGroup(G) /\ G.metadata = TRUE /\ G.primary = T.primary
  /\ G.version = IF migrating THEN s.version ELSE g.version
  /\ \A c \in Classes : c \notin Declared(s) => G.table[c] = T.table[c]
  /\ \A c \in Declared(s) :
       /\ SameButIndex(T.table[c], G.table[c])
       /\ \A j \in 1 .. Len(T.table[c].columns) :
            G.table[c].columns[j].indexed
              = RequiresIndex(s.class[c], ForName(s.class[c].properties, T.table[c].columns[j].name))

LEMMA Commits ==
  ASSUME NEW g, SoundGroup(g), NEW s \in Schemas, NEW migrating \in BOOLEAN,
         ~ThrowsBeforeBlock(g, s, migrating)
  PROVE  CommittedAs(g, s, migrating, Tabled(g, s, migrating), Updated(g, s, migrating))
<1>1. PICK T : T = Tabled(g, s, migrating)
  OBVIOUS
<1>2. TabledAs(g, s, migrating, T) /\ SoundGroup(T) /\ \A c \in Declared(s) : T.table[c].exists
  BY <1>1, TabledClass, TabledSound
<1>3. \A c \in Declared(s) : ClassValid(T, s, c)
  BY <1>1, <1>2 DEF ThrowsBeforeBlock, Valid
<1>4. PICK I : I = Indexed(T, s)
  OBVIOUS
<1>5. IndexedAs(T, s, I)
  BY <1>2, <1>3, <1>4, IndexedClass
<1>6. PICK G : G = IF migrating THEN [I EXCEPT !.version = s.version] ELSE I
  OBVIOUS
<1>7. G = Updated(g, s, migrating)
  BY <1>1, <1>4, <1>6, Zenon DEF Updated
<1>8. SoundGroup(I) /\ I.version = T.version /\ I.metadata = T.metadata /\ I.primary = T.primary
  BY <1>5 DEF IndexedAs
<1>9. I = [version |-> I.version, metadata |-> I.metadata, table |-> I.table, primary |-> I.primary]
  BY <1>8, GroupFacts
<1>10. s.version \in Nat
  <2>1. s.version \in Nat \ {NotVersioned}
    BY RealmOpeningAssumption
  <2> QED
    BY <2>1
<1>11. G = [version |-> IF migrating THEN s.version ELSE I.version, metadata |-> I.metadata,
            table |-> I.table, primary |-> I.primary]
  <2>1. CASE migrating
    BY <1>6, <1>9, <2>1
  <2>2. CASE ~migrating
    BY <1>6, <1>9, <2>2
  <2> QED
    BY <2>1, <2>2
<1>12. /\ G.version = IF migrating THEN s.version ELSE I.version
       /\ G.metadata = I.metadata /\ G.table = I.table /\ G.primary = I.primary
  BY <1>11
<1>13. T.version = g.version /\ T.metadata = TRUE
  BY <1>2 DEF TabledAs
<1>14. SoundGroup(G)
  <2> HIDE DEF Tables, Keys
  <2>1. /\ I.version \in Nat /\ I.metadata \in BOOLEAN /\ I.table \in [Classes -> Tables]
        /\ I.primary \in [Classes -> Keys]
    BY <1>8, GroupFacts
  <2>2. PICK n \in Nat : n = IF migrating THEN s.version ELSE I.version
    BY <1>10, <2>1
  <2>3. G = [version |-> n, metadata |-> I.metadata, table |-> I.table, primary |-> I.primary]
    BY <1>11, <2>2
  <2>4. G \in Groups
    BY <2>1, <2>2, <2>3 DEF Groups
  <2>5. \A c \in Classes : SoundTable(I.table[c], I.primary[c])
    BY <1>8, GroupFacts
  <2> QED
    BY <1>12, <2>4, <2>5 DEF SoundGroup
<1> QED
  BY <1>1, <1>2, <1>3, <1>5, <1>7, <1>8, <1>12, <1>13, <1>14 DEF CommittedAs, IndexedAs

(* What a commit leaves of a table it does not bring to the schema.         *)
KeptAs(g, G, c) ==
  /\ G.primary[c] = g.primary[c]
  /\ G.table[c].rows = g.table[c].rows
  /\ G.table[c].exists = g.table[c].exists
  /\ SameShape(g.table[c].columns, G.table[c].columns)

LEMMA LeftAlone ==
  ASSUME NEW g, NEW s \in Schemas, NEW migrating \in BOOLEAN, NEW T, NEW G,
         CommittedAs(g, s, migrating, T, G), NEW c \in Classes, ~IsUpdated(g, s, migrating, c)
  PROVE  T.table[c] = g.table[c] /\ KeptAs(g, G, c)
<1>1. TabledAs(g, s, migrating, T) /\ SoundGroup(T) /\ G.primary = T.primary
  BY DEF CommittedAs
<1>2. T.table[c] = g.table[c] /\ G.primary[c] = g.primary[c]
  BY <1>1 DEF TabledAs
<1>3. T.table[c] \in Tables
  BY <1>1, GroupFacts
<1>4. CASE c \in Declared(s)
  <2>1. SameButIndex(T.table[c], G.table[c])
    BY <1>4 DEF CommittedAs
  <2> QED
    BY <1>2, <2>1 DEF SameButIndex, KeptAs
<1>5. CASE c \notin Declared(s)
  <2>1. G.table[c] = T.table[c]
    BY <1>5 DEF CommittedAs
  <2>2. SameShape(T.table[c].columns, T.table[c].columns)
    BY DEF SameShape
  <2> QED
    BY <1>2, <2>1, <2>2 DEF KeptAs
<1> QED
  BY <1>4, <1>5

(* The number of values says whether they differ.                           *)
LEMMA AllDifferent ==
  ASSUME NEW t \in Tables, NEW k
  PROVE  Cardinality(Values(t, k)) = Len(t.rows) <=>
           \A i, j \in 1 .. Len(t.rows) : t.rows[i][k] = t.rows[j][k] => i = j
<1>1. PICK n \in Nat : n = Len(t.rows)
  BY TableFacts
<1>2. PICK f : f = [i \in 1 .. n |-> t.rows[i][k]]
  OBVIOUS
<1>3. PICK V : V = Values(t, k)
  OBVIOUS
<1>4. DOMAIN t.rows = 1 .. n
  BY <1>1, TableFacts
<1>5. f \in [1 .. n -> V] /\ \A v \in V : \E i \in 1 .. n : f[i] = v
  BY <1>2, <1>3, <1>4 DEF Values
<1>6. f \in Surjection(1 .. n, V)
  BY <1>5 DEF Surjection
<1>7. IsFiniteSet(1 .. n) /\ Cardinality(1 .. n) = n
  BY FS_Interval
<1>8. Cardinality(V) = n <=> f \in Injection(1 .. n, V)
  BY <1>6, <1>7, FS_Surjection
<1>9. f \in Injection(1 .. n, V) <=> \A i, j \in 1 .. n : f[i] = f[j] => i = j
  BY <1>5 DEF Injection, IsInjective
<1>10. \A i \in 1 .. n : f[i] = t.rows[i][k]
  BY <1>2
<1> QED
  BY <1>1, <1>3, <1>8, <1>9, <1>10

-----------------------------------------------------------------------------
(* Primary keys. *)

KeySound(t, key) ==
  key # NoName =>
    LET k == PlaceOf(t.columns, key)
    IN /\ k # 0
       /\ t.columns[k].indexed
       /\ \A i, j \in DOMAIN t.rows : t.rows[i][k] = t.rows[j][k] => i = j

LEMMA KeysSurvive ==
  ASSUME NEW g, SoundGroup(g), \A c \in Classes : KeySound(g.table[c], g.primary[c]),
         NEW s \in Schemas, NEW migrating \in BOOLEAN, ~Throws(g, s, migrating),
         NEW c \in Classes
  PROVE  KeySound(Updated(g, s, migrating).table[c], Updated(g, s, migrating).primary[c])
<1>1. PICK T : T = Tabled(g, s, migrating)
  OBVIOUS
<1>2. PICK G : G = Updated(g, s, migrating)
  OBVIOUS
<1>3. CommittedAs(g, s, migrating, T, G)
  BY <1>1, <1>2, Commits DEF Throws
<1>4. TabledAs(g, s, migrating, T) /\ SoundGroup(T) /\ SoundGroup(G) /\ G.primary = T.primary
  BY <1>3 DEF CommittedAs
<1>5. T.table[c] \in Tables /\ SoundTable(T.table[c], T.primary[c]) /\ G.table[c] \in Tables
  BY <1>4, GroupFacts
<1>6. CASE c \notin Declared(s)
  <2>1. ~IsUpdated(g, s, migrating, c)
    BY <1>6 DEF IsUpdated
  <2>2. G.table[c] = g.table[c] /\ G.primary[c] = g.primary[c]
    BY <1>3, <1>4, <1>6, <2>1, SMTT(30) DEF CommittedAs, TabledAs
  <2> QED
    BY <1>2, <2>2
<1>7. CASE c \in Declared(s)
  <2>1. SUFFICES ASSUME G.primary[c] # NoName PROVE KeySound(G.table[c], G.primary[c])
    BY <1>2 DEF KeySound
  <2>2. PICK key : key = G.primary[c]
    OBVIOUS
  <2>3. ClassValid(T, s, c)
    BY <1>3, <1>7 DEF CommittedAs
  <2>4. Fits(T.table[c].columns, s.class[c].properties) /\ T.primary[c] = s.class[c].primary
    BY <1>4, <2>3, ValidFits
  <2>5. key = s.class[c].primary /\ key = T.primary[c] /\ key # NoName
    BY <1>4, <2>1, <2>2, <2>4
  <2>6. PICK C \in Seq(Properties) : C = T.table[c].columns
    BY <1>5, TableFacts
  <2>7. PICK D \in Seq(Properties) : D = G.table[c].columns
    BY <1>5, TableFacts
  <2>8. PICK P \in Seq(Properties) : P = s.class[c].properties
    BY ClassFacts
  <2>9. SameButIndex(T.table[c], G.table[c])
    BY <1>3, <1>7 DEF CommittedAs
  <2>10. G.table[c].rows = T.table[c].rows /\ SameShape(C, D)
    BY <2>6, <2>7, <2>9 DEF SameButIndex
  <2>11. HasName(C, key)
    BY <1>5, <2>5, <2>6 DEF SoundTable
  <2>12. PICK k \in 1 .. Len(C) : k = PlaceOf(C, key)
    BY <2>11, FirstOfName
  <2>13. C[k].name = key
    BY <2>11, <2>12, FirstOfName
  <2>14. k = PlaceOf(D, key)
    BY <2>10, <2>12, SamePlaces
  <2>15. D[k].indexed
    <3>1. D[k].indexed = RequiresIndex(s.class[c], ForName(s.class[c].properties, C[k].name))
      BY <1>3, <1>7, <2>6, <2>7 DEF CommittedAs
    <3>2. PICK m \in 1 .. Len(P) : Same(C[k], P[m])
      BY <2>4, <2>6, <2>8 DEF Fits
    <3>3. Distinct(P) /\ P[m].name = key
      BY <2>8, <2>13, <3>2, ClassFacts DEF Same
    <3>4. ForName(P, key) = P[m]
      BY <3>3, FoundAt
    <3> QED
      BY <2>5, <2>8, <2>13, <3>1, <3>3, <3>4 DEF RequiresIndex
  <2>16. \A i, j \in 1 .. Len(T.table[c].rows) :
           T.table[c].rows[i][k] = T.table[c].rows[j][k] => i = j
    <3>1. CASE migrating
      <4>1. PrimaryUnique(T, s)
        BY <1>1, <3>1 DEF Throws
      <4>2. Cardinality(Values(T.table[c], k)) = Len(T.table[c].rows)
        BY <1>7, <2>5, <2>6, <2>12, <4>1, ZenonT(30) DEF PrimaryUnique
      <4> QED
        BY <1>5, <4>2, AllDifferent
    <3>2. CASE ~IsUpdated(g, s, migrating, c)
      <4>1. T.table[c] = g.table[c] /\ T.primary[c] = g.primary[c]
        BY <1>4, <3>2 DEF TabledAs
      <4>2. KeySound(T.table[c], key)
        BY <2>5, <4>1
      <4>3. DOMAIN T.table[c].rows = 1 .. Len(T.table[c].rows)
        BY <1>5, TableFacts
      <4> QED
        BY <2>5, <2>6, <2>12, <4>2, <4>3, ZenonT(30) DEF KeySound
    <3>3. CASE IsUpdated(g, s, migrating, c) /\ ~g.table[c].exists
      <4>1. Len(T.table[c].rows) = Len(g.table[c].rows)
        BY <1>4, <3>3 DEF TabledAs
      <4>2. Len(g.table[c].rows) = 0
        BY <3>3, GroupFacts DEF SoundTable
      <4>3. 1 .. Len(T.table[c].rows) = {}
        BY <4>1, <4>2
      <4> QED
        BY <4>3
    <3> QED
      BY <3>1, <3>2, <3>3 DEF IsUpdated
  <2>17. DOMAIN G.table[c].rows = 1 .. Len(T.table[c].rows)
    BY <1>5, <2>10, TableFacts
  <2>18. k # 0
    BY <2>12
  <2> QED
    BY <2>2, <2>7, <2>10, <2>14, <2>15, <2>16, <2>17, <2>18, ZenonT(30) DEF KeySound
<1> QED
  BY <1>6, <1>7

-----------------------------------------------------------------------------
(* Objects. *)

(* A mapping onto the columns that fit is one to one.                       *)
LEMMA OneColumnEach ==
  ASSUME NEW C \in Seq(Properties), NEW P \in Seq(Properties), Distinct(P), Fits(C, P)
  PROVE  /\ Len(C) = Len(P)
         /\ \A k \in 1 .. Len(P) : /\ PlaceOf(C, P[k].name) \in 1 .. Len(C)
                                   /\ Same(C[PlaceOf(C, P[k].name)], P[k])
         /\ \A i \in 1 .. Len(C) : \E k \in 1 .. Len(P) : PlaceOf(C, P[k].name) = i
<1>1. PICK m \in Nat : m = Len(C)
  OBVIOUS
<1>2. PICK n \in Nat : n = Len(P)
  OBVIOUS
<1>3. Distinct(C)
  BY DEF Fits
<1>4. ASSUME NEW k \in 1 .. n PROVE PlaceOf(C, P[k].name) \in 1 .. m /\ Same(C[PlaceOf(C, P[k].name)], P[k])
  <2>1. PICK i \in 1 .. m : Same(C[i], P[k])
    BY <1>1, <1>2 DEF Fits
  <2>2. PlaceOf(C, C[i].name) = i
    BY <1>1, <1>3, FoundAt
  <2> QED
    BY <2>1, <2>2 DEF Same
<1>5. ASSUME NEW i \in 1 .. m PROVE \E k \in 1 .. n : PlaceOf(C, P[k].name) = i
  <2>1. PICK k \in 1 .. n : Same(C[i], P[k])
    BY <1>1, <1>2 DEF Fits
  <2>2. PlaceOf(C, C[i].name) = i
    BY <1>1, <1>3, FoundAt
  <2> QED
    BY <2>1, <2>2 DEF Same
<1>6. PICK f : f = [k \in 1 .. n |-> PlaceOf(C, P[k].name)]
  OBVIOUS
<1>7. f \in [1 .. n -> 1 .. m] /\ \A i \in 1 .. m : \E k \in 1 .. n : f[k] = i
  BY <1>4, <1>5, <1>6
<1>8. ASSUME NEW k \in 1 .. n, NEW l \in 1 .. n, f[k] = f[l] PROVE k = l
  <2>1. PICK i : i = f[k]
    OBVIOUS
  <2>2. Same(C[i], P[k]) /\ Same(C[i], P[l])
    BY <1>4, <1>6, <1>8, <2>1
  <2>3. P[k].name = P[l].name
    BY <2>2 DEF Same
  <2> QED
    BY <1>2, <2>3 DEF Distinct
<1>9. f \in Surjection(1 .. n, 1 .. m)
  BY <1>7 DEF Surjection
<1>10. f \in Injection(1 .. n, 1 .. m)
  BY <1>7, <1>8 DEF Injection, IsInjective
<1>11. IsFiniteSet(1 .. n) /\ Cardinality(1 .. n) = n /\ Cardinality(1 .. m) = m
  BY FS_Interval
<1>12. m = n
  BY <1>9, <1>10, <1>11, FS_Surjection
<1> QED
  BY <1>1, <1>2, <1>4, <1>5, <1>12

(* find_first over the keys.                                                *)
LEMMA FirstOfKey ==
  ASSUME NEW t \in Tables, NEW key \in Nat, key # 0, NEW row
  PROVE  /\ RowFor(t, key, row) \in 0 .. Len(t.rows)
         /\ RowFor(t, key, row) = 0 => \A i \in 1 .. Len(t.rows) : t.rows[i][key] # row[key]
         /\ RowFor(t, key, row) # 0 => t.rows[RowFor(t, key, row)][key] = row[key]
<1>1. PICK n \in Nat : n = Len(t.rows)
  BY TableFacts
<1>2. PICK I : I = {i \in 1 .. n : t.rows[i][key] = row[key]}
  OBVIOUS
<1>3. RowFor(t, key, row) = IF I # {} THEN Min(I) ELSE 0
  BY <1>1, <1>2 DEF RowFor, SelectInSeq
<1>4. I \subseteq Nat
  BY <1>2
<1>5. CASE I = {}
  BY <1>1, <1>2, <1>3, <1>5
<1>6. CASE I # {}
  <2>1. Min(I) \in I
    BY <1>4, <1>6, Smallest
  <2>2. PICK m \in I : m = RowFor(t, key, row)
    BY <1>3, <1>6, <2>1
  <2>3. m \in 1 .. n /\ t.rows[m][key] = row[key]
    BY <1>2, <2>2
  <2>4. m # 0 /\ m \in 0 .. n
    BY <2>3
  <2> QED
    BY <1>1, <2>2, <2>3, <2>4
<1> QED
  BY <1>5, <1>6

-----------------------------------------------------------------------------
(* The invariant. *)

FileSound ==
  /\ SoundGroup(file)
  /\ \A c \in Classes : KeySound(file.table[c], file.primary[c])

(* The table of a class as an open process has it.                          *)
Aligned(group, s, columnOf, c) ==
  /\ group.table[c].exists
  /\ Fits(group.table[c].columns, s.class[c].properties)
  /\ group.primary[c] = s.class[c].primary
  /\ \A k \in 1 .. Len(s.class[c].properties) :
       columnOf[c][k] = PlaceOf(group.table[c].columns, s.class[c].properties[k].name)

OpenSound(p) ==
  pc[p] = "opened" =>
    /\ SchemaVersion(file) # NotVersioned
    /\ SchemaVersion(file) >= schema[p].version
    /\ SchemaVersion(file) = schema[p].version =>
         \A c \in Declared(schema[p]) : Aligned(file, schema[p], mapping[p], c)

OpeningInd ==
  /\ TypeOK
  /\ mapping = [p \in Processes |-> mapping[p]]
  /\ FileSound
  /\ \A p \in Processes : OpenSound(p)

(* A version is a number. *)
LEMMA VersionIsNat ==
  ASSUME NEW g, SoundGroup(g)
  PROVE  SchemaVersion(g) \in Nat
<1>1. g.version \in Nat /\ NotVersioned \in Nat
  BY GroupFacts, ObjectStoreAssumption
<1> QED
  BY <1>1 DEF SchemaVersion

(* A commit leaves the file at its version, or at a later one.              *)
LEMMA CommitVersion ==
  ASSUME NEW g, SoundGroup(g), NEW s \in Schemas, NEW migrating \in BOOLEAN,
         migrating = is_schema_at_version(g, s.version), ~Throws(g, s, migrating)
  PROVE  /\ SchemaVersion(Updated(g, s, migrating)) = s.version
         /\ SchemaVersion(g) # NotVersioned => SchemaVersion(g) <= s.version
         /\ ~migrating => SchemaVersion(g) = s.version
<1>1. PICK G : G = Updated(g, s, migrating)
  OBVIOUS
<1>2. CommittedAs(g, s, migrating, Tabled(g, s, migrating), G)
  BY <1>1, Commits DEF Throws
<1>3. G.metadata = TRUE /\ G.version = IF migrating THEN s.version ELSE g.version
  BY <1>2 DEF CommittedAs
<1>4. s.version \in Nat /\ s.version # NotVersioned
  <2>1. s.version \in Nat \ {NotVersioned}
    BY RealmOpeningAssumption
  <2> QED
    BY <2>1
<1>5. SchemaVersion(g) \in Nat
  BY VersionIsNat
<1>6. ~TooNew(g, s.version)
  BY DEF Throws, ThrowsBeforeBlock, TooNewByNow
<1>7. SchemaVersion(g) # NotVersioned => SchemaVersion(g) <= s.version
  BY <1>4, <1>5, <1>6 DEF TooNew
<1>8. ~migrating => SchemaVersion(g) = s.version
  BY DEF is_schema_at_version
<1>9. SchemaVersion(G) = s.version
  <2>1. CASE migrating
    BY <1>3, <2>1 DEF SchemaVersion
  <2>2. CASE ~migrating
    <3>1. g.version = s.version
      BY <1>4, <1>8, <2>2 DEF SchemaVersion
    <3> QED
      BY <1>3, <2>2, <3>1 DEF SchemaVersion
  <2> QED
    BY <2>1, <2>2
<1> QED
  BY <1>1, <1>7, <1>8, <1>9

(* The process that commits is aligned with what it commits.                *)
LEMMA CommitAligns ==
  ASSUME NEW g, SoundGroup(g), NEW s \in Schemas, NEW migrating \in BOOLEAN,
         ~Throws(g, s, migrating), NEW c \in Declared(s), NEW G, G = Updated(g, s, migrating)
  PROVE  Aligned(G, s, Mapping(G, s), c)
<1>1. PICK T : T = Tabled(g, s, migrating)
  OBVIOUS
<1>2. CommittedAs(g, s, migrating, T, G)
  BY <1>1, Commits DEF Throws
<1>3. /\ SoundGroup(T) /\ SoundGroup(G) /\ G.primary = T.primary /\ c \in Classes
      /\ ClassValid(T, s, c) /\ T.table[c].exists /\ SameButIndex(T.table[c], G.table[c])
  BY <1>2 DEF CommittedAs, Declared
<1>4. Fits(T.table[c].columns, s.class[c].properties) /\ T.primary[c] = s.class[c].primary
  BY <1>3, ValidFits
<1>5. SameShape(T.table[c].columns, G.table[c].columns) /\ G.table[c].exists
  BY <1>3 DEF SameButIndex
<1>6. PICK C \in Seq(Properties) : C = T.table[c].columns
  BY <1>3, GroupFacts, TableFacts
<1>7. PICK D \in Seq(Properties) : D = G.table[c].columns
  BY <1>3, GroupFacts, TableFacts
<1>8. PICK P \in Seq(Properties) : P = s.class[c].properties
  BY <1>3, ClassFacts
<1>9. Fits(D, P)
  <2>1. Len(C) = Len(D) /\ \A j \in 1 .. Len(C), k \in 1 .. Len(P) : Same(C[j], P[k]) <=> Same(D[j], P[k])
    BY <1>5, <1>6, <1>7 DEF SameShape, Same, HasChanged
  <2>2. Distinct(D)
    BY <1>4, <1>5, <1>6, <1>7, SamePlaces DEF Fits
  <2> QED
    BY <1>4, <1>6, <1>8, <2>1, <2>2 DEF Fits
<1>10. \A k \in 1 .. Len(P) : Mapping(G, s)[c][k] = PlaceOf(D, P[k].name)
  <2>1. DOMAIN P = 1 .. Len(P)
    OBVIOUS
  <2> QED
    BY <1>7, <1>8, <2>1 DEF Mapping
<1> QED
  BY <1>3, <1>4, <1>5, <1>7, <1>8, <1>9, <1>10 DEF Aligned

(* A process that opens without writing is aligned with what it found.      *)
LEMMA OpenAligns ==
  ASSUME NEW g, SoundGroup(g), NEW s \in Schemas, HasAllTables(g, s), Valid(g, s),
         NEW c \in Declared(s)
  PROVE  Aligned(g, s, Mapping(g, s), c)
<1>1. c \in Classes /\ g.table[c].exists /\ ClassValid(g, s, c)
  BY DEF HasAllTables, Valid, Declared
<1>2. Fits(g.table[c].columns, s.class[c].properties) /\ g.primary[c] = s.class[c].primary
  BY <1>1, ValidFits
<1>3. PICK P \in Seq(Properties) : P = s.class[c].properties
  BY <1>1, ClassFacts
<1>4. DOMAIN P = 1 .. Len(P)
  OBVIOUS
<1>5. \A k \in 1 .. Len(P) : Mapping(g, s)[c][k] = PlaceOf(g.table[c].columns, P[k].name)
  BY <1>3, <1>4 DEF Mapping
<1> QED
  BY <1>1, <1>2, <1>3, <1>5 DEF Aligned

(* Another commit at the same version leaves an open process aligned.       *)
LEMMA StaysAligned ==
  ASSUME NEW g, SoundGroup(g), NEW s \in Schemas,
         NEW migrating \in BOOLEAN, ~migrating, ~Throws(g, s, migrating),
         NEW G, G = Updated(g, s, migrating),
         NEW r \in Schemas, NEW columnOf, NEW c \in Declared(r), Aligned(g, r, columnOf, c)
  PROVE  Aligned(G, r, columnOf, c)
<1>1. PICK T : T = Tabled(g, s, migrating)
  OBVIOUS
<1>2. CommittedAs(g, s, migrating, T, G)
  BY <1>1, Commits DEF Throws
<1>3. c \in Classes /\ SoundGroup(G) /\ g.table[c].exists
  BY <1>2 DEF CommittedAs, Declared, Aligned
<1>4. ~IsUpdated(g, s, migrating, c)
  BY <1>3 DEF IsUpdated
<1>5. /\ G.primary[c] = g.primary[c] /\ G.table[c].exists
      /\ SameShape(g.table[c].columns, G.table[c].columns)
  <2>1. KeptAs(g, G, c)
    BY <1>2, <1>3, <1>4, LeftAlone
  <2> QED
    BY <1>3, <2>1 DEF KeptAs
<1>6. PICK C \in Seq(Properties) : C = g.table[c].columns
  BY <1>3, GroupFacts, TableFacts
<1>7. PICK D \in Seq(Properties) : D = G.table[c].columns
  BY <1>3, GroupFacts, TableFacts
<1>8. PICK P : P = r.class[c].properties
  OBVIOUS
<1>9. /\ Fits(C, P) /\ g.primary[c] = r.class[c].primary
      /\ \A k \in 1 .. Len(P) : columnOf[c][k] = PlaceOf(C, P[k].name)
  BY <1>6, <1>8 DEF Aligned
<1>10. Fits(D, P)
  <2>1. Len(C) = Len(D) /\ \A j \in 1 .. Len(C), k \in 1 .. Len(P) : Same(C[j], P[k]) <=> Same(D[j], P[k])
    BY <1>5, <1>6, <1>7 DEF SameShape, Same, HasChanged
  <2>2. Distinct(D)
    BY <1>5, <1>6, <1>7, <1>9, SamePlaces DEF Fits
  <2> QED
    BY <1>9, <2>1, <2>2 DEF Fits
<1>11. \A name : PlaceOf(D, name) = PlaceOf(C, name)
  BY <1>5, <1>6, <1>7, SamePlaces
<1> QED
  BY <1>5, <1>7, <1>8, <1>9, <1>10, <1>11 DEF Aligned

-----------------------------------------------------------------------------
(* A row is written. *)

WrittenAs(g, G) ==
  /\ SoundGroup(G)
  /\ G.version = g.version /\ G.metadata = g.metadata /\ G.primary = g.primary
  /\ \A d \in Classes : G.table[d].columns = g.table[d].columns /\ G.table[d].exists = g.table[d].exists
  /\ \A d \in Classes : KeySound(G.table[d], G.primary[d])

(* The rows with a new one, or one in a place. *)
LEMMA RowsAre ==
  ASSUME NEW S, NEW old \in Seq(S), NEW row \in S, NEW place \in 0 .. Len(old),
         NEW rows, rows = WithRow(old, row, place)
  PROVE  /\ rows \in Seq(S) /\ DOMAIN rows = 1 .. Len(rows)
         /\ Len(rows) = IF place = 0 THEN Len(old) + 1 ELSE Len(old)
         /\ \A i \in 1 .. Len(rows) :
              rows[i] = IF i = place \/ i = Len(old) + 1 THEN row ELSE old[i]
<1>1. PICK n \in Nat : n = Len(old)
  OBVIOUS
<1>2. CASE place = 0
  <2>1. rows = Append(old, row)
    BY <1>2 DEF WithRow
  <2>2. /\ rows \in Seq(S) /\ Len(rows) = n + 1 /\ rows[n + 1] = row
        /\ \A i \in 1 .. n : rows[i] = old[i]
    BY <1>1, <2>1, Appended
  <2>3. \A i \in 1 .. n + 1 : i # place /\ (i = n + 1 \/ i \in 1 .. n)
    BY <1>2
  <2> QED
    BY <1>1, <1>2, <2>2, <2>3
<1>3. CASE place # 0
  <2>1. place \in 1 .. Len(old)
    BY <1>1, <1>3
  <2>2. rows = [old EXCEPT ![place] = row]
    BY <1>3 DEF WithRow
  <2>3. /\ rows \in Seq(S) /\ Len(rows) = n /\ DOMAIN rows = 1 .. n
        /\ \A i \in 1 .. n : rows[i] = IF i = place THEN row ELSE old[i]
    BY <1>1, <2>1, <2>2, Replaced
  <2>4. \A i \in 1 .. n : i # n + 1
    OBVIOUS
  <2> QED
    BY <1>1, <1>3, <2>3, <2>4
<1> QED
  BY <1>2, <1>3

(* The new row, or the old one's replacement, has no other row's key.       *)
Differ(rows, key) == \A i, j \in 1 .. Len(rows) : rows[i][key] = rows[j][key] => i = j

LEMMA OneRowPerKey ==
  ASSUME NEW S, NEW old \in Seq(S), NEW row \in S, NEW place \in 0 .. Len(old), NEW key,
         Differ(old, key),
         place = 0 => \A i \in 1 .. Len(old) : old[i][key] # row[key],
         place # 0 => old[place][key] = row[key],
         NEW rows, rows = WithRow(old, row, place)
  PROVE  Differ(rows, key)
<1>1. PICK n \in Nat : n = Len(old)
  OBVIOUS
<1>2. PICK m \in Nat : m = Len(rows)
  BY RowsAre
<1>3. /\ m = IF place = 0 THEN n + 1 ELSE n
      /\ \A i \in 1 .. m : rows[i] = IF i = place \/ i = n + 1 THEN row ELSE old[i]
  BY <1>1, <1>2, RowsAre
<1>4. SUFFICES ASSUME NEW i \in 1 .. m, NEW j \in 1 .. m, rows[i][key] = rows[j][key]
               PROVE  i = j
  BY <1>2 DEF Differ
<1>5. \A k, l \in 1 .. n : old[k][key] = old[l][key] => k = l
  BY <1>1 DEF Differ
<1>6. CASE place = 0
  <2>1. \A k \in 1 .. n : old[k][key] # row[key]
    BY <1>1, <1>6
  <2>2. \A k \in 1 .. m : k = n + 1 \/ (k \in 1 .. n /\ k # n + 1 /\ k # place)
    BY <1>3, <1>6
  <2>3. \A k \in 1 .. m : rows[k] = IF k = n + 1 THEN row ELSE old[k]
    BY <1>3, <2>2
  <2>4. CASE i = n + 1
    BY <1>4, <2>1, <2>2, <2>3, <2>4
  <2>5. CASE j = n + 1
    BY <1>4, <2>1, <2>2, <2>3, <2>5
  <2>6. CASE i # n + 1 /\ j # n + 1
    BY <1>4, <1>5, <2>2, <2>3, <2>6
  <2> QED
    BY <2>4, <2>5, <2>6
<1>7. CASE place # 0
  <2>1. m = n /\ old[place][key] = row[key]
    BY <1>3, <1>7
  <2>2. \A k \in 1 .. m : k # n + 1
    BY <2>1
  <2>3. \A k \in 1 .. m : rows[k] = IF k = place THEN row ELSE old[k]
    BY <1>3, <2>2
  <2>4. \A k \in 1 .. m : rows[k][key] = old[k][key]
    BY <2>1, <2>3
  <2> QED
    BY <1>4, <1>5, <2>1, <2>4
<1> QED
  BY <1>6, <1>7

Written(g, c, rows) == [g EXCEPT !.table[c].rows = rows]

LEMMA RowWritten ==
  ASSUME NEW g, SoundGroup(g), \A d \in Classes : KeySound(g.table[d], g.primary[d]),
         NEW c \in Classes, g.table[c].exists,
         NEW row \in Seq(Cells), Len(row) = Len(g.table[c].columns),
         NEW key, key = PlaceOf(g.table[c].columns, g.primary[c]),
         NEW place, place = RowFor(g.table[c], key, row),
         NEW rows, rows = WithRow(g.table[c].rows, row, place)
  PROVE  WrittenAs(g, Written(g, c, rows))
<1>1. PICK t \in Tables : t = g.table[c]
  BY GroupFacts
<1>2. PICK n \in Nat : n = Len(t.rows)
  BY TableFacts
<1>3. SoundTable(t, g.primary[c]) /\ KeySound(t, g.primary[c])
  BY <1>1, GroupFacts
<1>4. PICK C \in Seq(Properties) : C = t.columns
  BY TableFacts
<1>5. key \in 0 .. Len(C) /\ key \in Nat
  BY <1>1, <1>4, FirstOfName, SMTT(30)
<1>6. /\ place \in 0 .. n
      /\ key # 0 => /\ place = 0 => \A i \in 1 .. n : t.rows[i][key] # row[key]
                    /\ place # 0 => t.rows[place][key] = row[key]
  <2>1. CASE key = 0
    BY <1>1, <2>1 DEF RowFor
  <2>2. CASE key # 0
    <3>1. place = RowFor(t, key, row)
      BY <1>1
    <3>2. place \in 0 .. n
      BY <1>2, <1>5, <2>2, <3>1, FirstOfKey
    <3>3. place = 0 => \A i \in 1 .. n : t.rows[i][key] # row[key]
      <4>1. SUFFICES ASSUME place = 0 PROVE \A i \in 1 .. Len(t.rows) : t.rows[i][key] # row[key]
        BY <1>2
      <4>2. RowFor(t, key, row) = 0
        BY <3>1, <4>1
      <4> QED
        BY <1>5, <2>2, <4>2, FirstOfKey
    <3>4. place # 0 => t.rows[place][key] = row[key]
      BY <1>5, <2>2, <3>1, FirstOfKey
    <3> QED
      BY <3>2, <3>3, <3>4
  <2> QED
    BY <2>1, <2>2
<1>7. PICK R : R = Seq(Cells)
  OBVIOUS
<1>8. PICK old \in Seq(R) : old = t.rows
  BY <1>7, TableFacts
<1>9. rows \in Seq(Seq(Cells)) /\ \A r \in 1 .. Len(rows) : Len(rows[r]) = Len(C)
  <2>1. \A r \in 1 .. n : Len(old[r]) = Len(C)
    BY <1>2, <1>4, <1>8, TableFacts
  <2>2. place \in 0 .. Len(old) /\ Len(old) = n /\ rows = WithRow(old, row, place) /\ row \in R
    BY <1>1, <1>2, <1>6, <1>7, <1>8
  <2>3. /\ rows \in Seq(R)
        /\ Len(rows) = IF place = 0 THEN n + 1 ELSE n
        /\ \A i \in 1 .. Len(rows) : rows[i] = IF i = place \/ i = n + 1 THEN row ELSE old[i]
    BY <2>2, RowsAre
  <2>4. \A i \in 1 .. Len(rows) : i # n + 1 => i \in 1 .. n
    BY <2>3
  <2>5. Len(row) = Len(C)
    BY <1>1, <1>4
  <2>6. \A i \in 1 .. Len(rows) : Len(rows[i]) = Len(C)
    BY <2>1, <2>3, <2>4, <2>5
  <2> QED
    BY <1>7, <2>3, <2>6
<1>10. PICK u : u = [t EXCEPT !.rows = rows]
  OBVIOUS
<1>11. u = [columns |-> C, rows |-> rows, exists |-> t.exists]
  <2>1. t = [columns |-> t.columns, rows |-> t.rows, exists |-> t.exists]
    BY TableFacts
  <2> QED
    BY <1>4, <1>10, <2>1
<1>12. t.exists \in BOOLEAN /\ t.exists
  BY <1>1, TableFacts
<1>13. u \in Tables
  BY <1>9, <1>11, <1>12, TableOf
<1>14. u.columns = C /\ u.rows = rows /\ u.exists
  BY <1>11, <1>12
<1>15. PICK G : G = Written(g, c, rows)
  OBVIOUS
<1>16. PICK table : table = [g.table EXCEPT ![c] = u]
  OBVIOUS
<1>17. G = [version |-> g.version, metadata |-> g.metadata, table |-> table, primary |-> g.primary]
  <2>1. PICK H : H = [g EXCEPT !.table = table]
    OBVIOUS
  <2>2. g = [version |-> g.version, metadata |-> g.metadata, table |-> g.table, primary |-> g.primary]
    BY GroupFacts
  <2>3. H = [version |-> g.version, metadata |-> g.metadata, table |-> table, primary |-> g.primary]
    BY <2>1, <2>2
  <2>4. G = H
    BY <1>1, <1>10, <1>15, <1>16, <2>1, Zenon DEF Written
  <2> QED
    BY <2>3, <2>4
<1>18. /\ G.version = g.version /\ G.metadata = g.metadata /\ G.primary = g.primary
       /\ G.table = table
  BY <1>17
<1>19. table \in [Classes -> Tables] /\ table[c] = u /\ \A d \in Classes : d # c => table[d] = g.table[d]
  <2> HIDE DEF Tables
  <2>1. g.table \in [Classes -> Tables]
    BY GroupFacts
  <2> QED
    BY <1>13, <1>16, <2>1
<1>20. SoundTable(u, g.primary[c])
  BY <1>3, <1>4, <1>12, <1>14 DEF SoundTable
<1>21. SoundGroup(G)
  <2> HIDE DEF Tables, Keys
  <2>1. g.version \in Nat /\ g.metadata \in BOOLEAN /\ g.primary \in [Classes -> Keys]
    BY GroupFacts
  <2>2. G \in Groups
    <3>1. PICK T : T = [Classes -> Tables]
      OBVIOUS
    <3>2. PICK P : P = [Classes -> Keys]
      OBVIOUS
    <3>3. PICK table2 \in T : table2 = table
      BY <1>19, <3>1
    <3>4. PICK primary \in P : primary = g.primary
      BY <2>1, <3>2
    <3>5. G = [version |-> g.version, metadata |-> g.metadata, table |-> table2, primary |-> primary]
      BY <1>17, <3>3, <3>4
    <3>6. G \in [version : Nat, metadata : BOOLEAN, table : T, primary : P]
      BY <2>1, <3>5
    <3> QED
      BY <3>1, <3>2, <3>6, Zenon DEF Groups
  <2>3. \A d \in Classes : SoundTable(g.table[d], g.primary[d])
    BY GroupFacts
  <2>4. \A d \in Classes : SoundTable(G.table[d], G.primary[d])
    BY <1>18, <1>19, <1>20, <2>3, SMTT(30)
  <2> QED
    BY <2>2, <2>4 DEF SoundGroup
<1>22. KeySound(u, g.primary[c])
  <2>1. SUFFICES ASSUME g.primary[c] # NoName PROVE KeySound(u, g.primary[c])
    BY DEF KeySound
  <2>2. key = PlaceOf(C, g.primary[c])
    BY <1>1, <1>4
  <2>3. DOMAIN t.rows = 1 .. n
    BY <1>2, TableFacts
  <2>4. key # 0 /\ C[key].indexed
    BY <1>3, <1>4, <2>1, <2>2, SMTT(30) DEF KeySound
  <2>5. \A i, j \in DOMAIN t.rows : t.rows[i][key] = t.rows[j][key] => i = j
    BY <1>3, <1>4, <2>1, <2>2 DEF KeySound
  <2>6. Differ(old, key)
    BY <1>2, <1>8, <2>3, <2>5 DEF Differ
  <2>7. place \in 0 .. Len(old) /\ rows = WithRow(old, row, place) /\ row \in R
    BY <1>1, <1>2, <1>6, <1>7, <1>8
  <2>8. /\ place = 0 => \A i \in 1 .. Len(old) : old[i][key] # row[key]
        /\ place # 0 => old[place][key] = row[key]
    BY <1>2, <1>6, <1>8, <2>4
  <2>9. Differ(rows, key)
    BY <2>6, <2>7, <2>8, OneRowPerKey
  <2>10. DOMAIN rows = 1 .. Len(rows)
    BY <2>7, RowsAre
  <2>11. \A i, j \in DOMAIN rows : rows[i][key] = rows[j][key] => i = j
    <3> SUFFICES ASSUME NEW i \in DOMAIN rows, NEW j \in DOMAIN rows, rows[i][key] = rows[j][key]
                 PROVE  i = j
      OBVIOUS
    <3>1. i \in 1 .. Len(rows) /\ j \in 1 .. Len(rows)
      BY <2>10, Zenon
    <3>2. \A p, q \in 1 .. Len(rows) : rows[p][key] = rows[q][key] => p = q
      BY <2>9, Zenon DEF Differ
    <3> QED
      BY <3>1, <3>2, Zenon
  <2> QED
    BY <1>14, <2>2, <2>4, <2>11, SMTT(30) DEF KeySound
<1>23. \A d \in Classes : KeySound(G.table[d], G.primary[d])
  BY <1>18, <1>19, <1>22
<1>24. \A d \in Classes : G.table[d].columns = g.table[d].columns /\ G.table[d].exists = g.table[d].exists
  BY <1>1, <1>4, <1>12, <1>14, <1>18, <1>19, TableFacts
<1> QED
  BY <1>15, <1>18, <1>21, <1>23, <1>24 DEF WrittenAs

(* The row an open process writes has a value for every column.             *)
FitsIn(row, C) == row \in Seq(Cells) /\ Len(row) = Len(C)

LEMMA RowFits ==
  ASSUME NEW C \in Seq(Properties), NEW P \in Seq(Properties), Distinct(P), Fits(C, P),
         NEW columnOf, \A k \in 1 .. Len(P) : columnOf[k] = PlaceOf(C, P[k].name),
         NEW values \in [1 .. Len(P) -> RowValues]
  PROVE  FitsIn(RowOf(columnOf, values), C)
<1> DEFINE valueOf(i) == values[CHOOSE k \in DOMAIN values : columnOf[k] = i]
<1>1. PICK n \in Nat : n = Len(P)
  OBVIOUS
<1>2. n = Len(C)
  BY <1>1, OneColumnEach
<1>3. \A i \in 1 .. n : \E k \in 1 .. n : PlaceOf(C, P[k].name) = i
  <2>1. \A i \in 1 .. Len(C) : \E k \in 1 .. Len(P) : PlaceOf(C, P[k].name) = i
    BY OneColumnEach
  <2> QED
    BY <1>1, <1>2, <2>1
<1>4. DOMAIN values = 1 .. n /\ \A k \in 1 .. n : values[k] \in RowValues
  BY <1>1
<1>5. ASSUME NEW i \in 1 .. n PROVE valueOf(i) \in Cells
  <2>1. \E k \in DOMAIN values : columnOf[k] = i
    BY <1>1, <1>3, <1>4
  <2>2. (CHOOSE k \in DOMAIN values : columnOf[k] = i) \in DOMAIN values
    BY <2>1
  <2> QED
    BY <1>4, <2>2 DEF Cells
<1>6. RowOf(columnOf, values) = [i \in DOMAIN values |-> valueOf(i)]
  BY DEF RowOf
<1> HIDE DEF valueOf
<1>7. PICK row : row = [i \in 1 .. n |-> valueOf(i)]
  OBVIOUS
<1>8. row \in [1 .. n -> Cells]
  <2> HIDE DEF Cells
  <2> QED
    BY <1>5, <1>7
<1>9. row \in Seq(Cells) /\ Len(row) = n
  BY <1>8
<1>10. row = RowOf(columnOf, values)
  BY <1>4, <1>6, <1>7
<1> QED
  BY <1>2, <1>9, <1>10 DEF FitsIn

LEMMA ObjectStep ==
  ASSUME OpeningInd, NEW p \in Processes, NEW c \in Declared(schema[p]),
         NEW values \in [DOMAIN schema[p].class[c].properties -> RowValues],
         AddObject(p, c, values)
  PROVE  WrittenAs(file, file')
<1>1. PICK s \in Schemas : s = schema[p]
  BY DEF OpeningInd, TypeOK
<1>2. c \in Classes
  BY DEF Declared
<1>3. SoundGroup(file) /\ \A d \in Classes : KeySound(file.table[d], file.primary[d])
  BY DEF OpeningInd, FileSound
<1>4. Aligned(file, s, mapping[p], c)
  <2>1. OpenSound(p)
    BY DEF OpeningInd
  <2>2. pc[p] = "opened" /\ SchemaVersion(file) = schema[p].version
    BY DEF AddObject
  <2> QED
    BY <1>1, <2>1, <2>2 DEF OpenSound
<1>5. PICK P \in Seq(Properties) : P = s.class[c].properties
  BY <1>2, ClassFacts
<1>6. Distinct(P)
  BY <1>2, <1>5, ClassFacts
<1>7. PICK C \in Seq(Properties) : C = file.table[c].columns
  BY <1>2, <1>3, GroupFacts, TableFacts
<1>8. /\ Fits(C, P) /\ file.table[c].exists
      /\ \A k \in 1 .. Len(P) : mapping[p][c][k] = PlaceOf(C, P[k].name)
  BY <1>4, <1>5, <1>7 DEF Aligned
<1>9. values \in [1 .. Len(P) -> RowValues]
  BY <1>1, <1>5
<1>10. PICK row : row = RowOf(mapping[p][c], values)
  OBVIOUS
<1>11. row \in Seq(Cells) /\ Len(row) = Len(C)
  <2>1. PICK columnOf : columnOf = mapping[p][c]
    OBVIOUS
  <2>2. PICK w \in [1 .. Len(P) -> RowValues] : w = values
    BY <1>9
  <2>3. \A k \in 1 .. Len(P) : columnOf[k] = PlaceOf(C, P[k].name)
    BY <1>8, <2>1
  <2>4. Fits(C, P)
    BY <1>8
  <2>5. FitsIn(RowOf(columnOf, w), C)
    BY <1>6, <2>3, <2>4, RowFits
  <2> QED
    BY <1>10, <2>1, <2>2, <2>5 DEF FitsIn
<1>12. PICK key : key = PlaceOf(file.table[c].columns, file.primary[c])
  OBVIOUS
<1>13. PICK place : place = RowFor(file.table[c], key, row)
  OBVIOUS
<1>14. PICK rows : rows = WithRow(file.table[c].rows, row, place)
  OBVIOUS
<1>15. WrittenAs(file, Written(file, c, rows))
  BY <1>2, <1>3, <1>7, <1>8, <1>11, <1>12, <1>13, <1>14, RowWritten
<1>16. file' = Written(file, c, rows)
  BY <1>10, <1>12, <1>13, <1>14, Zenon DEF AddObject, Written
<1> QED
  BY <1>15, <1>16

-----------------------------------------------------------------------------
(* Every step keeps the invariant. *)

LEMMA EmptyGroupSound ==
  SoundGroup(EmptyGroup) /\ \A c \in Classes : KeySound(EmptyGroup.table[c], EmptyGroup.primary[c])
<1>1. PICK t \in Tables : t = NoTable
  BY EmptyTableFacts
<1>2. PICK key \in Keys : key = NoName
  BY DEF Keys
<1>3. PICK no \in BOOLEAN : no = FALSE
  OBVIOUS
<1>4. PICK table : table = [c \in Classes |-> t]
  OBVIOUS
<1>5. PICK primary : primary = [c \in Classes |-> key]
  OBVIOUS
<1>6. PICK g : g = [version |-> NotVersioned, metadata |-> no, table |-> table, primary |-> primary]
  OBVIOUS
<1>7. EmptyGroup = g
  BY <1>1, <1>2, <1>3, <1>4, <1>5, <1>6, Zenon DEF EmptyGroup
<1>8. ~t.exists /\ Len(t.columns) = 0 /\ Len(t.rows) = 0 /\ Distinct(t.columns)
  BY <1>1, EmptyTableFacts
<1>9. SoundTable(t, key)
  BY <1>2, <1>8 DEF SoundTable
<1>10. KeySound(t, key)
  BY <1>2 DEF KeySound
<1> HIDE DEF Tables, Keys
<1>11. table \in [Classes -> Tables] /\ primary \in [Classes -> Keys]
  BY <1>4, <1>5
<1>12. g \in Groups
  BY <1>6, <1>11, ObjectStoreAssumption DEF Groups
<1>13. \A c \in Classes : g.table[c] = t /\ g.primary[c] = key
  BY <1>4, <1>5, <1>6
<1> QED
  BY <1>7, <1>9, <1>10, <1>12, <1>13 DEF SoundGroup

LEMMA OpeningInit == Init => OpeningInd
<1> SUFFICES ASSUME Init PROVE OpeningInd
  OBVIOUS
<1>1. pc = [p \in Processes |-> "off"] /\ writer = {} /\ launches = 0 /\ file = EmptyGroup
      /\ mapping = [p \in Processes |-> <<>>]
      /\ schema \in [Processes -> {CHOOSE s \in Schemas : TRUE}]
  BY DEF Init
<1>2. TypeOK
  <2>1. (CHOOSE s \in Schemas : TRUE) \in Schemas
    BY RealmOpeningAssumption
  <2>2. PICK s \in Schemas : s = CHOOSE r \in Schemas : TRUE
    BY <2>1
  <2>3. schema \in [Processes -> {s}]
    BY <1>1, <2>2
  <2>4. schema \in [Processes -> Schemas]
    BY <2>3
  <2>5. 0 \in 0 .. MaxLaunches
    BY RealmOpeningAssumption
  <2> QED
    BY <1>1, <2>4, <2>5 DEF TypeOK, Places
<1>3. mapping = [p \in Processes |-> mapping[p]]
  <2>1. PICK none : none = <<>>
    OBVIOUS
  <2>2. mapping = [p \in Processes |-> none]
    BY <1>1, <2>1, Zenon
  <2> QED
    BY <2>2
<1>4. FileSound
  BY <1>1, EmptyGroupSound DEF FileSound
<1>5. \A p \in Processes : OpenSound(p)
  BY <1>1 DEF OpenSound
<1> QED
  BY <1>2, <1>3, <1>4, <1>5 DEF OpeningInd

(* Nobody else notices a step that leaves the file alone.                   *)
LEMMA OthersSound ==
  ASSUME OpeningInd, NEW p, file' = file,
         \A q \in Processes : q # p =>
           pc'[q] = pc[q] /\ schema'[q] = schema[q] /\ mapping'[q] = mapping[q]
  PROVE  \A q \in Processes : q # p => OpenSound(q)'
<1> SUFFICES ASSUME NEW q \in Processes, q # p PROVE OpenSound(q)'
  OBVIOUS
<1>1. pc'[q] = pc[q] /\ schema'[q] = schema[q] /\ mapping'[q] = mapping[q]
  OBVIOUS
<1>2. OpenSound(q)
  BY DEF OpeningInd
<1> QED
  BY <1>1, <1>2 DEF OpenSound

(* A step that leaves the file alone and does not open.                     *)
LEMMA NotOpening ==
  ASSUME OpeningInd, NEW p \in Processes, file' = file, TypeOK',
         mapping' = mapping \/ mapping' = [mapping EXCEPT ![p] = <<>>],
         pc'[p] # "opened",
         \A q \in Processes : q # p => pc'[q] = pc[q] /\ schema'[q] = schema[q]
  PROVE  OpeningInd'
<1>1. mapping = [q \in Processes |-> mapping[q]] /\ FileSound
  BY DEF OpeningInd
<1>2. mapping' = [q \in Processes |-> mapping'[q]]
  BY <1>1
<1>3. \A q \in Processes : q # p => mapping'[q] = mapping[q]
  BY <1>1
<1>4. \A q \in Processes : q # p => OpenSound(q)'
  BY <1>3, OthersSound
<1>5. OpenSound(p)'
  BY DEF OpenSound
<1>6. FileSound'
  BY <1>1 DEF FileSound
<1> QED
  BY <1>2, <1>4, <1>5, <1>6 DEF OpeningInd

LEMMA OpenFastStep ==
  ASSUME OpeningInd, NEW p \in Processes, OpenFast(p)
  PROVE  OpeningInd'
<1>1. /\ HasAllTables(file, schema[p]) /\ AtVersion(p) /\ Valid(file, schema[p])
      /\ pc' = [pc EXCEPT ![p] = "opened"]
      /\ mapping' = [mapping EXCEPT ![p] = Mapping(file, schema[p])]
      /\ file' = file /\ writer' = writer /\ schema' = schema /\ launches' = launches
  BY DEF OpenFast, Opened
<1>2. mapping = [q \in Processes |-> mapping[q]] /\ FileSound /\ TypeOK
  BY DEF OpeningInd
<1>3. pc \in [Processes -> Places] /\ schema[p] \in Schemas
  BY <1>2 DEF TypeOK
<1>4. TypeOK'
  BY <1>1, <1>2, <1>3 DEF TypeOK, Places
<1>5. mapping' = [q \in Processes |-> mapping'[q]]
  BY <1>1, <1>2
<1>6. \A q \in Processes : q # p =>
        pc'[q] = pc[q] /\ schema'[q] = schema[q] /\ mapping'[q] = mapping[q]
  BY <1>1, <1>2, <1>3
<1>7. \A q \in Processes : q # p => OpenSound(q)'
  BY <1>1, <1>6, OthersSound
<1>8. OpenSound(p)'
  <2>1. PICK s \in Schemas : s = schema[p]
    BY <1>3
  <2>2. SoundGroup(file)
    BY <1>2 DEF FileSound
  <2>3. SchemaVersion(file) = s.version
    BY <1>1, <2>1 DEF AtVersion, is_schema_at_version
  <2>4. s.version \in Nat /\ s.version # NotVersioned
    <3>1. s.version \in Nat \ {NotVersioned}
      BY RealmOpeningAssumption
    <3> QED
      BY <3>1
  <2>5. \A c \in Declared(s) : Aligned(file, s, Mapping(file, s), c)
    BY <1>1, <2>1, <2>2, OpenAligns
  <2>6. mapping'[p] = Mapping(file, s)
    BY <1>1, <1>2, <2>1
  <2>7. schema'[p] = s
    BY <1>1, <2>1
  <2> QED
    BY <1>1, <2>3, <2>4, <2>5, <2>6, <2>7 DEF OpenSound
<1>9. FileSound'
  BY <1>1, <1>2 DEF FileSound
<1> QED
  BY <1>4, <1>5, <1>7, <1>8, <1>9 DEF OpeningInd

(* What a commit does to the file. *)
LEMMA CommitFile ==
  ASSUME OpeningInd, NEW p \in Processes, Commit(p)
  PROVE  /\ FileSound'
         /\ SchemaVersion(file') = schema[p].version
         /\ SchemaVersion(file) # NotVersioned => SchemaVersion(file) <= schema[p].version
         /\ ~Migrating(p) => SchemaVersion(file) = schema[p].version
<1>1. PICK s \in Schemas : s = schema[p]
  BY DEF OpeningInd, TypeOK
<1>2. PICK migrating \in BOOLEAN : migrating = Migrating(p)
  BY DEF Migrating, is_schema_at_version
<1>3. SoundGroup(file) /\ \A c \in Classes : KeySound(file.table[c], file.primary[c])
  BY DEF OpeningInd, FileSound
<1>4. ~Throws(file, s, migrating) /\ file' = Updated(file, s, migrating)
  BY <1>1, <1>2 DEF Commit
<1>5. \A c \in Classes : KeySound(file'.table[c], file'.primary[c])
  BY <1>3, <1>4, KeysSurvive
<1>6. CommittedAs(file, s, migrating, Tabled(file, s, migrating), file')
  BY <1>3, <1>4, Commits DEF Throws
<1>7. SoundGroup(file')
  BY <1>6 DEF CommittedAs
<1>8. migrating = is_schema_at_version(file, s.version)
  BY <1>1, <1>2 DEF Migrating
<1>9. /\ SchemaVersion(file') = s.version
      /\ SchemaVersion(file) # NotVersioned => SchemaVersion(file) <= s.version
      /\ ~migrating => SchemaVersion(file) = s.version
  BY <1>3, <1>4, <1>8, CommitVersion
<1> QED
  BY <1>1, <1>2, <1>5, <1>7, <1>9 DEF FileSound

LEMMA CommitStep ==
  ASSUME OpeningInd, NEW p \in Processes, Commit(p)
  PROVE  OpeningInd'
<1>1. /\ pc' = [pc EXCEPT ![p] = "opened"]
      /\ mapping' = [mapping EXCEPT ![p] = Mapping(file', schema[p])]
      /\ writer' = {} /\ schema' = schema /\ launches' = launches
  BY DEF Commit, Opened
<1>2. mapping = [q \in Processes |-> mapping[q]] /\ FileSound /\ TypeOK
  BY DEF OpeningInd
<1>3. pc \in [Processes -> Places] /\ schema \in [Processes -> Schemas]
  BY <1>2 DEF TypeOK
<1>4. TypeOK'
  BY <1>1, <1>2, <1>3 DEF TypeOK, Places
<1>5. mapping' = [q \in Processes |-> mapping'[q]]
  BY <1>1, <1>2
<1>6. PICK s \in Schemas : s = schema[p]
  BY <1>3
<1>7. PICK migrating \in BOOLEAN : migrating = Migrating(p)
  BY DEF Migrating, is_schema_at_version
<1>8. SoundGroup(file) /\ ~Throws(file, s, migrating) /\ file' = Updated(file, s, migrating)
  BY <1>2, <1>6, <1>7 DEF Commit, FileSound
<1>9. /\ FileSound'
      /\ SchemaVersion(file') = s.version
      /\ SchemaVersion(file) # NotVersioned => SchemaVersion(file) <= s.version
      /\ ~migrating => SchemaVersion(file) = s.version
  BY <1>6, <1>7, CommitFile
<1>10. s.version \in Nat /\ s.version # NotVersioned
  <2>1. s.version \in Nat \ {NotVersioned}
    BY RealmOpeningAssumption
  <2> QED
    BY <2>1
<1>11. SchemaVersion(file) \in Nat
  BY <1>8, VersionIsNat
<1>12. OpenSound(p)'
  <2>1. \A c \in Declared(s) : Aligned(file', s, Mapping(file', s), c)
    BY <1>8, CommitAligns
  <2>2. mapping'[p] = Mapping(file', s) /\ schema'[p] = s
    BY <1>1, <1>2, <1>6
  <2> QED
    BY <1>9, <1>10, <2>1, <2>2 DEF OpenSound
<1>13. ASSUME NEW q \in Processes, q # p PROVE OpenSound(q)'
  <2>1. pc'[q] = pc[q] /\ schema'[q] = schema[q] /\ mapping'[q] = mapping[q]
    BY <1>1, <1>2, <1>3, <1>13
  <2>2. OpenSound(q)
    BY DEF OpeningInd
  <2>3. PICK r \in Schemas : r = schema[q]
    BY <1>3
  <2>4. r.version \in Nat
    <3>1. r.version \in Nat \ {NotVersioned}
      BY RealmOpeningAssumption
    <3> QED
      BY <3>1
  <2>5. SUFFICES ASSUME pc[q] = "opened"
                 PROVE  /\ SchemaVersion(file') # NotVersioned
                        /\ SchemaVersion(file') >= r.version
                        /\ SchemaVersion(file') = r.version =>
                             \A c \in Declared(r) : Aligned(file', r, mapping[q], c)
    BY <2>1, <2>3 DEF OpenSound
  <2>6. /\ SchemaVersion(file) # NotVersioned /\ SchemaVersion(file) >= r.version
        /\ SchemaVersion(file) = r.version => \A c \in Declared(r) : Aligned(file, r, mapping[q], c)
    BY <2>2, <2>3, <2>5 DEF OpenSound
  <2>7. SchemaVersion(file') # NotVersioned /\ SchemaVersion(file') >= r.version
    BY <1>9, <1>10, <1>11, <2>4, <2>6
  <2>8. ASSUME SchemaVersion(file') = r.version, NEW c \in Declared(r)
        PROVE  Aligned(file', r, mapping[q], c)
    <3>1. SchemaVersion(file) = r.version /\ s.version = r.version
      BY <1>9, <1>10, <1>11, <2>4, <2>6, <2>8
    <3>2. ~migrating
      BY <1>6, <1>7, <3>1 DEF Migrating, is_schema_at_version
    <3>3. Aligned(file, r, mapping[q], c)
      BY <2>6, <2>8, <3>1
    <3> QED
      BY <1>8, <3>2, <3>3, StaysAligned
  <2> QED
    BY <2>7, <2>8
<1> QED
  BY <1>4, <1>5, <1>9, <1>12, <1>13 DEF OpeningInd

LEMMA AddObjectStep ==
  ASSUME OpeningInd, NEW p \in Processes, NEW c \in Declared(schema[p]),
         NEW values \in [DOMAIN schema[p].class[c].properties -> RowValues],
         AddObject(p, c, values)
  PROVE  OpeningInd'
<1>1. WrittenAs(file, file')
  BY ObjectStep
<1>2. writer' = writer /\ pc' = pc /\ schema' = schema /\ mapping' = mapping /\ launches' = launches
  BY DEF AddObject
<1>3. /\ SoundGroup(file')
      /\ file'.version = file.version /\ file'.metadata = file.metadata
      /\ file'.primary = file.primary
      /\ \A d \in Classes : /\ file'.table[d].columns = file.table[d].columns
                            /\ file'.table[d].exists = file.table[d].exists
      /\ \A d \in Classes : KeySound(file'.table[d], file'.primary[d])
  BY <1>1 DEF WrittenAs
<1>4. FileSound'
  BY <1>3 DEF FileSound
<1>5. TypeOK'
  BY <1>2 DEF OpeningInd, TypeOK
<1>6. mapping' = [q \in Processes |-> mapping'[q]]
  BY <1>2 DEF OpeningInd
<1>7. SchemaVersion(file') = SchemaVersion(file)
  BY <1>3 DEF SchemaVersion
<1>8. ASSUME NEW q \in Processes PROVE OpenSound(q)'
  <2>1. OpenSound(q)
    BY DEF OpeningInd
  <2>2. ASSUME NEW d \in Declared(schema[q]), Aligned(file, schema[q], mapping[q], d)
        PROVE  Aligned(file', schema[q], mapping[q], d)
    <3>1. d \in Classes
      BY DEF Declared
    <3> QED
      BY <1>3, <2>2, <3>1 DEF Aligned
  <2> QED
    BY <1>2, <1>7, <2>1, <2>2 DEF OpenSound
<1> QED
  BY <1>4, <1>5, <1>6, <1>8 DEF OpeningInd

LEMMA OpeningStepKeeps ==
  ASSUME OpeningInd, [Next]_vars
  PROVE  OpeningInd'
<1>1. TypeOK
  BY DEF OpeningInd
<1>2. /\ writer \in SUBSET Processes /\ pc \in [Processes -> Places]
      /\ schema \in [Processes -> Schemas] /\ launches \in 0 .. MaxLaunches
  BY <1>1 DEF TypeOK
<1>3. ASSUME NEW p \in Processes, NEW s \in Schemas, Launch(p, s) PROVE OpeningInd'
  <2>1. /\ pc' = [pc EXCEPT ![p] = "opening"] /\ schema' = [schema EXCEPT ![p] = s]
        /\ launches < MaxLaunches /\ launches' = launches + 1
        /\ file' = file /\ writer' = writer /\ mapping' = mapping
    BY <1>3 DEF Launch
  <2>2. launches' \in 0 .. MaxLaunches
    BY <1>2, <2>1, RealmOpeningAssumption
  <2>3. TypeOK'
    BY <1>2, <2>1, <2>2 DEF TypeOK, Places
  <2> QED
    BY <1>2, <2>1, <2>3, NotOpening
<1>4. ASSUME NEW p \in Processes, NEW place \in Places, place # "opened",
             pc' = [pc EXCEPT ![p] = place], writer' \in SUBSET Processes,
             file' = file, schema' = schema, launches' = launches,
             mapping' = mapping \/ mapping' = [mapping EXCEPT ![p] = <<>>]
      PROVE  OpeningInd'
  <2>1. TypeOK'
    BY <1>2, <1>4 DEF TypeOK
  <2>2. pc'[p] = place /\ \A q \in Processes : q # p => pc'[q] = pc[q]
    BY <1>2, <1>4
  <2> QED
    BY <1>4, <2>1, <2>2, NotOpening
<1>5. ASSUME NEW p \in Processes, OpenFails(p) PROVE OpeningInd'
  BY <1>2, <1>4, <1>5 DEF OpenFails, Places
<1>6. ASSUME NEW p \in Processes, NeedsWrite(p) PROVE OpeningInd'
  BY <1>2, <1>4, <1>6 DEF NeedsWrite, Places
<1>7. ASSUME NEW p \in Processes, BeginWrite(p) PROVE OpeningInd'
  BY <1>2, <1>4, <1>7 DEF BeginWrite, Places
<1>8. ASSUME NEW p \in Processes, Cancel(p) PROVE OpeningInd'
  BY <1>2, <1>4, <1>8 DEF Cancel, Places
<1>9. ASSUME NEW p \in Processes, BlockFails(p) PROVE OpeningInd'
  BY <1>2, <1>4, <1>9 DEF BlockFails, Places
<1>10. ASSUME NEW p \in Processes, Die(p) PROVE OpeningInd'
  BY <1>2, <1>4, <1>10 DEF Die, LockAfter, Places
<1>11. ASSUME UNCHANGED vars PROVE OpeningInd'
  BY <1>11 DEF vars, OpeningInd, TypeOK, FileSound, OpenSound
<1>12. ASSUME NEW p \in Processes, OpeningStep(p) PROVE OpeningInd'
  BY <1>5, <1>6, <1>7, <1>8, <1>9, <1>12, OpenFastStep, CommitStep DEF OpeningStep
<1>13. ASSUME AddAnObject PROVE OpeningInd'
  BY <1>13, AddObjectStep DEF AddAnObject
<1> QED
  BY <1>3, <1>10, <1>11, <1>12, <1>13 DEF Next

-----------------------------------------------------------------------------
(* What follows. *)

LEMMA AlwaysInd == Spec => []OpeningInd
<1>1. Init => OpeningInd
  BY OpeningInit
<1>2. OpeningInd /\ [Next]_vars => OpeningInd'
  BY OpeningStepKeeps
<1> QED
  BY <1>1, <1>2, PTL DEF Spec

(* Every primary key in a file is an indexed column whose values differ.    *)
THEOREM PrimaryKeysHold == Spec => []KeysSound
<1>1. OpeningInd => KeysSound
  <2> SUFFICES ASSUME OpeningInd PROVE KeysSound
    OBVIOUS
  <2>1. \A c \in Classes : KeySound(file.table[c], file.primary[c])
    BY DEF OpeningInd, FileSound
  <2> QED
    BY <2>1 DEF KeysSound, KeySound
<1> QED
  BY <1>1, AlwaysInd, PTL

(* What an open process takes for the columns of its properties are those,  *)
(* as long as the file is at its version.                                   *)
THEOREM OpenProcessesAgree == Spec => []OpenMeansAligned
<1>1. OpeningInd => OpenMeansAligned
  <2> SUFFICES ASSUME OpeningInd, NEW p \in Processes, pc[p] = "opened",
                      SchemaVersion(file) = schema[p].version, NEW c \in Declared(schema[p])
               PROVE  /\ Len(file.table[c].columns) = Len(schema[p].class[c].properties)
                      /\ \A i \in DOMAIN schema[p].class[c].properties :
                           /\ mapping[p][c][i] \in DOMAIN file.table[c].columns
                           /\ Holds(file.table[c], mapping[p][c][i], schema[p].class[c].properties[i])
                      /\ file.primary[c] = schema[p].class[c].primary
    BY Zenon DEF OpenMeansAligned
  <2>1. PICK s \in Schemas : s = schema[p]
    BY DEF OpeningInd, TypeOK
  <2>2. c \in Classes
    BY DEF Declared
  <2>3. OpenSound(p) /\ SoundGroup(file)
    BY DEF OpeningInd, FileSound
  <2>4. Aligned(file, s, mapping[p], c)
    BY <2>1, <2>3 DEF OpenSound
  <2>5. PICK P \in Seq(Properties) : P = s.class[c].properties
    BY <2>2, ClassFacts
  <2>6. PICK C \in Seq(Properties) : C = file.table[c].columns
    BY <2>2, <2>3, GroupFacts, TableFacts
  <2>7. Distinct(P) /\ Fits(C, P) /\ file.primary[c] = s.class[c].primary
    BY <2>2, <2>4, <2>5, <2>6, ClassFacts DEF Aligned
  <2>8. \A k \in 1 .. Len(P) : mapping[p][c][k] = PlaceOf(C, P[k].name)
    BY <2>4, <2>5, <2>6 DEF Aligned
  <2>9. Len(C) = Len(P)
    BY <2>7, OneColumnEach
  <2>10. ASSUME NEW k \in 1 .. Len(P)
         PROVE  mapping[p][c][k] \in 1 .. Len(C) /\ Holds(file.table[c], mapping[p][c][k], P[k])
    <3>1. PICK i \in 1 .. Len(C) : i = mapping[p][c][k] /\ Same(C[i], P[k])
      <4>1. PlaceOf(C, P[k].name) \in 1 .. Len(C) /\ Same(C[PlaceOf(C, P[k].name)], P[k])
        BY <2>7, OneColumnEach
      <4> QED
        BY <2>8, <4>1
    <3> QED
      BY <2>6, <3>1 DEF Holds, Same, HasChanged
  <2>11. DOMAIN P = 1 .. Len(P) /\ DOMAIN C = 1 .. Len(C)
    OBVIOUS
  <2> QED
    BY <2>1, <2>5, <2>6, <2>7, <2>9, <2>10, <2>11
<1> QED
  BY <1>1, AlwaysInd, PTL

(* A step writes the file in one of two ways, or not at all.                *)
LEMMA FileSteps ==
  ASSUME OpeningInd, [Next]_vars
  PROVE  \/ file' = file
         \/ \E p \in Processes : Commit(p)
         \/ WrittenAs(file, file')
<1>1. ASSUME NEW p \in Processes, OpeningStep(p) PROVE file' = file \/ Commit(p)
  BY <1>1 DEF OpeningStep, OpenFast, OpenFails, NeedsWrite, BeginWrite, Cancel, BlockFails
<1>2. ASSUME NEW p \in Processes, Die(p) \/ \E s \in Schemas : Launch(p, s) PROVE file' = file
  BY <1>2 DEF Die, Launch
<1>3. ASSUME AddAnObject PROVE WrittenAs(file, file')
  BY <1>3, ObjectStep DEF AddAnObject
<1>4. ASSUME UNCHANGED vars PROVE file' = file
  BY <1>4 DEF vars
<1> QED
  BY <1>1, <1>2, <1>3, <1>4 DEF Next

(* No step takes a file back to an earlier version.                         *)
THEOREM FilesOnlyAdvance == Spec => VersionsGrow
<1>1. OpeningInd /\ [Next]_vars =>
        [SchemaVersion(file) # NotVersioned =>
           /\ SchemaVersion(file') # NotVersioned
           /\ SchemaVersion(file') >= SchemaVersion(file)]_vars
  <2> SUFFICES ASSUME OpeningInd, [Next]_vars, SchemaVersion(file) # NotVersioned
               PROVE  /\ SchemaVersion(file') # NotVersioned
                      /\ SchemaVersion(file') >= SchemaVersion(file)
    OBVIOUS
  <2>1. SoundGroup(file)
    BY DEF OpeningInd, FileSound
  <2>2. SchemaVersion(file) \in Nat
    BY <2>1, VersionIsNat
  <2>3. CASE file' = file
    BY <2>2, <2>3
  <2>4. ASSUME NEW p \in Processes, Commit(p)
        PROVE  SchemaVersion(file') # NotVersioned /\ SchemaVersion(file') >= SchemaVersion(file)
    <3>1. SchemaVersion(file') = schema[p].version /\ SchemaVersion(file) <= schema[p].version
      BY <2>4, CommitFile
    <3>2. PICK s \in Schemas : s = schema[p]
      BY DEF OpeningInd, TypeOK
    <3>3. s.version \in Nat \ {NotVersioned}
      BY RealmOpeningAssumption
    <3> QED
      BY <2>2, <3>1, <3>2, <3>3
  <2>5. CASE WrittenAs(file, file')
    <3>1. SchemaVersion(file') = SchemaVersion(file)
      BY <2>5 DEF WrittenAs, SchemaVersion
    <3> QED
      BY <2>2, <3>1
  <2> QED
    BY <2>3, <2>4, <2>5, FileSteps
<1> QED
  BY <1>1, AlwaysInd, PTL DEF Spec, VersionsGrow

(* A migration keeps the rows, and in them the values of what stays.        *)
DataKeptFor(old, new) == Len(new.rows) = Len(old.rows) /\ ValuesKept(old, new)

LEMMA CommitKeepsData ==
  ASSUME NEW g, SoundGroup(g), NEW s \in Schemas, NEW migrating \in BOOLEAN,
         ~Throws(g, s, migrating), NEW G, G = Updated(g, s, migrating), NEW c \in Classes
  PROVE  DataKeptFor(g.table[c], G.table[c])
<1>1. PICK T : T = Tabled(g, s, migrating)
  OBVIOUS
<1>2. CommittedAs(g, s, migrating, T, G)
  BY <1>1, Commits DEF Throws
<1>3. TabledAs(g, s, migrating, T) /\ SoundGroup(T) /\ SoundGroup(G)
  BY <1>2 DEF CommittedAs
<1>4. PICK t \in Tables : t = g.table[c]
  BY GroupFacts
<1>5. PICK v \in Tables : v = T.table[c]
  BY <1>3, GroupFacts
<1>6. PICK u \in Tables : u = G.table[c]
  BY <1>3, GroupFacts
<1>7. SoundTable(t, g.primary[c])
  BY <1>4, GroupFacts
<1>8. u.rows = v.rows /\ SameShape(v.columns, u.columns)
  <2>1. CASE c \in Declared(s)
    <3>1. SameButIndex(v, u)
      BY <1>2, <1>5, <1>6, <2>1 DEF CommittedAs
    <3> QED
      BY <3>1 DEF SameButIndex
  <2>2. CASE c \notin Declared(s)
    <3>1. u = v
      BY <1>2, <1>5, <1>6, <2>2 DEF CommittedAs
    <3> QED
      BY <3>1 DEF SameShape
  <2> QED
    BY <2>1, <2>2
<1>9. DataKeptFor(t, v)
  <2>1. CASE ~IsUpdated(g, s, migrating, c)
    <3>1. v = t
      BY <1>3, <1>4, <1>5, <2>1 DEF TabledAs
    <3>2. \A i, j \in 1 .. Len(t.columns) : Survives(t.columns[i], t.columns[j]) => i = j
      BY <1>7 DEF SoundTable, Distinct, Survives
    <3> QED
      BY <3>1, <3>2 DEF DataKeptFor, ValuesKept
  <2>2. CASE IsUpdated(g, s, migrating, c)
    <3>1. Len(v.rows) = Len(t.rows) /\ ValuesKept(Start(g, c), v)
      BY <1>3, <1>4, <1>5, <2>2 DEF TabledAs
    <3>2. CASE t.exists
      BY <1>4, <3>1, <3>2 DEF Start, DataKeptFor
    <3>3. CASE ~t.exists
      <4>1. Len(t.columns) = 0
        BY <1>7, <3>3 DEF SoundTable
      <4>2. 1 .. Len(t.columns) = {}
        BY <4>1
      <4> QED
        BY <3>1, <4>2 DEF DataKeptFor, ValuesKept
    <3> QED
      BY <3>2, <3>3
  <2> QED
    BY <2>1, <2>2
<1>10. DataKeptFor(t, u)
  <2>1. Len(v.columns) = Len(u.columns)
        /\ \A j \in 1 .. Len(v.columns) : /\ v.columns[j].name = u.columns[j].name
                                          /\ v.columns[j].type = u.columns[j].type
                                          /\ v.columns[j].nullable = u.columns[j].nullable
    BY <1>8 DEF SameShape
  <2>2. \A i \in 1 .. Len(t.columns), j \in 1 .. Len(u.columns) :
          Survives(t.columns[i], u.columns[j]) => Survives(t.columns[i], v.columns[j])
    BY <2>1 DEF Survives
  <2> QED
    BY <1>8, <1>9, <2>1, <2>2 DEF DataKeptFor, ValuesKept
<1> QED
  BY <1>4, <1>6, <1>10

THEOREM MigrationsKeepData == Spec => DataKept
<1>1. OpeningInd /\ [Next]_vars =>
        [SchemaVersion(file') # SchemaVersion(file) =>
           \A c \in Classes : DataKeptFor(file.table[c], file'.table[c])]_vars
  <2> SUFFICES ASSUME OpeningInd, [Next]_vars, SchemaVersion(file') # SchemaVersion(file)
               PROVE  \A c \in Classes : DataKeptFor(file.table[c], file'.table[c])
    OBVIOUS
  <2>1. ~WrittenAs(file, file')
    BY DEF WrittenAs, SchemaVersion
  <2>2. PICK p \in Processes : Commit(p)
    BY <2>1, FileSteps
  <2>3. PICK s \in Schemas : s = schema[p]
    BY DEF OpeningInd, TypeOK
  <2>4. PICK migrating \in BOOLEAN : migrating = Migrating(p)
    BY DEF Migrating, is_schema_at_version
  <2>5. SoundGroup(file) /\ ~Throws(file, s, migrating) /\ file' = Updated(file, s, migrating)
    BY <2>2, <2>3, <2>4 DEF Commit, OpeningInd, FileSound
  <2> QED
    BY <2>5, CommitKeepsData
<1>2. OpeningInd /\ OpeningInd' =>
        \A c \in Classes :
          DataKeptFor(file.table[c], file'.table[c]) =>
            /\ Len(file'.table[c].rows) = Len(file.table[c].rows)
            /\ \A i \in DOMAIN file.table[c].columns, j \in DOMAIN file'.table[c].columns :
                 Survives(file.table[c].columns[i], file'.table[c].columns[j]) =>
                   \A r \in DOMAIN file.table[c].rows : file'.table[c].rows[r][j] = file.table[c].rows[r][i]
  <2> SUFFICES ASSUME OpeningInd, OpeningInd', NEW c \in Classes,
                      DataKeptFor(file.table[c], file'.table[c])
               PROVE  /\ Len(file'.table[c].rows) = Len(file.table[c].rows)
                      /\ \A i \in DOMAIN file.table[c].columns, j \in DOMAIN file'.table[c].columns :
                           Survives(file.table[c].columns[i], file'.table[c].columns[j]) =>
                             \A r \in DOMAIN file.table[c].rows :
                               file'.table[c].rows[r][j] = file.table[c].rows[r][i]
    OBVIOUS
  <2>1. SoundGroup(file) /\ SoundGroup(file')
    BY DEF OpeningInd, FileSound
  <2>2. PICK t \in Tables : t = file.table[c]
    BY <2>1, GroupFacts
  <2>3. PICK u \in Tables : u = file'.table[c]
    BY <2>1, GroupFacts
  <2>4. /\ DOMAIN t.columns = 1 .. Len(t.columns) /\ DOMAIN t.rows = 1 .. Len(t.rows)
        /\ DOMAIN u.columns = 1 .. Len(u.columns)
    BY TableFacts
  <2> QED
    BY <2>2, <2>3, <2>4, Zenon DEF DataKeptFor, ValuesKept
<1>3. OpeningInd /\ OpeningInd' /\ [Next]_vars =>
        [SchemaVersion(file') # SchemaVersion(file) =>
           \A c \in Classes :
             LET old == file.table[c]  new == file'.table[c] IN
             /\ Len(new.rows) = Len(old.rows)
             /\ \A i \in DOMAIN old.columns, j \in DOMAIN new.columns :
                  Survives(old.columns[i], new.columns[j]) =>
                    \A r \in DOMAIN old.rows : new.rows[r][j] = old.rows[r][i]]_vars
  BY <1>1, <1>2, Zenon
<1> QED
  BY <1>3, AlwaysInd, PTL DEF Spec, DataKept

-----------------------------------------------------------------------------
(* What can keep a program from opening a file. *)

OtherShapeOf(g, s) ==
  /\ SchemaVersion(g) = s.version
  /\ \E c \in Declared(s) : g.table[c].exists /\ ~ClassValid(g, s, c)

NoIndexOf(s) ==
  \E c \in Declared(s) : \E q \in Range(s.class[c].properties) : q.indexed /\ q.type \notin Indexable

KeyStaysIn(g, class, c) ==
  /\ class.primary = g.primary[c]
  /\ \E q \in Range(g.table[c].columns), r \in Range(class.properties) :
       q.name = class.primary /\ Survives(q, r)

NewKeyOf(g, s) ==
  \E c \in Declared(s) :
    /\ s.class[c].primary # NoName /\ ~KeyStaysIn(g, s.class[c], c)
    /\ Len(g.table[c].rows) > 1

(* A table that was just brought to the schema is valid.                    *)
LEMMA InvalidWasThere ==
  ASSUME NEW g, SoundGroup(g), NEW s \in Schemas, NEW migrating \in BOOLEAN,
         NEW T, T = Tabled(g, s, migrating), NEW c \in Declared(s), ~ClassValid(T, s, c)
  PROVE  ~migrating /\ g.table[c].exists /\ ~ClassValid(g, s, c)
<1>1. TabledAs(g, s, migrating, T) /\ SoundGroup(T) /\ c \in Classes
  BY TabledClass, TabledSound DEF Declared
<1>2. ~IsUpdated(g, s, migrating, c)
  <2> SUFFICES ASSUME IsUpdated(g, s, migrating, c) PROVE ClassValid(T, s, c)
    OBVIOUS
  <2>1. Fits(T.table[c].columns, s.class[c].properties) /\ T.primary[c] = s.class[c].primary
    BY <1>1 DEF TabledAs
  <2> QED
    BY <1>1, <2>1, FitsIsValid
<1>3. T.table[c] = g.table[c] /\ T.primary[c] = g.primary[c]
  BY <1>1, <1>2 DEF TabledAs
<1>4. ~ClassValid(g, s, c)
  BY <1>3, Zenon DEF ClassValid
<1> QED
  BY <1>2, <1>4 DEF IsUpdated

(* The primary key can always be indexed.                                   *)
LEMMA OnlyAskedFor ==
  ASSUME NEW s \in Schemas, NEW g, ~IndexesPossible(g, s)
  PROVE  NoIndexOf(s)
<1>1. PICK c \in Declared(s) : \E i \in DOMAIN s.class[c].properties :
        /\ RequiresIndex(s.class[c], s.class[c].properties[i])
        /\ s.class[c].properties[i].type \notin Indexable
  BY DEF IndexesPossible
<1>2. c \in Classes
  BY DEF Declared
<1>3. PICK P \in Seq(Properties) : P = s.class[c].properties
  BY <1>2, ClassFacts
<1>4. PICK i \in 1 .. Len(P) : RequiresIndex(s.class[c], P[i]) /\ P[i].type \notin Indexable
  BY <1>1, <1>3
<1>5. P[i].name # s.class[c].primary
  <2> SUFFICES ASSUME P[i].name = s.class[c].primary PROVE FALSE
    OBVIOUS
  <2>1. P[i] \in Properties
    OBVIOUS
  <2>2. P[i].name # NoName
    BY <2>1, ObjectStoreAssumption DEF Properties, NoName
  <2>3. PICK k \in 1 .. Len(P) : P[k].name = s.class[c].primary /\ P[k].type \in Indexable
    BY <1>2, <1>3, <2>2, ClassFacts
  <2>4. Distinct(P)
    BY <1>2, <1>3, ClassFacts
  <2>5. k = i
    BY <2>3, <2>4 DEF Distinct
  <2> QED
    BY <1>4, <2>3, <2>5
<1>6. P[i].indexed
  BY <1>4, <1>5 DEF RequiresIndex
<1>7. P[i] \in Range(P)
  BY DEF Range
<1> QED
  BY <1>3, <1>4, <1>6, <1>7 DEF NoIndexOf

(* A key that stays keeps its values, which differ.                         *)
KeysDiffer(t, key) ==
  \A x, y \in 1 .. Len(t.rows) :
    t.rows[x][PlaceOf(t.columns, key)] = t.rows[y][PlaceOf(t.columns, key)] => x = y

LEMMA KeyKept ==
  ASSUME NEW g, SoundGroup(g), NEW c \in Classes, KeySound(g.table[c], g.primary[c]),
         NEW s \in Schemas, NEW migrating \in BOOLEAN, IsUpdated(g, s, migrating, c),
         NEW T, TabledAs(g, s, migrating, T), s.class[c].primary # NoName,
         KeyStaysIn(g, s.class[c], c)
  PROVE  KeysDiffer(T.table[c], s.class[c].primary)
<1>1. PICK t \in Tables : t = g.table[c]
  BY GroupFacts
<1>2. PICK u \in Tables : u = T.table[c]
  BY DEF TabledAs
<1>3. PICK C \in Seq(Properties) : C = t.columns
  BY TableFacts
<1>4. PICK D \in Seq(Properties) : D = u.columns
  BY TableFacts
<1>5. PICK P \in Seq(Properties) : P = s.class[c].properties
  BY ClassFacts
<1>6. PICK key : key = s.class[c].primary
  OBVIOUS
<1>7. SoundTable(t, key) /\ KeySound(t, key) /\ key # NoName
  BY <1>1, <1>6, GroupFacts DEF KeyStaysIn
<1>8. PICK q \in Range(C), r \in Range(P) : q.name = key /\ Survives(q, r)
  <2>1. \E q \in Range(g.table[c].columns), r \in Range(s.class[c].properties) :
          q.name = s.class[c].primary /\ Survives(q, r)
    BY Zenon DEF KeyStaysIn
  <2> QED
    BY <1>1, <1>3, <1>5, <1>6, <2>1, Zenon
<1>9. PICK i \in 1 .. Len(C), m \in 1 .. Len(P) : C[i].name = key /\ Survives(C[i], P[m])
  <2>1. PICK i \in 1 .. Len(C) : q = C[i]
    BY DEF Range
  <2>2. PICK m \in 1 .. Len(P) : r = P[m]
    BY DEF Range
  <2> QED
    BY <1>8, <2>1, <2>2
<1>10. Len(u.rows) = Len(t.rows) /\ Fits(D, P) /\ ValuesKept(Start(g, c), u)
  BY <1>1, <1>2, <1>4, <1>5 DEF TabledAs
<1>11. Start(g, c) = t
  <2>1. t.exists
    BY <1>3, <1>7, <1>9 DEF SoundTable
  <2> QED
    BY <1>1, <2>1 DEF Start
<1>12. PICK j \in 1 .. Len(D) : Same(D[j], P[m])
  BY <1>10 DEF Fits
<1>13. D[j].name = key /\ Survives(C[i], D[j])
  BY <1>9, <1>12 DEF Survives, Same, HasChanged
<1>14. PlaceOf(C, key) = i
  BY <1>3, <1>7, <1>9, FoundAt DEF SoundTable
<1>15. PlaceOf(D, key) = j
  BY <1>10, <1>13, FoundAt DEF Fits
<1>16. \A x \in 1 .. Len(t.rows) : u.rows[x][j] = t.rows[x][i]
  BY <1>3, <1>4, <1>10, <1>11, <1>13 DEF ValuesKept
<1>17. \A x, y \in 1 .. Len(t.rows) : t.rows[x][i] = t.rows[y][i] => x = y
  BY <1>3, <1>7, <1>14, TableFacts DEF KeySound
<1>18. \A x, y \in 1 .. Len(u.rows) : u.rows[x][j] = u.rows[y][j] => x = y
  BY <1>10, <1>16, <1>17
<1> QED
  BY <1>2, <1>4, <1>6, <1>15, <1>18 DEF KeysDiffer

(* Two rows with one key, after a migration.                                *)
LEMMA OnlyNewKeysClash ==
  ASSUME NEW g, SoundGroup(g), \A c \in Classes : KeySound(g.table[c], g.primary[c]),
         NEW s \in Schemas, NEW migrating \in BOOLEAN, migrating,
         NEW T, T = Tabled(g, s, migrating), ~PrimaryUnique(T, s)
  PROVE  NewKeyOf(g, s)
<1>1. TabledAs(g, s, migrating, T)
  BY TabledClass
<1>2. PICK c \in Declared(s) :
        /\ s.class[c].primary # NoName
        /\ Cardinality(Values(T.table[c], PlaceOf(T.table[c].columns, s.class[c].primary)))
             # Len(T.table[c].rows)
  BY DEF PrimaryUnique
<1>3. c \in Classes /\ IsUpdated(g, s, migrating, c)
  BY DEF Declared, IsUpdated
<1>4. PICK u \in Tables : u = T.table[c]
  BY <1>1, <1>3 DEF TabledAs
<1>5. PICK key : key = s.class[c].primary
  OBVIOUS
<1>6. ~KeysDiffer(u, key)
  <2>1. PICK k : k = PlaceOf(u.columns, key)
    OBVIOUS
  <2>2. Cardinality(Values(u, k)) # Len(u.rows)
    BY <1>2, <1>4, <1>5, <2>1
  <2>3. ~(\A x, y \in 1 .. Len(u.rows) : u.rows[x][k] = u.rows[y][k] => x = y)
    BY <2>2, AllDifferent
  <2> QED
    BY <2>1, <2>3 DEF KeysDiffer
<1>7. ~KeyStaysIn(g, s.class[c], c)
  <2> SUFFICES ASSUME KeyStaysIn(g, s.class[c], c) PROVE FALSE
    OBVIOUS
  <2>1. KeysDiffer(T.table[c], s.class[c].primary)
    BY <1>1, <1>2, <1>3, KeyKept
  <2> QED
    BY <1>4, <1>5, <1>6, <2>1
<1>8. Len(u.rows) > 1
  <2>1. PICK n \in Nat : n = Len(u.rows)
    BY TableFacts
  <2>2. PICK x \in 1 .. n, y \in 1 .. n : x # y
    BY <1>6, <2>1 DEF KeysDiffer
  <2> QED
    BY <2>1, <2>2
<1>9. Len(g.table[c].rows) = Len(u.rows)
  BY <1>1, <1>3, <1>4 DEF TabledAs
<1> QED
  BY <1>2, <1>7, <1>8, <1>9 DEF NewKeyOf

LEMMA ThrowsForCause ==
  ASSUME NEW g, SoundGroup(g), \A c \in Classes : KeySound(g.table[c], g.primary[c]),
         NEW s \in Schemas, NEW migrating \in BOOLEAN,
         migrating = is_schema_at_version(g, s.version), Throws(g, s, migrating)
  PROVE  SchemaVersion(g) > s.version \/ OtherShapeOf(g, s) \/ NoIndexOf(s) \/ NewKeyOf(g, s)
<1>1. PICK T : T = Tabled(g, s, migrating)
  OBVIOUS
<1>2. CASE TooNewByNow(g, s.version)
  BY <1>2 DEF TooNewByNow, TooNew
<1>3. CASE ~Valid(T, s)
  <2>1. PICK c \in Declared(s) : ~ClassValid(T, s, c)
    BY <1>3 DEF Valid
  <2>2. ~migrating /\ g.table[c].exists /\ ~ClassValid(g, s, c)
    BY <1>1, <2>1, InvalidWasThere
  <2>3. SchemaVersion(g) = s.version
    BY <2>2 DEF is_schema_at_version
  <2> QED
    BY <2>2, <2>3 DEF OtherShapeOf
<1>4. CASE ~IndexesPossible(T, s)
  BY <1>4, OnlyAskedFor
<1>5. CASE migrating /\ ~PrimaryUnique(T, s)
  BY <1>1, <1>5, OnlyNewKeysClash
<1> QED
  BY <1>1, <1>2, <1>3, <1>4, <1>5 DEF Throws, ThrowsBeforeBlock

(* A process only turns to "failed" in two ways.                            *)
LEMMA FailingSteps ==
  ASSUME OpeningInd, Next, NEW p \in Processes, pc[p] # "failed", pc'[p] = "failed"
  PROVE  OpenFails(p) \/ Cancel(p)
<1>1. pc \in [Processes -> Places]
  BY DEF OpeningInd, TypeOK
<1>2. ASSUME NEW q \in Processes, OpenFails(q) \/ Cancel(q) PROVE OpenFails(p) \/ Cancel(p)
  <2>1. pc' = [pc EXCEPT ![q] = "failed"]
    BY <1>2 DEF OpenFails, Cancel
  <2>2. q = p
    BY <1>1, <2>1
  <2> QED
    BY <1>2, <2>2
<1>3. ASSUME NEW q \in Processes,
             OpenFast(q) \/ NeedsWrite(q) \/ BeginWrite(q) \/ BlockFails(q) \/ Commit(q) \/ Die(q)
      PROVE  FALSE
  BY <1>1, <1>3 DEF OpenFast, NeedsWrite, BeginWrite, BlockFails, Commit, Opened, Die
<1>4. ASSUME NEW q \in Processes, NEW s \in Schemas, Launch(q, s) PROVE FALSE
  BY <1>1, <1>4 DEF Launch
<1>5. ASSUME AddAnObject PROVE FALSE
  BY <1>5 DEF AddAnObject, AddObject
<1> QED
  BY <1>2, <1>3, <1>4, <1>5 DEF Next, OpeningStep

(* A program that cannot open a file has one of four reasons.  In           *)
(* particular it never fails because of where another process has brought   *)
(* the file in between, unless that is a later version or another schema of *)
(* the same version.                                                        *)
THEOREM FailuresHaveACause == Spec => FailsOnlyForCause
<1>1. ASSUME OpeningInd, [Next]_vars, NEW p \in Processes, pc[p] # "failed", pc'[p] = "failed"
      PROVE  \/ SchemaVersion(file) > schema[p].version
             \/ OtherShape(p) \/ ~AsksForNoIndex(p) \/ NewKey(p)
  <2>1. Next
    BY <1>1 DEF vars
  <2>2. PICK s \in Schemas : s = schema[p]
    BY <1>1 DEF OpeningInd, TypeOK
  <2>3. SoundGroup(file) /\ \A c \in Classes : KeySound(file.table[c], file.primary[c])
    BY <1>1 DEF OpeningInd, FileSound
  <2>4. CASE OpenFails(p)
    <3>1. CASE TooNew(file, schema[p].version)
      BY <3>1 DEF TooNew
    <3>2. CASE AtVersion(p) /\ ~Valid(file, schema[p])
      BY <3>2 DEF AtVersion, is_schema_at_version, Valid, OtherShape
    <3> QED
      BY <2>4, <3>1, <3>2 DEF OpenFails
  <2>5. CASE Cancel(p)
    <3>1. PICK migrating \in BOOLEAN : migrating = Migrating(p)
      BY DEF Migrating, is_schema_at_version
    <3>2. Throws(file, s, migrating) /\ migrating = is_schema_at_version(file, s.version)
      BY <2>2, <2>5, <3>1 DEF Cancel, Migrating
    <3>3. \/ SchemaVersion(file) > s.version
          \/ OtherShapeOf(file, s) \/ NoIndexOf(s) \/ NewKeyOf(file, s)
      BY <2>3, <3>2, ThrowsForCause
    <3>4. OtherShapeOf(file, s) => OtherShape(p)
      BY <2>2, Zenon DEF OtherShapeOf, OtherShape
    <3>5. NoIndexOf(s) => ~AsksForNoIndex(p)
      BY <2>2, Zenon DEF NoIndexOf, AsksForNoIndex
    <3>6. NewKeyOf(file, s) => NewKey(p)
      <4>1. \A class, c : KeyStaysIn(file, class, c) = KeyStays(class, c)
        BY DEF KeyStaysIn, KeyStays
      <4> QED
        BY <2>2, <4>1, Zenon DEF NewKeyOf, NewKey
    <3> QED
      BY <2>2, <3>3, <3>4, <3>5, <3>6
  <2> QED
    BY <1>1, <2>1, <2>4, <2>5, FailingSteps
<1>2. OpeningInd /\ [Next]_vars =>
        [\A p \in Processes :
           pc[p] # "failed" /\ pc'[p] = "failed" =>
             \/ SchemaVersion(file) > schema[p].version
             \/ OtherShape(p) \/ ~AsksForNoIndex(p) \/ NewKey(p)]_vars
  BY <1>1, Zenon
<1> QED
  BY <1>2, AlwaysInd, PTL DEF Spec, FailsOnlyForCause

=============================================================================
