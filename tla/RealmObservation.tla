--------------------------- MODULE RealmObservation ---------------------------
(***************************************************************************)
(* RealmObservation (TransactLogHandler in RLMObservation.mm): before a     *)
(* realm moves to another version it reads the log and works out which      *)
(* observed objects change, by the row each has at that place of the log.   *)
(* The table is one that other threads, or the reversed log of a rollback,  *)
(* change instruction by instruction; the handler sees rows only.           *)
(*                                                                         *)
(* Rows and columns are counted from 0, as in the log.                      *)
(***************************************************************************)
EXTENDS Naturals, Sequences, SequencesExt, FiniteSets

CONSTANTS
  Objects,
  MaxInstructions (* bound: instructions of the log *)

New == "new" (* an object the log adds; nobody observes it yet *)
NoList == "none"

ASSUME RealmObservationAssumption ==
  IsFiniteSet(Objects) /\ Objects \intersect {New, NoList} = {} /\ MaxInstructions \in Nat

Fields == {0, 2}
List == 1

Nothing == [object |-> New, dangling |-> FALSE]

VARIABLES
  rollingBack, (* the log is the reverse of the own transaction's           *)
  rows,        (* the object in each row                                    *)
  observers,   (* ObserverState: object and row                             *)
  marked,      (* the columns marked as changed, by object                  *)
  size,        (* of ObserverState::changes, by object                      *)
  activeLinkList, (* whose change it points to, if it still does            *)
  invalidated,
  selected,    (* the object whose list the log has selected                *)
  changed,     (* the columns the log changes, by object                    *)
  erased,
  moved,       (* objects the log put into another row                      *)
  lost,        (* those with a change of their list that went to freed memory *)
  instructions

handler == <<observers, marked, size, activeLinkList, invalidated>>
logState == <<selected, changed, erased, moved>>
observationVars == <<rollingBack, rows, handler, logState, lost, instructions>>

ObjectsOf(some) == {some[k].object : k \in DOMAIN some}
Observed == ObjectsOf(observers) \union invalidated

(* The observers that are some of these, in their order.                     *)
Only(all, these) ==
  LET upTo[n \in 0 .. Len(all)] ==
        IF n = 0 THEN <<>>
        ELSE IF all[n] \in these THEN Append(upTo[n - 1], all[n]) ELSE upTo[n - 1]
  IN upTo[Len(all)]

(* findObservers: some objects are observed; sorted by row.                  *)
ObservationInit ==
  /\ rollingBack \in BOOLEAN
  /\ rows \in SetToSeqs(Objects)
  /\ \E some \in SUBSET Objects \ {{}} :
       observers = Only([k \in DOMAIN rows |-> [object |-> rows[k], row |-> k - 1]],
                        [object : some, row : Nat])
  /\ marked = [o \in Objects |-> {}]
  /\ size = [o \in Objects |-> 0]
  /\ activeLinkList = Nothing
  /\ invalidated = {}
  /\ selected = NoList
  /\ changed = [o \in Objects |-> {}]
  /\ erased = {}
  /\ moved = {}
  /\ lost = {}
  /\ instructions = 0

-----------------------------------------------------------------------------
Step ==
  /\ instructions < MaxInstructions /\ instructions' = instructions + 1
  /\ UNCHANGED rollingBack

ObjectAt(i) == rows[i + 1]
RowCount == Len(rows)

Changes(i, column) ==
  changed' = IF ObjectAt(i) = New THEN changed
             ELSE [changed EXCEPT ![ObjectAt(i)] = @ \union {column}]

(* getChange: the vector of changes grows with the column; what pointed into *)
(* it before dangles.                                                        *)
Grown(object, column) ==
  IF size[object] > column THEN size[object]
  ELSE IF 2 * size[object] > column + 1 THEN 2 * size[object] ELSE column + 1

GetChange(object, column) ==
  /\ size' = [size EXCEPT ![object] = Grown(object, column)]
  /\ activeLinkList' = IF activeLinkList.object = object /\ Grown(object, column) # size[object]
               THEN [activeLinkList EXCEPT !.dangling = TRUE] ELSE activeLinkList

(* lower_bound over the observers, which need not be sorted any more.        *)
FirstNotBefore(row) ==
  LET from[len \in 0 .. Len(observers)] == [first \in Nat |->
        LET middle == first + len \div 2 IN
        IF len = 0 THEN first
        ELSE IF observers[middle + 1].row < row THEN from[len - len \div 2 - 1][middle + 1]
        ELSE from[len \div 2][first]]
  IN from[Len(observers)][0] + 1

DirtyAt(row) ==
  {observers[k].object : k \in {j \in DOMAIN observers :
                                  j = FirstNotBefore(row) /\ observers[j].row = row}}

MarkDirty(row, column) ==
  \/ /\ DirtyAt(row) = {}
     /\ UNCHANGED handler
  \/ \E object \in DirtyAt(row) :
       /\ GetChange(object, column)
       /\ marked' = [marked EXCEPT ![object] = @ \union {column}]
       /\ UNCHANGED <<observers, invalidated>>

(* set_int and all that set a field. *)
SetField(i, column) ==
  /\ Step /\ i < RowCount
  /\ Changes(i, column)
  /\ MarkDirty(i, column)
  /\ UNCHANGED <<rows, selected, erased, moved, lost>>

(* insert_empty_rows does nothing: "rows are only inserted at the end".  In  *)
(* the reverse of an erasure they are not, and what is in the row goes to    *)
(* the end.                                                                  *)
InsertEmptyRows ==
  /\ Step /\ ~rollingBack
  /\ rows' = Append(rows, New)
  /\ UNCHANGED <<handler, logState, lost>>

InsertRowsBack(i) ==
  /\ Step /\ rollingBack /\ i <= RowCount
  /\ rows' = IF i = RowCount THEN Append(rows, New)
             ELSE Append([rows EXCEPT ![i + 1] = New], ObjectAt(i))
  /\ moved' = IF i = RowCount THEN moved ELSE moved \union ({ObjectAt(i)} \ {New})
  /\ UNCHANGED <<handler, selected, changed, erased, lost>>

(* erase_rows.  The third number in the log is the count of rows before, so  *)
(* the observer of the object that moves does not follow.                    *)
LastRowNdx == RowCount

NobodyGoes(row) == observers (* Mutant: the observers of the row itself stay. *)

Staying(row) == Only(observers, {o \in Range(observers) : o.row # row})

Following(o, row) ==
  CASE ~rollingBack /\ o.row = LastRowNdx -> [o EXCEPT !.row = row]
    [] rollingBack /\ o.row > row -> [o EXCEPT !.row = @ - 1]
    [] OTHER -> o

(* The vector of changes of an observer that is erased goes with it.         *)
Freed(gone) ==
  activeLinkList' = IF activeLinkList.object \in gone
                    THEN [activeLinkList EXCEPT !.dangling = TRUE] ELSE activeLinkList

(* Of several new rows the log may erase another than the one whose list is  *)
(* selected.                                                                 *)
Deselected(object) ==
  selected' \in IF selected # object THEN {selected}
               ELSE {NoList} \union ({object} \intersect {New})

EraseRows(i) ==
  /\ Step /\ i < RowCount /\ (rollingBack => i = RowCount - 1)
  /\ rows' = IF i = RowCount - 1 THEN Front(rows)
             ELSE Front([rows EXCEPT ![i + 1] = Last(rows)])
  /\ erased' = erased \union ({ObjectAt(i)} \ {New})
  /\ moved' = IF i = RowCount - 1 THEN moved ELSE moved \union ({Last(rows)} \ {New})
  /\ Deselected(ObjectAt(i))
  /\ LET gone == ObjectsOf(observers) \ ObjectsOf(Staying(i)) IN
     /\ invalidated' = invalidated \union gone
     /\ Freed(gone)
  /\ observers' = [k \in DOMAIN Staying(i) |-> Following(Staying(i)[k], i)]
  /\ UNCHANGED <<marked, size, changed, lost>>

TableCleared ==
  /\ Step /\ ~rollingBack
  /\ rows' = <<>>
  /\ erased' = erased \union (Range(rows) \ {New})
  /\ selected' = NoList
  /\ invalidated' = invalidated \union ObjectsOf(observers)
  /\ Freed(ObjectsOf(observers))
  /\ observers' = <<>>
  /\ UNCHANGED <<marked, size, changed, moved, lost>>

(* link_list_insert and the others; select_link_list comes first unless the  *)
(* list is selected already, and again after instructions for other tables.  *)
FirstForRow(row) == SelectInSeq(observers, LAMBDA o : o.row = row)

SelectLinkList(i) ==
  /\ Step /\ i < RowCount
  /\ selected' = ObjectAt(i)
  /\ IF FirstForRow(i) = 0
     THEN activeLinkList' = Nothing /\ UNCHANGED size
     ELSE LET object == observers[FirstForRow(i)].object IN
          /\ activeLinkList' = [object |-> object, dangling |-> FALSE]
          /\ size' = [size EXCEPT ![object] = Grown(object, List)]
  /\ UNCHANGED <<rows, observers, marked, invalidated, changed, erased, moved, lost>>

(* Where a change of the selected list goes: to the change activeLinkList    *)
(* points to; if that was freed, to no one, or to whom the memory went.      *)
Receivers ==
  IF activeLinkList.dangling
  THEN {New} \union {o \in ObjectsOf(observers) : size[o] > List}
  ELSE {activeLinkList.object}

LinkListChange(i) ==
  /\ Step /\ i < RowCount /\ selected = ObjectAt(i)
  /\ Changes(i, List)
  /\ \E object \in Receivers :
       marked' = IF object = New THEN marked
                 ELSE [marked EXCEPT ![object] = @ \union {List}]
  /\ lost' = IF activeLinkList.dangling THEN lost \union {selected} ELSE lost
  /\ UNCHANGED <<rows, observers, size, activeLinkList, invalidated, selected, erased, moved>>

ObservationNext ==
  \/ \E i \in 0 .. Cardinality(Objects) + MaxInstructions :
       \/ \E column \in Fields : SetField(i, column)
       \/ InsertRowsBack(i) \/ EraseRows(i) \/ SelectLinkList(i) \/ LinkListChange(i)
  \/ InsertEmptyRows \/ TableCleared

ObservationSpec == ObservationInit /\ [][ObservationNext]_observationVars

-----------------------------------------------------------------------------
(* Properties.  They are about objects the log leaves in their rows, whatever *)
(* it erases or inserts around them, in a rollback too.  Who observes an     *)
(* object that moves may be told of another one's changes, or of none: an    *)
(* erasure moves the last row and the handler looks for the one behind it    *)
(* (RLMObservation.mm:564), and of an insertion that moves a row it takes no *)
(* notice (RLMObservation.mm:552).                                           *)

(* Who observes an object hears that it is gone exactly when it is erased,   *)
(* although observers are found by rows and removed while the handler walks  *)
(* over them (RLMObservation.mm:556-573).                                    *)
Invalidated == \A o \in Observed \ moved : o \in invalidated <=> o \in erased

(* Of the fields of an object observers are told of none that does not       *)
(* change.  Of each that does they are told in a rollback always, and in     *)
(* another log as long as no observed object moves: an observer that got     *)
(* another row leaves the order in which observers are searched              *)
(* (RLMObservation.mm:485).                                                  *)
FieldsTold ==
  \A o \in ObjectsOf(observers) \ moved :
    /\ marked[o] \intersect Fields \subseteq changed[o]
    /\ (rollingBack \/ Observed \intersect moved = {}) =>
         changed[o] \intersect Fields \subseteq marked[o]

(* Of a list that changes they are told, if no change was lost to freed      *)
(* memory, and of no other list, if none of any list was.                    *)
ListsTold ==
  \A o \in ObjectsOf(observers) \ moved :
    /\ List \in changed[o] => List \in marked[o] \/ o \in lost
    /\ List \in marked[o] => List \in changed[o] \/ lost # {}

(* And one is lost only if a later column of the object changes while its    *)
(* list is selected: then the vector that activeLinkList points into grows   *)
(* (RLMObservation.mm:423).                                                  *)
LostOnlyIfGrown ==
  \A o \in lost \ ({New} \union moved) : \E column \in changed[o] : column > List

(* All: what the observers of this realm hear of a log.                      *)
ObserversTold == Invalidated /\ FieldsTold /\ ListsTold /\ LostOnlyIfGrown

=============================================================================
