----------------------------- MODULE TransactLog -----------------------------
(***************************************************************************)
(* TransactLog (realm/impl/transact_log.hpp): one write transaction        *)
(* records what it does to tables in a log.  Instructions say nothing of   *)
(* the table or the list they are for: they follow a selection, and the    *)
(* encoder keeps caches to select only what changes.  Other groups apply   *)
(* the log to reach the same state; a rollback applies its reverse, which  *)
(* TransactReverser makes while it reads the log forward.                  *)
(*                                                                         *)
(* A table has rows, with a value and a list of links each, and columns.   *)
(* What applies an instruction, and the do_select_ functions, are in       *)
(* Realm's compiled core.                                                  *)
(***************************************************************************)
EXTENDS Naturals, Sequences, SequencesExt

CONSTANTS
  Tables,
  Addresses,    (* where list accessors can live        *)
  RowsAtStart,  (* bound: rows of a table before        *)
  MaxRows,      (* bound: rows of a table               *)
  MaxModifications      (* bound: modifications in the transaction *)

ASSUME TransactLogAssumption ==
  /\ RowsAtStart \in Nat /\ MaxRows \in Nat /\ MaxModifications \in Nat
  /\ 0 \notin Tables /\ 0 \notin Addresses (* what the encoder caches when nothing is selected *)

VARIABLES
  group,  (* the tables, as the transaction sees them                      *)
  view,   (* the list each accessor is for, by table and row               *)
  cache,  (* what the encoder thinks is selected                           *)
  log,
  modifications

logVars == <<group, view, cache, log, modifications>>

(* Rows and columns are numbered by the place they had; 0 is a new one.     *)
NewRow == [id |-> 0, value |-> 0, links |-> 0]
Links == 2 (* the column of the lists *)

None == <<0, 0>>
Detached == <<0, 1>> (* an accessor lives on when its list is gone *)
Attached(place) == place \notin {None, Detached}

Before == [t \in Tables |->
  [rows |-> [i \in 1 .. RowsAtStart |-> [id |-> i, value |-> 0, links |-> 1]],
   columns |-> <<1, Links>>]]

-----------------------------------------------------------------------------
(* Instructions and what they do to a group, with the table and the list    *)
(* they select.                                                             *)
Instr(op, a, b) == [op |-> op, a |-> a, b |-> b]

EraseUnordered(rows, i) ==
  IF i = Len(rows) THEN Front(rows) ELSE [Front(rows) EXCEPT ![i] = Last(rows)]

InsertUnordered(rows, i) ==
  IF i > Len(rows) THEN Append(rows, NewRow)
  ELSE Append([rows EXCEPT ![i] = NewRow], rows[i])

(* Where a row is after another one was erased or inserted.                 *)
AfterErase(place, t, i, count) ==
  IF place = <<t, i>> THEN Detached
  ELSE IF place = <<t, count>> THEN <<t, i>> ELSE place

AfterInsert(place, t, i, count) == IF place = <<t, i>> THEN <<t, count + 1>> ELSE place

Start(g) == [group |-> g, table |-> 0, list |-> None]

ListAt(s, column, row) ==
  IF s.table # 0 /\ column \in DOMAIN s.group[s.table].columns
       /\ s.group[s.table].columns[column] = Links
       /\ row \in DOMAIN s.group[s.table].rows
  THEN <<s.table, row>> ELSE None

ApplyRows(s, i) ==
  LET t == s.table  rows == s.group[t].rows
      With(new, list) == [s EXCEPT !.group[t].rows = new, !.list = list]
  IN CASE i.op = "Set" -> IF i.a \in DOMAIN rows THEN With([rows EXCEPT ![i.a].value = i.b], s.list) ELSE s
       [] i.op = "InsertRow" -> With(Append(rows, NewRow), s.list)
       [] i.op = "EraseLastRow" -> With(Front(rows), AfterErase(s.list, t, Len(rows), Len(rows)))
       [] i.op = "EraseRow" -> With(EraseUnordered(rows, i.a), AfterErase(s.list, t, i.a, Len(rows)))
       [] i.op = "InsertUnordered" ->
            With(InsertUnordered(rows, i.a), AfterInsert(s.list, t, i.a, Len(rows)))
       [] i.op = "Clear" -> With(<<>>, IF s.list[1] = t THEN Detached ELSE s.list)
       [] i.op = "Nothing" -> s

ApplyList(s, by) ==
  IF ~Attached(s.list) THEN s
  ELSE LET links == s.group[s.list[1]].rows[s.list[2]].links IN
       [s EXCEPT !.group[s.list[1]].rows[s.list[2]].links =
          CASE by = "ListInsert" -> links + 1
            [] by = "ListErase" -> IF links = 0 THEN 0 ELSE links - 1
            [] by = "ListClear" -> 0]

ApplyColumns(s, i) ==
  [s EXCEPT !.group[s.table].columns =
     IF i.op = "InsertColumn" THEN InsertAt(@, i.a, 0) ELSE RemoveAt(@, i.a)]

Apply(s, i) ==
  CASE i.op = "SelectTable" -> [s EXCEPT !.table = i.a, !.list = None]
    [] i.op = "SelectDescriptor" -> s
    [] i.op = "SelectList" -> [s EXCEPT !.list = ListAt(s, i.a, i.b)]
    [] i.op \in {"ListInsert", "ListErase", "ListClear"} -> ApplyList(s, i.op)
    [] i.op \in {"InsertColumn", "EraseColumn"} -> ApplyColumns(s, i)
    [] OTHER -> ApplyRows(s, i)

After(instrs, g) ==
  LET upTo[n \in 0 .. Len(instrs)] ==
        IF n = 0 THEN Start(g) ELSE Apply(upTo[n - 1], instrs[n])
  IN upTo[Len(instrs)]

Applied(instrs, g) == After(instrs, g).group

-----------------------------------------------------------------------------
(* TransactReverser: the inverse of each modification; a selection is       *)
(* pending until the next one of its kind or of an outer kind, and goes     *)
(* behind what was done under it, so that it comes before it in reverse.    *)
InverseOf(i) ==
  CASE i.op = "Set" -> <<i>>
    [] i.op = "InsertRow" -> <<Instr("EraseLastRow", i.a, i.b + 1)>>
    [] i.op = "EraseRow" -> <<Instr("InsertUnordered", i.a, i.b - 1)>>
    [] i.op = "Clear" -> <<Instr("Nothing", 0, 0)>>
    [] i.op = "ListInsert" -> <<Instr("ListErase", i.a, 0)>>
    [] i.op = "ListErase" -> <<Instr("ListInsert", i.a, 0)>>
    [] i.op = "ListClear" -> [k \in 1 .. i.a |-> Instr("ListInsert", i.a + 1 - k, 0)]
    [] i.op = "InsertColumn" -> <<Instr("EraseColumn", i.a, 0)>>
    [] i.op = "EraseColumn" -> <<Instr("InsertColumn", i.a, 0)>>

Reverser == [out |-> <<>>, table |-> <<>>, descriptor |-> <<>>, list |-> <<>>]

ListForgotten(r) == [r EXCEPT !.list = <<>>] (* Mutant: a pending list is dropped. *)

SyncLinkview(r) == [r EXCEPT !.out = @ \o r.list, !.list = <<>>]
SyncDescriptor(r) ==
  LET s == SyncLinkview(r) IN [s EXCEPT !.out = @ \o s.descriptor, !.descriptor = <<>>]
SyncTable(r) ==
  LET s == SyncDescriptor(r) IN [s EXCEPT !.out = @ \o s.table, !.table = <<>>]

Select(r, i) ==
  CASE i.op = "SelectTable" -> [SyncTable(r) EXCEPT !.table = <<i>>]
    [] i.op = "SelectDescriptor" -> [SyncDescriptor(r) EXCEPT !.descriptor = <<i>>]
    [] i.op = "SelectList" -> [SyncLinkview(r) EXCEPT !.list = <<i>>]

Selections == {"SelectTable", "SelectDescriptor", "SelectList"}

Reversing(r, i) ==
  IF i.op \in Selections THEN Select(r, i) ELSE [r EXCEPT !.out = @ \o InverseOf(i)]

Parsed(instrs) ==
  LET upTo[n \in 0 .. Len(instrs)] ==
        IF n = 0 THEN Reverser ELSE Reversing(upTo[n - 1], instrs[n])
  IN upTo[Len(instrs)]

(* ReversedNoCopyInputStream                                                *)
Reversed(instrs) == Reverse(SyncTable(Parsed(instrs)).out)

-----------------------------------------------------------------------------
(* The encoder. *)

NoCache == [table |-> 0, descriptor |-> 0, list |-> 0]

LogInit ==
  /\ group = Before
  /\ view = [a \in Addresses |-> None]
  /\ cache = NoCache
  /\ log = <<>>
  /\ modifications = 0

(* select_table, select_desc, select_link_list                              *)
SelectTable(t) == IF cache.table = t THEN <<>> ELSE <<Instr("SelectTable", t, 0)>>
TableSelected(t) == IF cache.table = t THEN cache ELSE [NoCache EXCEPT !.table = t]

PlaceOf(t, column) == SelectInSeq(group[t].columns, LAMBDA c : c = column)

Log(instrs) == log' = log \o instrs /\ modifications < MaxModifications /\ modifications' = modifications + 1

OnTable(t, instr) ==
  /\ Log(SelectTable(t) \o <<instr>>)
  /\ cache' = TableSelected(t)

OnDescriptor(t, instr) ==
  /\ IF cache.descriptor = t THEN Log(<<instr>>)
     ELSE Log(SelectTable(t) \o <<Instr("SelectDescriptor", 0, 0), instr>>)
  /\ cache' = IF cache.descriptor = t THEN cache
              ELSE [table |-> t, descriptor |-> t, list |-> 0]

OnList(a, instr) ==
  LET t == view[a][1] IN
  /\ IF cache.list = a THEN Log(<<instr>>)
     ELSE Log(SelectTable(t)
                \o <<Instr("SelectList", PlaceOf(t, Links), view[a][2]), instr>>)
  /\ cache' = IF cache.list = a THEN cache ELSE [TableSelected(t) EXCEPT !.list = a]

-----------------------------------------------------------------------------
(* The modifications, each with the row, column or link it is for. *)

Count(t) == Len(group[t].rows)

SetValue(t, i) ==
  /\ i \in 1 .. Count(t)
  /\ group' = [group EXCEPT ![t].rows[i].value = 1]
  /\ OnTable(t, Instr("Set", i, 1))
  /\ UNCHANGED view

InsertRow(t) ==
  /\ Count(t) < MaxRows
  /\ group' = [group EXCEPT ![t].rows = Append(@, NewRow)]
  /\ OnTable(t, Instr("InsertRow", Count(t) + 1, Count(t)))
  /\ UNCHANGED view

(* move_last_over; accessors follow their rows, or are detached.            *)
EraseRow(t, i) ==
  /\ i \in 1 .. Count(t)
  /\ group' = [group EXCEPT ![t].rows = EraseUnordered(@, i)]
  /\ OnTable(t, Instr("EraseRow", i, Count(t)))
  /\ view' = [a \in Addresses |-> AfterErase(view[a], t, i, Count(t))]

ClearTable(t) ==
  /\ Count(t) > 0
  /\ group' = [group EXCEPT ![t].rows = <<>>]
  /\ OnTable(t, Instr("Clear", 0, 0))
  /\ view' = [a \in Addresses |-> IF view[a][1] = t THEN Detached ELSE view[a]]

InsertColumn(t, c) ==
  /\ c \in 1 .. Len(group[t].columns) + 1 /\ Len(group[t].columns) < 3
  /\ group' = [group EXCEPT ![t].columns = InsertAt(@, c, 0)]
  /\ OnDescriptor(t, Instr("InsertColumn", c, 0))
  /\ UNCHANGED view

EraseColumn(t, c) ==
  /\ c \in DOMAIN group[t].columns /\ group[t].columns[c] # Links
  /\ group' = [group EXCEPT ![t].columns = RemoveAt(@, c)]
  /\ OnDescriptor(t, Instr("EraseColumn", c, 0))
  /\ UNCHANGED view

(* The list of an accessor; its length is all that is kept of it.           *)
ChangeList(a, op, links) ==
  /\ LET old == group[view[a][1]].rows[view[a][2]].links IN
     /\ group' = [group EXCEPT ![view[a][1]].rows[view[a][2]].links = links]
     /\ OnList(a, Instr(op, IF op = "ListClear" THEN old ELSE 1, 0))
  /\ UNCHANGED view

LinksOf(a) == group[view[a][1]].rows[view[a][2]].links

ListInsert(a) == Attached(view[a]) /\ LinksOf(a) < 2 /\ ChangeList(a, "ListInsert", LinksOf(a) + 1)
ListErase(a) == Attached(view[a]) /\ LinksOf(a) > 0 /\ ChangeList(a, "ListErase", LinksOf(a) - 1)
ListClear(a) == Attached(view[a]) /\ ChangeList(a, "ListClear", 0)

(* An accessor is made where none lives, one for a list, and destroyed; the  *)
(* encoder is told, for the next one may live at the same address.           *)
OpenList(a, t, i) ==
  /\ view[a] = None
  /\ i \in 1 .. Count(t)
  /\ \A b \in Addresses : view[b] # <<t, i>>
  /\ view' = [view EXCEPT ![a] = <<t, i>>]
  /\ UNCHANGED <<group, cache, log, modifications>>

AsItWas(a) == cache (* Mutant: on_link_list_destroyed does nothing. *)

OnListDestroyed(a) == IF cache.list = a THEN [cache EXCEPT !.list = 0] ELSE cache

DestroyList(a) ==
  /\ view[a] # None
  /\ view' = [view EXCEPT ![a] = None]
  /\ cache' = OnListDestroyed(a)
  /\ UNCHANGED <<group, log, modifications>>

LogNext ==
  \/ \E t \in Tables :
       \/ InsertRow(t) \/ ClearTable(t)
       \/ \E i \in 1 .. MaxRows : SetValue(t, i) \/ EraseRow(t, i)
       \/ \E c \in 1 .. 3 : InsertColumn(t, c) \/ EraseColumn(t, c)
       \/ \E a \in Addresses, i \in 1 .. MaxRows : OpenList(a, t, i)
  \/ \E a \in Addresses : ListInsert(a) \/ ListErase(a) \/ ListClear(a) \/ DestroyList(a)

LogSpec == LogInit /\ [][LogNext]_logVars

-----------------------------------------------------------------------------
(* Properties. *)

(* Whoever applies the log to what the transaction began with has what the  *)
(* transaction has: no instruction goes to another table or list than the   *)
(* one it was recorded for, although selections are cached by address.      *)
AnotherGroupFollows == Applied(log, Before) = group

RolledBack == Applied(Reversed(log), group)

Logged(ops) == \E k \in DOMAIN log : log[k].op \in ops

(* A rollback brings no row or column to the place of another, nor leaves   *)
(* one too many or too few, but that a table that was cleared may stay      *)
(* empty (sync_table of the reversed stream: what follows a selection must   *)
(* not go to the table selected before it).  A row or column that comes     *)
(* back may do so as a new one.                                             *)
PlacesRestored ==
  LET back == RolledBack IN
  \A t \in Tables :
    /\ ~Logged({"Clear"}) => Len(back[t].rows) = RowsAtStart
    /\ \A i \in DOMAIN back[t].rows : back[t].rows[i].id \in {0, i}
    /\ Len(back[t].columns) = Len(Before[t].columns)
    /\ \A c \in DOMAIN back[t].columns : back[t].columns[c] \in {0, c}

(* And as long as the transaction erased no row and moved no column, every  *)
(* row is itself again and has its links: the reversed list instructions    *)
(* reach the lists they undo.                                               *)
ListsRestored ==
  ~Logged({"EraseRow", "Clear", "InsertColumn", "EraseColumn"}) =>
    LET back == RolledBack IN
    \A t \in Tables : \A i \in DOMAIN Before[t].rows :
      /\ back[t].rows[i].id = i
      /\ back[t].rows[i].links = Before[t].rows[i].links

(* Both: what a cancelled transaction leaves to the realm.                  *)
RollbackRestores == PlacesRestored /\ ListsRestored

=============================================================================
