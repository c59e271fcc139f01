----------------------------- MODULE ListChanges -----------------------------
(***************************************************************************)
(* ListChanges (TransactLogHandler in RLMObservation.mm): the log of other  *)
(* threads' transactions changes an observed list step by step; its         *)
(* observers are told once, of one kind of change with a set of indexes.    *)
(* The handler adds the steps up while it reads the log.                    *)
(*                                                                         *)
(* Indexes are counted from 1; the code counts from 0.                      *)
(***************************************************************************)
EXTENDS Naturals, Sequences, SequencesExt, FiniteSetsExt

CONSTANTS
  Targets,     (* what a list links to                       *)
  MaxLength, (* bound: links in a list                     *)
  MaxListSteps   (* bound: instructions for one list           *)

ASSUME ListChangesAssumption == MaxLength \in Nat /\ MaxListSteps \in Nat

VARIABLES
  old,    (* the list before *)
  list,
  change, (* ObserverState::change *)
  listSteps

listVars == <<old, list, change, listSteps>>

ListInit ==
  /\ old \in BoundedSeq(Targets, MaxLength)
  /\ list = old
  /\ change = [changed |-> FALSE, multiple |-> FALSE, kind |-> "Setting",
               given |-> FALSE, indexes |-> {}]
  /\ listSteps = 0

-----------------------------------------------------------------------------
(* append_link_list_change. *)

(* A later removal is of a list without the links already removed: the index *)
(* is shifted past every one of them at or before it.                         *)
NotShifted(indexes, index) == indexes \union {index} (* Mutant: as it is. *)

WithRemoved(indexes, index) ==
  LET past[i \in 0 .. MaxLength] ==
        IF i = 0 THEN index
        ELSE past[i - 1] + (IF i \in indexes /\ i <= past[i - 1] THEN 1 ELSE 0)
  IN indexes \union {past[MaxLength]}

WithInserted(indexes, index) ==
  {IF i >= index THEN i + 1 ELSE i : i \in indexes} \union {index}

Together(kind, indexes, index) ==
  CASE kind = "Removal" -> WithRemoved(indexes, index)
    [] kind = "Insertion" -> WithInserted(indexes, index)
    [] kind = "Replacement" -> indexes \union {index}

Several(c) == [c EXCEPT !.multiple = TRUE, !.given = FALSE, !.indexes = {}]

Add(c, kind, index) ==
  CASE c.multiple -> c
    [] ~c.multiple /\ ~c.given ->
         [c EXCEPT !.changed = TRUE, !.given = TRUE, !.kind = kind, !.indexes = {index}]
    [] ~c.multiple /\ c.given /\ c.kind = kind ->
         [c EXCEPT !.indexes = Together(kind, @, index)]
    [] OTHER -> Several(c)

(* link_list_clear: all that was there before goes, not what was inserted.  *)
Cleared(c, size) ==
  LET before == CASE c.given /\ c.kind = "Removal" -> size + Cardinality(c.indexes)
                  [] c.given /\ c.kind = "Insertion" -> size - Cardinality(c.indexes)
                  [] OTHER -> size
  IN IF c.multiple THEN c
     ELSE [c EXCEPT !.changed = TRUE, !.given = TRUE, !.kind = "Removal",
                    !.indexes = (IF c.given /\ c.kind = "Removal" THEN @ ELSE {})
                                \union 1 .. before]

(* link_list_move *)
MovedBetween(c, from, to) ==
  CASE c.multiple -> c
    [] ~c.multiple /\ ~c.given ->
         [c EXCEPT !.changed = TRUE, !.given = TRUE, !.kind = "Replacement",
                   !.indexes = from .. to]
    [] ~c.multiple /\ c.given /\ c.kind = "Replacement" ->
         [c EXCEPT !.indexes = @ \union from .. to]
    [] OTHER -> Several(c)

-----------------------------------------------------------------------------
(* The instructions. *)

ListStep(new, c) ==
  /\ listSteps < MaxListSteps /\ listSteps' = listSteps + 1
  /\ list' = new
  /\ change' = c
  /\ UNCHANGED old

LinkListSet(i, link) ==
  i \in DOMAIN list /\ ListStep([list EXCEPT ![i] = link], Add(change, "Replacement", i))

LinkListInsert(i, link) ==
  /\ i \in 1 .. Len(list) + 1 /\ Len(list) < MaxLength
  /\ ListStep(InsertAt(list, i, link), Add(change, "Insertion", i))

(* and link_list_nullify *)
LinkListErase(i) ==
  i \in DOMAIN list /\ ListStep(RemoveAt(list, i), Add(change, "Removal", i))

LinkListSwap(i, j) ==
  /\ i \in DOMAIN list /\ j \in DOMAIN list
  /\ ListStep([list EXCEPT ![i] = list[j], ![j] = list[i]],
          Add(Add(change, "Replacement", i), "Replacement", j))

LinkListMove(from, to) ==
  /\ from \in DOMAIN list /\ to \in DOMAIN list
  /\ ListStep(InsertAt(RemoveAt(list, from), to, list[from]),
          IF from > to THEN MovedBetween(change, to, from)
          ELSE MovedBetween(change, from, to))

LinkListClear == ListStep(<<>>, Cleared(change, Len(list)))

ListNext ==
  \/ \E i \in 1 .. MaxLength + 1 :
       \/ \E link \in Targets : LinkListSet(i, link) \/ LinkListInsert(i, link)
       \/ LinkListErase(i)
       \/ \E j \in 1 .. MaxLength : LinkListSwap(i, j) \/ LinkListMove(i, j)
  \/ LinkListClear

ListSpec == ListInit /\ [][ListNext]_listVars

-----------------------------------------------------------------------------
(* Properties. *)

Without(s, indexes) ==
  LET kept[n \in 0 .. Len(s)] ==
        IF n = 0 THEN <<>>
        ELSE IF n \in indexes THEN kept[n - 1] ELSE Append(kept[n - 1], s[n])
  IN kept[Len(s)]

(* What the observers are told explains the list they find: the indexes of a *)
(* removal are of the old list, those of an insertion of the new one, and a   *)
(* replacement leaves all other places as they were.                          *)
TheChangeExplainsTheList ==
  CASE ~change.changed -> list = old
    [] change.changed /\ ~change.given -> TRUE
    [] change.changed /\ change.given /\ change.kind = "Removal" ->
         change.indexes \subseteq DOMAIN old /\ Without(old, change.indexes) = list
    [] change.changed /\ change.given /\ change.kind = "Insertion" ->
         change.indexes \subseteq DOMAIN list /\ Without(list, change.indexes) = old
    [] change.changed /\ change.given /\ change.kind = "Replacement" ->
         Len(list) = Len(old) /\ \A i \in DOMAIN old \ change.indexes : list[i] = old[i]

=============================================================================
