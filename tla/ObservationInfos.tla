--------------------------- MODULE ObservationInfos ---------------------------
(***************************************************************************)
(* ObservationInfos (RLMObservation.mm): what is kept of observed objects.  *)
(* The schema has one RLMObservationInfo, the first, for each observed row; *)
(* further ones of a row hang on it in a doubly linked list.  A change of a *)
(* row is told to all of its list.                                          *)
(*                                                                         *)
(* An info lives as long as its object; its memory may be used again.  The  *)
(* row of an info follows the row of the table (Realm's accessors), and is  *)
(* gone when that is deleted.                                               *)
(***************************************************************************)
EXTENDS Naturals, Sequences, SequencesExt, FiniteSets

CONSTANTS
  Infos,  (* where infos can live *)
  Rows,
  Nil, Gone

ASSUME ObservationInfosAssumption ==
  /\ IsFiniteSet(Infos)
  /\ Nil \notin Infos /\ Gone \notin Rows

VARIABLES
  tableRows,      (* the rows of the table                              *)
  live,      (* the infos that live                                *)
  next, prev,
  row,       (* the row of each info                               *)
  infoInvalidated,
  observedObjects,
  cleared    (* the table was cleared when a row had several infos *)

infoVars == <<tableRows, live, next, prev, row, infoInvalidated, observedObjects, cleared>>

InfosInit ==
  /\ tableRows = Rows
  /\ live = {} /\ infoInvalidated = {} /\ observedObjects = <<>>
  /\ next = [i \in Infos |-> Nil]
  /\ prev = [i \in Infos |-> Nil]
  /\ row = [i \in Infos |-> Gone]
  /\ cleared = FALSE

-----------------------------------------------------------------------------
(* What a list reaches from an info. *)
Reached(link, i) ==
  LET upTo[n \in 0 .. Cardinality(Infos)] ==
        IF n = 0 THEN {i}
        ELSE upTo[n - 1] \union ({link[j] : j \in upTo[n - 1]} \ {Nil})
  IN upTo[Cardinality(Infos)]

ForEach(i) == Reached(prev, i) \union Reached(next, i)

HeadOf(r) == SelectInSeq(observedObjects, LAMBDA i : row[i] = r)

(* The link, followed by an assignment to it unless that goes through Nil.  *)
Set(link, i, to) == IF i = Nil THEN link ELSE [link EXCEPT ![i] = to]

(* recordObserver and setRow: behind the head of its row, or a new head.    *)
NextKeepsPrev(i, head) == [prev EXCEPT ![i] = head] (* Mutant: next->prev is not set. *)

PrevBehind(i, head) == Set([prev EXCEPT ![i] = head], next[head], i)

Observe(i, r) ==
  /\ i \notin live /\ r \in tableRows
  /\ live' = live \union {i}
  /\ infoInvalidated' = infoInvalidated \ {i}
  /\ row' = [row EXCEPT ![i] = r]
  /\ IF HeadOf(r) = 0
     THEN /\ next' = [next EXCEPT ![i] = Nil]
          /\ prev' = [prev EXCEPT ![i] = Nil]
          /\ observedObjects' = Append(observedObjects, i)
     ELSE LET head == observedObjects[HeadOf(r)] IN
          /\ next' = [next EXCEPT ![i] = next[head], ![head] = i]
          /\ prev' = PrevBehind(i, head)
          /\ UNCHANGED observedObjects
  /\ UNCHANGED <<tableRows, cleared>>

(* ~RLMObservationInfo. *)
ObservedAfter(i, at) ==
  IF next[i] # Nil THEN [observedObjects EXCEPT ![at] = next[i]]
  ELSE Front([observedObjects EXCEPT ![at] = Last(observedObjects)])

Release(i) ==
  /\ i \in live
  /\ live' = live \ {i}
  /\ LET at == SelectInSeq(observedObjects, LAMBDA j : j = i) IN
     CASE prev[i] # Nil ->
            /\ next' = Set(next, prev[i], next[i])
            /\ prev' = Set(prev, next[i], prev[i])
            /\ UNCHANGED observedObjects
       [] prev[i] = Nil /\ at # 0 ->
            /\ observedObjects' = ObservedAfter(i, at)
            /\ prev' = Set(prev, next[i], Nil)
            /\ UNCHANGED next
       [] OTHER -> UNCHANGED <<next, prev, observedObjects>>
  /\ UNCHANGED <<tableRows, row, infoInvalidated, cleared>>

(* RLMTrackDeletions, or the log of another thread: the head of the row is   *)
(* told and prepared for it, with all that follow.                           *)
DeleteRow(r) ==
  /\ r \in tableRows
  /\ tableRows' = tableRows \ {r}
  /\ row' = [i \in Infos |-> IF row[i] = r THEN Gone ELSE row[i]]
  /\ infoInvalidated' = infoInvalidated \union
       IF HeadOf(r) = 0 THEN {} ELSE Reached(next, observedObjects[HeadOf(r)])
  /\ UNCHANGED <<live, next, prev, observedObjects, cleared>>

AddRow(r) ==
  /\ r \notin tableRows
  /\ tableRows' = tableRows \union {r}
  /\ UNCHANGED <<live, next, prev, row, infoInvalidated, observedObjects, cleared>>

Heads == Range(observedObjects)

(* RLMClearTable. *)
RLMClearTable ==
  /\ tableRows' = {}
  /\ row' = [i \in Infos |-> Gone]
  /\ infoInvalidated' = infoInvalidated \union UNION {Reached(next, i) : i \in Heads}
  /\ observedObjects' = <<>>
  /\ cleared' = (cleared \/ \E i \in Heads : next[i] # Nil)
  /\ UNCHANGED <<live, next, prev>>

InfosNext ==
  \/ \E i \in Infos : Release(i) \/ \E r \in Rows : Observe(i, r)
  \/ \E r \in Rows : DeleteRow(r) \/ AddRow(r)
  \/ RLMClearTable

InfosSpec == InfosInit /\ [][InfosNext]_infoVars

-----------------------------------------------------------------------------
(* Properties. *)

Observing(i) == {j \in live : row[j] = row[i]}

(* A change of a row is told to all objects of it and to no other, whichever *)
(* of them changes it; and one of them, the head, is found from the schema.   *)
EveryObserverReached ==
  ~cleared =>
    \A i \in live : row[i] # Gone =>
      /\ ForEach(i) = Observing(i)
      /\ \E h \in Observing(i) : Heads \intersect Observing(i) = {h} /\ prev[h] = Nil

(* An info without a row answers from what it kept: a row does not vanish    *)
(* under an observer that still asks for it.                                  *)
GoneMeansInvalidated ==
  ~cleared => \A i \in live : row[i] = Gone => i \in infoInvalidated

(* Both: a change, and a deletion, reaches all who observe a row.            *)
ObserversKept == EveryObserverReached /\ GoneMeansInvalidated

(* The assertion of the destructor: prev->next == this.                       *)
PrevLeadsBack == \A i \in live : prev[i] # Nil => prev[i] \in live /\ next[prev[i]] = i

=============================================================================
