----------------------------- MODULE MCRealmLog -----------------------------
(* The log of a transaction and those who read it: its numbers, its          *)
(* instructions and their reverse, the handler that looks for observed       *)
(* objects, the changes of one list, the infos of observed objects.  They    *)
(* share no state: a behaviour is of one of them, and the others rest.       *)
EXTENDS TransactLogInts, TransactLog, RealmObservation, ListChanges, ObservationInfos, TLC

(* The types of 8 and 16 bits and bool, with the values at the borders of    *)
(* their ranges and of the number of bytes.                                  *)
Type(signed, digits) == [signed |-> signed, digits |-> digits]

MCTypes == {Type(FALSE, 1), Type(TRUE, 7), Type(FALSE, 8), Type(TRUE, 15), Type(FALSE, 16)}

Borders == {2 ^ n : n \in {0, 1, 6, 7, 8, 13, 14, 15, 16}}
MCValues == UNION {{b - 1, b, -b, -b - 1} : b \in Borders}

CONSTANTS
  t1, t2, a1, a2, (* tables and accessors; nothing tells them apart          *)
  o1, o2, o3, o4, (* objects in a table                                      *)
  l1, l2, l3,     (* objects a list links to                                 *)
  i1, i2, i3, x, y (* infos and the rows they observe                    *)

MCTables == {t1, t2}
MCAddresses == {a1, a2}
MCObjects == {o1, o2, o3, o4}
MCTargets == {l1, l2, l3}
MCInfos == {i1, i2, i3}
MCRows == {x, y}

MCSymmetry == Permutations(MCTables) \union Permutations(MCAddresses)

VARIABLE part

MCLogInit ==
  /\ part \in {"ints", "log", "observation", "list", "infos"}
  /\ IntsInit /\ LogInit /\ InfosInit
  /\ ObservationInit /\ rows = <<o1, o2, o3, o4>> (* nothing tells objects apart *)
  /\ part # "observation" => ~rollingBack /\ Len(observers) = 4
  /\ ListInit /\ (part # "list" => old = <<>>)

MCLogNext ==
  /\ UNCHANGED part
  /\ \/ /\ part = "ints" /\ IntsNext
        /\ UNCHANGED <<logVars, observationVars, listVars, infoVars>>
     \/ /\ part = "log" /\ LogNext
        /\ UNCHANGED <<intVars, observationVars, listVars, infoVars>>
     \/ /\ part = "observation" /\ ObservationNext
        /\ UNCHANGED <<intVars, logVars, listVars, infoVars>>
     \/ /\ part = "list" /\ ListNext
        /\ UNCHANGED <<intVars, logVars, observationVars, infoVars>>
     \/ /\ part = "infos" /\ InfosNext
        /\ UNCHANGED <<intVars, logVars, observationVars, listVars>>

MCLogSpec ==
  MCLogInit
    /\ [][MCLogNext]_<<part, intVars, logVars, observationVars, listVars, infoVars>>

=============================================================================
