--------------------------- MODULE MCRealmCommits ---------------------------
(* Realms of one file: their transactions, with a realm of a process of a    *)
(* newer schema and one without autorefresh; or their notifiers, with a pipe *)
(* that two commits fill.  The two share no state: a behaviour is of one of  *)
(* them, and the other one rests.                                            *)
EXTENDS RealmTransactions, RealmNotifier

CONSTANTS r1, r2, r3

MCRealms == {"main", "queue", "extension"}
MCUpgraders == {"extension"}
MCRefreshing == {"main", "extension"}
MCListeners == {r1, r2, r3}

VARIABLE part

commitVars == <<vars, notifierVars, part>>

CommitsInit ==
  /\ part \in {"transactions", "notifier"}
  /\ Init
  /\ NotifierInit /\ (part # "notifier" => pipe = 0)

CommitsNext ==
  /\ UNCHANGED part
  /\ \/ part = "transactions" /\ Next /\ UNCHANGED notifierVars
     \/ part = "notifier" /\ NotifierNext /\ UNCHANGED vars

(* Of the realms' transactions nothing has to happen.                        *)
CommitsSpec ==
  /\ CommitsInit /\ [][CommitsNext]_commitVars
  /\ \A r \in Listeners :
       /\ WF_commitVars(part = "notifier" /\ Thread(r) /\ UNCHANGED <<vars, part>>)
       /\ WF_commitVars(part = "notifier" /\ Listener(r) /\ UNCHANGED <<vars, part>>)

=============================================================================
