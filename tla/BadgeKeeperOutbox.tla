------------------------- MODULE BadgeKeeperOutbox -------------------------
(***************************************************************************)
(* BadgeKeeper implements Outbox: where each pair is, read off the          *)
(* dictionaries, the requests and the answers.                             *)
(***************************************************************************)
EXTENDS BadgeKeeper

Groups == Kinds \X Users

Members(pairs) == {pairs[i] : i \in DOMAIN pairs}

(* What the server made of a request that carries values. *)
FateOf(t) ==
  CASE packet[t].kind \in Kinds /\ reply[t].status = "accepted" -> "applied"
    [] packet[t].kind \in Kinds /\ reply[t].status = "rejected" -> "refused"
    [] OTHER -> "open"

VerdictOf(t) ==
  IF packet[t].kind \notin Kinds \/ callback[t] = <<>> THEN "nothing"
  ELSE CASE callback[t][1] = "success" -> "applied"
         [] callback[t][1] = "ApiError" -> "refused"
         [] OTHER -> "unknown"

Box == INSTANCE Outbox WITH
  Values <- Pairs,
  Batches <- Tasks,
  used <- DOMAIN pair,
  held <- [g \in Groups |-> Members(prepared[g[1]][g[2]])],
  batch <- [t \in Tasks |-> Members(packet[t].pairs)],
  fate <- [t \in Tasks |-> FateOf(t)],
  told <- [t \in Tasks |-> VerdictOf(t)]

(* Every step of the facade is a step of the outbox or none: a send takes   *)
(* all that waits, once, and nothing of what failed comes back; nothing     *)
(* else but the end of the process takes a value away; the answers to       *)
(* queries and the saving of rewards are invisible to it                    *)
(* (BadgeKeeper.m:124-206, 258-273).                                        *)
ImplementsOutbox == Box!Spec

=============================================================================
