------------------------------- MODULE Outbox -------------------------------
(***************************************************************************)
(* What the value calls of BadgeKeeper promise, without their dictionaries, *)
(* requests, tasks and handlers.                                           *)
(*                                                                         *)
(* A value is prepared for a group (one kind of call and one user).  A send *)
(* takes everything its group holds as one batch; the server applies a      *)
(* batch as a whole, or refuses it as a whole, or it is never known what it *)
(* did; the application is told of a batch at most once and what it is told *)
(* is true.  A value that was not sent when the process ends is lost.      *)
(***************************************************************************)
CONSTANTS Values, Groups, Batches

VARIABLES
  used,  (* the values that were ever prepared                             *)
  held,  (* those each group holds                                        *)
  batch, (* the values of each batch, {} for one that was not sent yet     *)
  fate,  (* what the server did with each batch                           *)
  told   (* the verdict the application heard of it                       *)

outboxVars == <<used, held, batch, fate, told>>

Fates == {"open", "applied", "refused"}
Verdicts == {"applied", "refused", "unknown"}

TypeOK ==
  /\ used \subseteq Values
  /\ held \in [Groups -> SUBSET Values]
  /\ batch \in [Batches -> SUBSET Values]
  /\ fate \in [Batches -> Fates]
  /\ told \in [Batches -> Verdicts \cup {"nothing"}]

Init ==
  /\ used = {}
  /\ held = [g \in Groups |-> {}]
  /\ batch = [b \in Batches |-> {}]
  /\ fate = [b \in Batches |-> "open"]
  /\ told = [b \in Batches |-> "nothing"]

Prepare(v, g) ==
  /\ v \notin used
  /\ used' = used \cup {v}
  /\ held' = [held EXCEPT ![g] = @ \cup {v}]
  /\ UNCHANGED <<batch, fate, told>>

(* What the groups hold after one of them sent. *)
HeldAfter(g) == [held EXCEPT ![g] = {}]

(* Everything the group holds goes, in a batch that was never used. *)
Send(g, b) ==
  /\ held[g] # {}
  /\ batch[b] = {}
  /\ batch' = [batch EXCEPT ![b] = held[g]]
  /\ held' = HeldAfter(g)
  /\ UNCHANGED <<used, fate, told>>

(* The server decides on a batch once. *)
Open(b) == fate[b] = "open"

Decide(b, f) ==
  /\ batch[b] # {}
  /\ Open(b)
  /\ fate' = [fate EXCEPT ![b] = f]
  /\ UNCHANGED <<used, held, batch, told>>

(* What can be told of a batch. *)
Truths(b) == {"unknown", fate[b]} \ {"open"}

(* "unknown" may be told of any batch, also of one the server applied or    *)
(* is still to apply.                                                       *)
Tell(b, verdict) ==
  /\ batch[b] # {}
  /\ told[b] = "nothing"
  /\ told' = [told EXCEPT ![b] = verdict]
  /\ UNCHANGED <<used, held, batch, fate>>

(* The process ends. *)
Lose ==
  /\ held' = [g \in Groups |-> {}]
  /\ UNCHANGED <<used, batch, fate, told>>

Next ==
  \/ \E v \in Values, g \in Groups : Prepare(v, g)
  \/ \E g \in Groups, b \in Batches : Send(g, b)
  \/ \E b \in Batches, f \in {"applied", "refused"} : Decide(b, f)
  \/ \E b \in Batches : \E verdict \in Truths(b) : Tell(b, verdict)
  \/ Lose

Spec == Init /\ [][Next]_outboxVars

-----------------------------------------------------------------------------
(* Properties. *)

(* A value is in one place: it waits for one group or is in one batch, never *)
(* in two, so the server cannot be given it twice.                          *)
OnePlace ==
  /\ \A g \in Groups : held[g] \subseteq used
  /\ \A b \in Batches : batch[b] \subseteq used
  /\ \A g, h \in Groups : g # h => held[g] \cap held[h] = {}
  /\ \A b, c \in Batches : b # c => batch[b] \cap batch[c] = {}
  /\ \A g \in Groups, b \in Batches : held[g] \cap batch[b] = {}

(* A verdict the application heard is what the server did.                  *)
VerdictsTrue ==
  \A b \in Batches : told[b] \in {"applied", "refused"} => fate[b] = told[b]

=============================================================================
