---------------------------- MODULE RewardTable ----------------------------
(***************************************************************************)
(* What the reward storage promises the threads that use it: a log that     *)
(* only grows and survives the process, of which every read shows a prefix. *)
(* A thread's prefix never shrinks, not even over a restart, and holds      *)
(* everything the thread itself has stored.                                *)
(***************************************************************************)
EXTENDS Naturals, Sequences

CONSTANTS Threads, Rows

VARIABLES
  log,  (* the stored rows, oldest first                                   *)
  seen, (* how long the prefix was that each thread read last              *)
  own   (* how long the log was when each thread stored its latest row     *)

tableVars == <<log, seen, own>>

TypeOK ==
  /\ log \in Seq(Rows)
  /\ seen \in [Threads -> 0 .. Len(log)]
  /\ own \in [Threads -> 0 .. Len(log)]

Init ==
  /\ log = <<>>
  /\ seen = [th \in Threads |-> 0]
  /\ own = [th \in Threads |-> 0]

Store(th, row) ==
  /\ log' = Append(log, row)
  /\ own' = [own EXCEPT ![th] = Len(log) + 1]
  /\ UNCHANGED seen

Read(th, n) ==
  /\ n >= seen[th]
  /\ n >= own[th]
  /\ seen' = [seen EXCEPT ![th] = n]
  /\ UNCHANGED <<log, own>>

Next ==
  \E th \in Threads :
    \/ \E row \in Rows : Store(th, row)
    \/ \E n \in 0 .. Len(log) : Read(th, n)

Spec == Init /\ [][Next]_tableVars

=============================================================================
