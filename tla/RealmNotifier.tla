---------------------------- MODULE RealmNotifier ----------------------------
(***************************************************************************)
(* RealmNotifier (RLMNotifier in RLMRealmUtil.mm): commits are signalled    *)
(* through a named pipe beside the file.  Every realm has a thread that     *)
(* waits with a kqueue for data on the pipe; nobody reads the data, so that *)
(* one write reaches all, and who finds the pipe full makes room.           *)
(*                                                                         *)
(* The pipe and the kqueue are the system's: a write, or a registration     *)
(* that finds data, activates the event, which is delivered if there is     *)
(* still data and reset by the delivery (EV_CLEAR).                         *)
(***************************************************************************)
EXTENDS Naturals

CONSTANTS
  Listeners,
  Capacity,   (* bytes the pipe holds             *)
  Batch,      (* bytes that making room takes out *)
  MaxCommits  (* bound: versions of the file      *)

ASSUME RealmNotifierAssumption ==
  /\ Capacity \in Nat \ {0} /\ Batch \in Nat \ {0}
  /\ MaxCommits \in Nat

VARIABLES
  committed,     (* version of the file                                       *)
  pipe,       (* bytes in it                                               *)
  pc,         (* of each realm: "idle", or where it is in notifyFd         *)
  listening,  (* the event of the pipe is registered                       *)
  active,     (* the event is activated                                    *)
  source,     (* the source of the run loop is signalled                   *)
  known       (* the version the realm has been brought to                 *)

notifierVars == <<committed, pipe, pc, listening, active, source, known>>

NotifierTypeOK ==
  /\ committed \in 0 .. MaxCommits /\ pipe \in 0 .. Capacity
  /\ pc \in [Listeners -> {"idle", "write", "drain"}]
  /\ listening \in [Listeners -> BOOLEAN]
  /\ active \in [Listeners -> BOOLEAN]
  /\ source \in [Listeners -> BOOLEAN]
  /\ known \in [Listeners -> 0 .. MaxCommits]

(* The pipe is older than the realms and may hold any number of bytes.      *)
NotifierInit ==
  /\ committed = 0 /\ pipe \in 0 .. Capacity
  /\ pc = [r \in Listeners |-> "idle"]
  /\ listening = [r \in Listeners |-> FALSE]
  /\ active = [r \in Listeners |-> FALSE]
  /\ source = [r \in Listeners |-> FALSE]
  /\ known = [r \in Listeners |-> 0]

-----------------------------------------------------------------------------
(* commit_and_continue_as_read, before notifyOtherRealms.                   *)
Commit(r) ==
  /\ pc[r] = "idle" /\ committed < MaxCommits
  /\ committed' = committed + 1
  /\ known' = [known EXCEPT ![r] = committed']
  /\ pc' = [pc EXCEPT ![r] = "write"]
  /\ UNCHANGED <<pipe, listening, active, source>>

(* notifyFd. *)
Write(r) ==
  /\ pc[r] = "write"
  /\ IF pipe < Capacity
     THEN /\ pipe' = pipe + 1
          /\ active' = [q \in Listeners |-> listening[q]]
          /\ pc' = [pc EXCEPT ![r] = "idle"]
     ELSE /\ pc' = [pc EXCEPT ![r] = "drain"]
          /\ UNCHANGED <<pipe, active>>
  /\ UNCHANGED <<committed, listening, source, known>>

DrainedForGood(r) == "idle" (* Mutant: after making room it does not write again. *)

AfterDrain(r) == "write"

(* Read what fits into the buffer, if another realm has left anything.      *)
Drain(r) ==
  /\ pc[r] = "drain"
  /\ pipe' = IF pipe > Batch THEN pipe - Batch ELSE 0
  /\ pc' = [pc EXCEPT ![r] = AfterDrain(r)]
  /\ UNCHANGED <<committed, listening, active, source, known>>

(* listen: the thread is started with the realm and registers at some time. *)
ActiveAtStart(r) == pipe > 0

Listen(r) ==
  /\ ~listening[r]
  /\ listening' = [listening EXCEPT ![r] = TRUE]
  /\ active' = [active EXCEPT ![r] = ActiveAtStart(r)]
  /\ UNCHANGED <<committed, pipe, pc, source, known>>

TakenFromPipe == pipe - 1 (* Mutant: who hears of a commit reads the byte. *)

PipeAfterWake == pipe

Wake(r) ==
  /\ active[r]
  /\ active' = [active EXCEPT ![r] = FALSE]
  /\ IF pipe > 0
     THEN source' = [source EXCEPT ![r] = TRUE] /\ pipe' = PipeAfterWake
     ELSE UNCHANGED <<source, pipe>>
  /\ UNCHANGED <<committed, pc, listening, known>>

(* The run loop of the realm's thread; the thread is not in the middle of a *)
(* commit.                                                                   *)
HandleSource(r) ==
  /\ source[r] /\ pc[r] = "idle"
  /\ source' = [source EXCEPT ![r] = FALSE]
  /\ known' = [known EXCEPT ![r] = committed]
  /\ UNCHANGED <<committed, pipe, pc, listening, active>>

Thread(r) == Write(r) \/ Drain(r) \/ HandleSource(r)
Listener(r) == Listen(r) \/ Wake(r)

NotifierNext == \E r \in Listeners : Commit(r) \/ Thread(r) \/ Listener(r)

(* A thread in notifyFd goes on, its run loop runs, and so does the listener. *)
NotifierFairness == \A r \in Listeners : WF_notifierVars(Thread(r)) /\ WF_notifierVars(Listener(r))

NotifierSpec == NotifierInit /\ [][NotifierNext]_notifierVars /\ NotifierFairness

-----------------------------------------------------------------------------
(* Properties. *)

(* Every commit is heard of by every realm: also by one that registers only  *)
(* after it, also with a full pipe that several writers drain at once, and   *)
(* although the listeners do not count the bytes.                            *)
EveryCommitHeard == \A r \in Listeners : []<>(known[r] = committed)

(* Why: as long as a realm is behind, a write, an event or a signal for it   *)
(* is on the way.                                                            *)
Pending(r) ==
  \/ \E q \in Listeners : pc[q] # "idle"
  \/ source[r]
  \/ IF listening[r] THEN active[r] /\ pipe > 0 ELSE pipe > 0

NothingSlips == \A r \in Listeners : known[r] # committed => Pending(r)

=============================================================================
