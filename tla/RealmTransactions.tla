-------------------------- MODULE RealmTransactions --------------------------
(***************************************************************************)
(* RealmTransactions (RLMRealm.mm on realm/group_shared.hpp): realms of     *)
(* one file, each of a thread of its own, read a snapshot, move it forward  *)
(* and write.  A realm that is promoted to write waits for the lock of all  *)
(* processes, then moves to the newest version; what it told its            *)
(* application, and the accessors of its objects, have to follow.           *)
(*                                                                         *)
(* A realm with observed objects reads the log of what it moves over first. *)
(* Its handler refuses what changes the schema, which throws in the middle  *)
(* of the move.                                                             *)
(***************************************************************************)
EXTENDS Naturals

CONSTANTS
  Realms,
  Upgraders,    (* those whose process writes a new schema *)
  Refreshing,   (* those with autorefresh                  *)
  MaxVersion    (* bound: versions of the file             *)

Nobody == "nobody"

ASSUME RealmTransactionsAssumption ==
  /\ Upgraders \subseteq Realms /\ Refreshing \subseteq Realms
  /\ MaxVersion \in Nat \ {0}
  /\ Nobody \notin Realms

VARIABLES
  newest,    (* the version last committed                               *)
  schemaAt,  (* the versions that changed the schema                     *)
  lock,      (* who holds the write lock                                 *)
  stage,     (* m_transact_stage                                         *)
  readlock,  (* m_readlock.m_version                                     *)
  writing,   (* _inWriteTransaction                                      *)
  promoting, (* beginWriteTransaction waits for the lock                 *)
  announce,  (* its local variable                                       *)
  observed,  (* objects of the realm are observed                        *)
  signalled, (* a commit was signalled to the run loop of the realm      *)
  missed,    (* the accessors were not brought to the version of the readlock *)
  told,      (* the newest version when the application was last told    *)
  overtaken  (* a commit came between the look at the version and the lock *)

file == <<newest, schemaAt, lock>>
vars == <<file, stage, readlock, writing, promoting, announce, observed, signalled,
          missed, told, overtaken>>

TypeOK ==
  /\ newest \in 1 .. MaxVersion /\ schemaAt \subseteq 1 .. MaxVersion
  /\ lock \in Realms \union {Nobody}
  /\ stage \in [Realms -> {"Ready", "Reading", "Writing"}]
  /\ readlock \in [Realms -> 1 .. MaxVersion]
  /\ told \in [Realms -> 1 .. MaxVersion]
  /\ writing \in [Realms -> BOOLEAN] /\ promoting \in [Realms -> BOOLEAN]
  /\ announce \in [Realms -> BOOLEAN] /\ observed \in [Realms -> BOOLEAN]
  /\ signalled \in [Realms -> BOOLEAN]
  /\ missed \in [Realms -> BOOLEAN] /\ overtaken \in [Realms -> BOOLEAN]

(* A realm was opened and has its group. *)
Init ==
  /\ newest = 1 /\ schemaAt = {} /\ lock = Nobody
  /\ stage = [r \in Realms |-> "Reading"]
  /\ readlock = [r \in Realms |-> 1]
  /\ told = [r \in Realms |-> 1]
  /\ writing = [r \in Realms |-> FALSE]
  /\ promoting = [r \in Realms |-> FALSE]
  /\ announce = [r \in Realms |-> FALSE]
  /\ observed = [r \in Realms |-> FALSE]
  /\ signalled = [r \in Realms |-> FALSE]
  /\ missed = [r \in Realms |-> FALSE]
  /\ overtaken = [r \in Realms |-> FALSE]

-----------------------------------------------------------------------------
HasChanged(r) == readlock[r] # newest

Calls(r) == ~promoting[r]

(* getOrCreateGroup: a read transaction starts at the newest version.       *)
BeginRead(r) ==
  /\ stage' = [stage EXCEPT ![r] = "Reading"]
  /\ readlock' = [readlock EXCEPT ![r] = newest]

(* Whether the handler of the observers stops the log of what comes next.   *)
Refused(r) == observed[r] /\ \E v \in schemaAt : v > readlock[r]

Latest(r) == newest

(* advance_read: the readlock moves first, then the log is parsed for the   *)
(* observer and applied to the accessors.                                   *)
AdvanceRead(r) ==
  /\ readlock' = [readlock EXCEPT ![r] = Latest(r)]
  /\ missed' = [missed EXCEPT ![r] = @ \/ Refused(r)]

Tell(r) == told' = [told EXCEPT ![r] = newest]

-----------------------------------------------------------------------------
(* beginWriteTransaction, up to the lock. *)
BeginWriteTransaction(r) ==
  /\ Calls(r) /\ ~writing[r]
  /\ announce' = [announce EXCEPT ![r] = HasChanged(r)]
  /\ promoting' = [promoting EXCEPT ![r] = TRUE]
  /\ \/ stage[r] = "Ready" /\ BeginRead(r) /\ Tell(r)
     \/ stage[r] = "Reading" /\ UNCHANGED <<stage, readlock, told>>
  /\ UNCHANGED <<file, writing, observed, signalled, missed, overtaken>>

(* do_begin_write and the rest: in the transaction, or an exception.        *)
KeptOnThrow(r) == r (* Mutant: the exception leaves the lock taken. *)

LockAfterThrow(r) == Nobody

PromoteToWrite(r) ==
  /\ promoting[r] /\ lock = Nobody
  /\ promoting' = [promoting EXCEPT ![r] = FALSE]
  /\ announce' = [announce EXCEPT ![r] = FALSE]
  /\ AdvanceRead(r)
  /\ IF Refused(r)
     THEN /\ lock' = LockAfterThrow(r)
          /\ UNCHANGED <<stage, writing, told, overtaken>>
     ELSE /\ lock' = r
          /\ stage' = [stage EXCEPT ![r] = "Writing"]
          /\ writing' = [writing EXCEPT ![r] = TRUE]
          /\ IF announce[r] THEN Tell(r) ELSE UNCHANGED told
          /\ overtaken' = [overtaken EXCEPT ![r] = @ \/ (HasChanged(r) /\ ~announce[r])]
  /\ UNCHANGED <<newest, schemaAt, observed, signalled>>

(* The notice goes to all realms of the file; the own one is told at once.   *)
CommitWriteTransaction(r) ==
  /\ Calls(r) /\ writing[r] /\ newest < MaxVersion
  /\ newest' = newest + 1
  /\ \E upgrade \in BOOLEAN :
       /\ upgrade => r \in Upgraders
       /\ schemaAt' = IF upgrade THEN schemaAt \union {newest'} ELSE schemaAt
  /\ readlock' = [readlock EXCEPT ![r] = newest']
  /\ lock' = Nobody
  /\ stage' = [stage EXCEPT ![r] = "Reading"]
  /\ writing' = [writing EXCEPT ![r] = FALSE]
  /\ signalled' = [q \in Realms |-> TRUE]
  /\ told' = [told EXCEPT ![r] = newest']
  /\ overtaken' = [overtaken EXCEPT ![r] = FALSE]
  /\ UNCHANGED <<promoting, announce, observed, missed>>

Released(r) == (* rollback_and_continue_as_read *)
  /\ lock' = IF writing[r] THEN Nobody ELSE lock
  /\ writing' = [writing EXCEPT ![r] = FALSE]

CancelWriteTransaction(r) ==
  /\ Calls(r) /\ writing[r]
  /\ Released(r)
  /\ stage' = [stage EXCEPT ![r] = "Reading"]
  /\ UNCHANGED <<newest, schemaAt, readlock, promoting, announce, observed, signalled,
                 missed, told, overtaken>>

(* All objects are invalidated, and the accessors go with the group.        *)
Invalidate(r) ==
  /\ Calls(r) /\ stage[r] # "Ready"
  /\ Released(r)
  /\ stage' = [stage EXCEPT ![r] = "Ready"]
  /\ observed' = [observed EXCEPT ![r] = FALSE]
  /\ missed' = [missed EXCEPT ![r] = FALSE]
  /\ UNCHANGED <<newest, schemaAt, readlock, promoting, announce, signalled, told, overtaken>>

(* An application reads, and observes what it read.                         *)
Observe(r) ==
  /\ Calls(r) /\ ~observed[r]
  /\ \/ stage[r] = "Ready" /\ BeginRead(r) /\ Tell(r)
     \/ stage[r] # "Ready" /\ UNCHANGED <<stage, readlock, told>>
  /\ observed' = [observed EXCEPT ![r] = TRUE]
  /\ UNCHANGED <<file, writing, promoting, announce, signalled, missed, overtaken>>

NoTelling(r) == told' = told (* Mutant: no DidChange notification after the move. *)

Moved(r) == IF Refused(r) THEN UNCHANGED told ELSE Tell(r)

Refresh(r) ==
  /\ Calls(r) /\ ~writing[r] /\ HasChanged(r)
  /\ \/ stage[r] = "Reading" /\ AdvanceRead(r) /\ Moved(r) /\ UNCHANGED stage
     \/ stage[r] = "Ready" /\ BeginRead(r) /\ Tell(r) /\ UNCHANGED missed
  /\ overtaken' = [overtaken EXCEPT ![r] = FALSE]
  /\ UNCHANGED <<file, writing, promoting, announce, observed, signalled>>

(* On the run loop of the realm; without autorefresh the application is told *)
(* that a refresh is required.                                               *)
HandleExternalCommit(r) ==
  /\ Calls(r) /\ signalled[r]
  /\ signalled' = [signalled EXCEPT ![r] = FALSE]
  /\ IF HasChanged(r) /\ r \in Refreshing
     THEN /\ overtaken' = [overtaken EXCEPT ![r] = FALSE]
          /\ IF stage[r] = "Reading" THEN AdvanceRead(r) /\ Moved(r)
             ELSE Tell(r) /\ UNCHANGED <<readlock, missed>>
     ELSE UNCHANGED <<readlock, missed, told, overtaken>>
  /\ UNCHANGED <<file, stage, writing, promoting, announce, observed>>

Next ==
  \E r \in Realms :
    \/ BeginWriteTransaction(r) \/ PromoteToWrite(r)
    \/ CommitWriteTransaction(r) \/ CancelWriteTransaction(r) \/ Invalidate(r)
    \/ Observe(r) \/ Refresh(r) \/ HandleExternalCommit(r)

Spec == Init /\ [][Next]_vars

-----------------------------------------------------------------------------
(* Properties. *)

(* A commit builds on the version committed last, whatever was committed    *)
(* while the realm waited for the lock: no write undoes another one.        *)
BuildsOnNewest == \A r \in Realms : stage[r] = "Writing" => readlock[r] = newest

(* The lock, m_transact_stage and _inWriteTransaction agree at every call,  *)
(* also after a promotion has thrown: the lock never stays with nobody to   *)
(* free it.                                                                 *)
OneWriter ==
  \A r \in Realms : /\ (lock = r) <=> (stage[r] = "Writing")
                    /\ writing[r] <=> (stage[r] = "Writing")

(* Both: one realm writes at a time, on top of all that was written.        *)
WritesOneByOne == OneWriter /\ BuildsOnNewest

(* The application was told of every version its realm reads, or of a later *)
(* one, unless the move threw or was overtaken on the way to the lock.      *)
ToldUnlessOvertaken ==
  \A r \in Realms :
    stage[r] = "Ready" \/ missed[r] \/ overtaken[r] \/ told[r] >= readlock[r]

=============================================================================
