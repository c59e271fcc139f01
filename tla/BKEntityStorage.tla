-------------------------- MODULE BKEntityStorage --------------------------
(***************************************************************************)
(* BKEntityStorage over Realm: saveRewardValueForName:withValue:forUser:   *)
(* and readRewardValuesForName:forUser:, called from any thread.           *)
(*                                                                         *)
(* Realm keeps one RLMRealm per thread, alive as long as something of that  *)
(* thread refers to it, for instance a reward the application read.  A     *)
(* realm shows the version of the file at which its read transaction began, *)
(* until a write transaction of its own, or, on a thread with a run loop,   *)
(* the notice of another thread's commit, moves it on.  The session's queue *)
(* has no run loop.                                                        *)
(***************************************************************************)
EXTENDS Naturals, Sequences

CONSTANTS
  Threads,     (* the threads that use the storage                        *)
  LoopThreads, (* those among them that run a run loop: the main thread   *)
  Rows,        (* the rewards: a name, a user and a value                 *)
  NoThread,    (* no thread is in a write transaction                     *)
  Closed,      (* no RLMRealm is cached for a thread                      *)
  MaxRows,     (* bound: how many rewards are stored in a behaviour       *)
  MaxLaunches  (* bound: how many times the process is launched           *)

ASSUME StorageAssumption ==
  /\ LoopThreads \subseteq Threads
  /\ NoThread \notin Threads
  /\ Closed \notin Nat
  /\ MaxRows \in Nat
  /\ MaxLaunches \in Nat \ {0}

VARIABLES
  table,   (* the committed BKEntityReward rows, oldest first: the file    *)
  version, (* how many of them each thread's RLMRealm shows, or Closed     *)
  writer,  (* the thread whose realm is in a write transaction            *)
  added,   (* the objects added in that transaction                       *)
  notices, (* the threads whose run loop has a commit notice to handle    *)
  seen,    (* history: the version each thread read last                  *)
  own,     (* history: the version each thread committed last             *)
  launch   (* history: which launch of the process this is                *)

storageVars == <<table, version, writer, added, notices, seen, own, launch>>

Versions == 0 .. Len(table)

TypeOK ==
  /\ table \in Seq(Rows)
  /\ version \in [Threads -> Versions \cup {Closed}]
  /\ writer \in Threads \cup {NoThread}
  /\ added \in Seq(Rows)
  /\ notices \subseteq LoopThreads
  /\ seen \in [Threads -> Versions]
  /\ own \in [Threads -> Versions]
  /\ launch \in 1 .. MaxLaunches

NoRealms == [th \in Threads |-> Closed]

Init ==
  /\ table = <<>>
  /\ version = NoRealms
  /\ writer = NoThread
  /\ added = <<>>
  /\ notices = {}
  /\ seen = [th \in Threads |-> 0]
  /\ own = [th \in Threads |-> 0]
  /\ launch = 1

-----------------------------------------------------------------------------
(* saveRewardValueForName:withValue:forUser: *)

(* The version a write transaction starts from. *)
VersionKept(th) == (* Mutant: that of the open realm. *)
  IF version[th] = Closed THEN Len(table) ELSE version[th]

Promoted(th) == Len(table)

(* [RLMRealm defaultRealm] finds the thread's realm or opens one, and       *)
(* beginWriteTransaction waits for the write lock and moves it to the       *)
(* latest version.                                                         *)
BeginWriteTransaction(th) ==
  /\ writer = NoThread
  /\ Len(table) < MaxRows
  /\ writer' = th
  /\ version' = [version EXCEPT ![th] = Promoted(th)]
  /\ UNCHANGED <<table, added, notices, seen, own, launch>>

AddObject(th, row) ==
  /\ writer = th
  /\ added = <<>>
  /\ added' = <<row>>
  /\ UNCHANGED <<table, version, writer, notices, seen, own, launch>>

(* The realms that will be notified of a commit. *)
Nobody == {} (* Mutant: none. *)

OtherRealms == {th \in LoopThreads : version[th] # Closed}

(* The realm goes on reading from its own commit; the other realms are      *)
(* notified, and those of a run loop will hear of it.                      *)
CommitWriteTransaction(th) ==
  /\ writer = th
  /\ added # <<>>
  /\ table' = table \o added
  /\ version' = [version EXCEPT ![th] = Len(table')]
  /\ own' = [own EXCEPT ![th] = Len(table')]
  /\ notices' = notices \cup OtherRealms
  /\ writer' = NoThread
  /\ added' = <<>>
  /\ UNCHANGED <<seen, launch>>

-----------------------------------------------------------------------------
(* readRewardValuesForName:forUser: *)

(* The version a read on this thread uses: that of its realm, or the latest *)
(* when it has to open one.                                                *)
VersionFor(th) == IF version[th] = Closed THEN Len(table) ELSE version[th]

(* The rows of that version that match the predicate are collected; the     *)
(* thread's realm stays as it is.                                          *)
ReadRewardValues(th) ==
  /\ writer # th
  /\ version' = [version EXCEPT ![th] = VersionFor(th)]
  /\ seen' = [seen EXCEPT ![th] = VersionFor(th)]
  /\ UNCHANGED <<table, writer, added, notices, own, launch>>

-----------------------------------------------------------------------------
(* The realm of a thread. *)

(* The version an open realm has after a notice. *)
Unrefreshed(th) == version[th] (* Mutant: autorefresh is off. *)

Refreshed(th) == IF version[th] = Closed THEN Closed ELSE Len(table)

(* handleExternalCommit, called by the thread's run loop: autorefresh is on *)
(* by default, so an open realm advances to the latest version.            *)
HandleExternalCommit(th) ==
  /\ th \in notices
  /\ writer # th
  /\ notices' = notices \ {th}
  /\ version' = [version EXCEPT ![th] = Refreshed(th)]
  /\ UNCHANGED <<table, writer, added, seen, own, launch>>

(* dealloc: the thread's autorelease pool is drained and no object refers   *)
(* to the realm any more.  Its notifier stops with it.                     *)
Release(th) ==
  /\ version[th] # Closed
  /\ writer # th
  /\ version' = [version EXCEPT ![th] = Closed]
  /\ notices' = notices \ {th}
  /\ UNCHANGED <<table, writer, added, seen, own, launch>>

(* What the file holds when the process is launched again. *)
TableWithAdded == table \o added (* Mutant: half a transaction stays. *)

Recovered == table

(* The process ends, also inside a write transaction, and is launched again. *)
Crash ==
  /\ launch < MaxLaunches
  /\ launch' = launch + 1
  /\ version' = NoRealms
  /\ writer' = NoThread
  /\ added' = <<>>
  /\ notices' = {}
  /\ table' = Recovered
  /\ UNCHANGED <<seen, own>>

Next ==
  \/ \E th \in Threads :
       \/ BeginWriteTransaction(th)
       \/ \E row \in Rows : AddObject(th, row)
       \/ CommitWriteTransaction(th)
       \/ ReadRewardValues(th)
       \/ HandleExternalCommit(th)
       \/ Release(th)
  \/ Crash

Spec == Init /\ [][Next]_storageVars

(* A run loop gets to its sources.  A transaction that was begun is         *)
(* finished: the three calls follow each other on one thread.              *)
Fairness ==
  /\ \A th \in LoopThreads : WF_storageVars(HandleExternalCommit(th))
  /\ \A th \in Threads :
       /\ WF_storageVars(\E row \in Rows : AddObject(th, row))
       /\ WF_storageVars(CommitWriteTransaction(th))

FairSpec == Spec /\ Fairness

-----------------------------------------------------------------------------
(* Properties. *)

(* A thread's realm never shows less than the thread stored itself or has   *)
(* already been shown, and a realm in a write transaction shows everything: *)
(* what the rewards block adds is added to the latest table                *)
(* (BKEntityStorage.m:28-32).                                              *)
RealmNeverBehind ==
  \A th \in Threads : version[th] # Closed =>
    /\ version[th] >= own[th]
    /\ version[th] >= seen[th]
    /\ writer = th => version[th] = Len(table)

(* Reading a reward on the main thread shows what was stored before, or a   *)
(* notice that will refresh the realm is on its way: a realm with a run     *)
(* loop is never stale for good (BKEntityStorage.m:37 does not refresh).    *)
StaleOnlyUntilNotice ==
  \A th \in LoopThreads :
    version[th] # Closed /\ version[th] < Len(table) => th \in notices

(* So the main thread's view catches up with every committed reward.        *)
MainCatchesUp ==
  \A th \in LoopThreads, n \in 1 .. MaxRows :
    Len(table) >= n ~> version[th] = Closed \/ version[th] >= n

(* The storage is a RewardTable: a log that only grows, of which a thread   *)
(* reads ever longer prefixes, with its own rows in them, also over a crash *)
(* in the middle of a transaction, which leaves no part of it behind.       *)
Log == INSTANCE RewardTable WITH log <- table
ImplementsRewardTable == Log!Spec

=============================================================================
