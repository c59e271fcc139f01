------------------------ MODULE BKEntityStorageProofs ------------------------
(***************************************************************************)
(* The reward storage, for every number of threads, rewards and launches:   *)
(* its properties, and that it implements the reward table.  The inductive  *)
(* invariant adds that a transaction holds at most one object, so that a    *)
(* commit is one row of the table.                                         *)
(***************************************************************************)
EXTENDS BKEntityStorage, TLAPS

OneRowAdded == added = <<>> \/ \E row \in Rows : added = <<row>>

StorageInd == TypeOK /\ RealmNeverBehind /\ StaleOnlyUntilNotice /\ OneRowAdded

(* Facts about lengths and versions that the steps below use. *)
LEMMA VersionFacts ==
  ASSUME TypeOK
  PROVE  /\ Len(table) \in Nat
         /\ Closed \notin Versions
         /\ \A th \in Threads : version[th] # Closed => version[th] \in 0 .. Len(table)
         /\ \A th \in Threads : seen[th] \in 0 .. Len(table) /\ own[th] \in 0 .. Len(table)
  BY StorageAssumption DEF TypeOK, Versions

(* A commit adds one row at the end. *)
LEMMA AppendedRow ==
  ASSUME NEW S, NEW s \in Seq(S), NEW e \in S
  PROVE  s \o <<e>> = Append(s, e) /\ Append(s, e) \in Seq(S) /\ Len(Append(s, e)) = Len(s) + 1
  OBVIOUS

(* There is no realm and no row at first. *)
LEMMA StorageInitInd == Init => StorageInd
<1> SUFFICES ASSUME Init PROVE StorageInd
  OBVIOUS
<1>1. TypeOK
  BY StorageAssumption DEF Init, TypeOK, Versions, NoRealms
<1> QED
  BY <1>1, StorageAssumption
     DEF Init, StorageInd, RealmNeverBehind, StaleOnlyUntilNotice, OneRowAdded, NoRealms

(* The write transaction starts at the latest version (RLMRealm.mm:579).    *)
LEMMA BeginWriteTransactionInd ==
  ASSUME StorageInd, NEW th \in Threads, BeginWriteTransaction(th)
  PROVE  StorageInd'
<1> USE DEF StorageInd, BeginWriteTransaction, Promoted
<1>1. TypeOK'
  BY VersionFacts DEF TypeOK, Versions
<1>2. RealmNeverBehind'
  BY VersionFacts, StorageAssumption DEF TypeOK, RealmNeverBehind
<1>3. StaleOnlyUntilNotice'
  BY VersionFacts, StorageAssumption DEF TypeOK, StaleOnlyUntilNotice
<1>4. OneRowAdded'
  BY DEF OneRowAdded
<1> QED
  BY <1>1, <1>2, <1>3, <1>4

(* An object is added (BKEntityStorage.m:31). *)
LEMMA AddObjectInd ==
  ASSUME StorageInd, NEW th \in Threads, NEW row \in Rows, AddObject(th, row)
  PROVE  StorageInd'
<1> USE DEF StorageInd, AddObject
<1>1. TypeOK'
  BY DEF TypeOK, Versions
<1>2. RealmNeverBehind' /\ StaleOnlyUntilNotice' /\ OneRowAdded'
  BY DEF RealmNeverBehind, StaleOnlyUntilNotice, OneRowAdded
<1> QED
  BY <1>1, <1>2

(* A commit is one more row; the writer's realm shows it, and the run loops *)
(* whose realms do not are given a notice (RLMRealm.mm:599-627).            *)
LEMMA CommitFacts ==
  ASSUME StorageInd, NEW th \in Threads, CommitWriteTransaction(th)
  PROVE  /\ \E row \in Rows : table' = Append(table, row)
         /\ Len(table') = Len(table) + 1
         /\ table' \in Seq(Rows)
<1>1. PICK row \in Rows : added = <<row>>
  BY DEF StorageInd, OneRowAdded, CommitWriteTransaction
<1>2. table \in Seq(Rows) /\ table' = table \o <<row>>
  BY <1>1 DEF StorageInd, TypeOK, CommitWriteTransaction
<1>3. table' = Append(table, row)
  BY <1>2, AppendedRow
<1> QED
  BY <1>2, <1>3, AppendedRow

LEMMA CommitWriteTransactionInd ==
  ASSUME StorageInd, NEW th \in Threads, CommitWriteTransaction(th)
  PROVE  StorageInd'
<1> DEFINE n == Len(table)
<1>1. n \in Nat /\ Len(table') = n + 1 /\ table' \in Seq(Rows)
  BY CommitFacts, VersionFacts DEF StorageInd
<1>2. /\ version' = [version EXCEPT ![th] = n + 1]
      /\ own' = [own EXCEPT ![th] = n + 1]
      /\ notices' = notices \cup OtherRealms
      /\ writer' = NoThread /\ added' = <<>>
      /\ UNCHANGED <<seen, launch>>
  BY <1>1 DEF CommitWriteTransaction
<1>3. /\ version \in [Threads -> 0 .. n \cup {Closed}]
      /\ seen \in [Threads -> 0 .. n] /\ own \in [Threads -> 0 .. n]
      /\ notices \subseteq LoopThreads /\ LoopThreads \subseteq Threads
      /\ Closed \notin Nat /\ NoThread \notin Threads
  BY StorageAssumption DEF StorageInd, TypeOK, Versions
<1>4. TypeOK'
  <2>1. version' \in [Threads -> 0 .. n + 1 \cup {Closed}]
    BY <1>1, <1>2, <1>3
  <2>2. seen' \in [Threads -> 0 .. n + 1] /\ own' \in [Threads -> 0 .. n + 1]
    BY <1>1, <1>2, <1>3
  <2>3. notices' \subseteq LoopThreads /\ added' \in Seq(Rows)
    BY <1>2, <1>3 DEF OtherRealms
  <2> QED
    BY <1>1, <1>2, <2>1, <2>2, <2>3 DEF StorageInd, TypeOK, Versions
<1>5. RealmNeverBehind'
  <2>1. ASSUME NEW v \in Threads, version'[v] # Closed
        PROVE  version'[v] >= own'[v] /\ version'[v] >= seen'[v]
    BY <1>1, <1>2, <1>3, <2>1 DEF StorageInd, RealmNeverBehind
  <2> QED
    BY <1>2, <1>3, <2>1 DEF RealmNeverBehind
<1>6. StaleOnlyUntilNotice'
  BY <1>1, <1>2, <1>3 DEF StaleOnlyUntilNotice, OtherRealms
<1> QED
  BY <1>2, <1>4, <1>5, <1>6 DEF StorageInd, OneRowAdded

(* A read uses the realm as it is, or opens one (BKEntityStorage.m:37).     *)
LEMMA ReadRewardValuesInd ==
  ASSUME StorageInd, NEW th \in Threads, ReadRewardValues(th)
  PROVE  StorageInd'
<1> USE DEF StorageInd, ReadRewardValues
<1>1. VersionFor(th) \in 0 .. Len(table)
  BY VersionFacts DEF VersionFor
<1>2. TypeOK'
  BY <1>1 DEF TypeOK, Versions
<1>3. RealmNeverBehind'
  BY <1>1, VersionFacts DEF TypeOK, RealmNeverBehind, VersionFor
<1>4. StaleOnlyUntilNotice'
  BY VersionFacts, StorageAssumption DEF TypeOK, StaleOnlyUntilNotice, VersionFor
<1> QED
  BY <1>2, <1>3, <1>4 DEF OneRowAdded

(* A run loop handles a notice (RLMRealm.mm:742-761). *)
LEMMA HandleExternalCommitInd ==
  ASSUME StorageInd, NEW th \in LoopThreads, HandleExternalCommit(th)
  PROVE  StorageInd'
<1> USE DEF StorageInd, HandleExternalCommit, Refreshed
<1>1. th \in Threads
  BY StorageAssumption
<1>2. TypeOK'
  BY <1>1, VersionFacts DEF TypeOK, Versions
<1>3. RealmNeverBehind'
  BY <1>1, VersionFacts DEF TypeOK, RealmNeverBehind
<1>4. StaleOnlyUntilNotice'
  BY <1>1, VersionFacts, StorageAssumption DEF TypeOK, StaleOnlyUntilNotice
<1> QED
  BY <1>2, <1>3, <1>4 DEF OneRowAdded

(* A realm is let go (RLMRealm.mm:732-740). *)
LEMMA ReleaseInd ==
  ASSUME StorageInd, NEW th \in Threads, Release(th)
  PROVE  StorageInd'
<1> USE DEF StorageInd, Release
<1>1. TypeOK'
  BY DEF TypeOK, Versions
<1>2. RealmNeverBehind' /\ StaleOnlyUntilNotice'
  BY StorageAssumption DEF TypeOK, RealmNeverBehind, StaleOnlyUntilNotice
<1> QED
  BY <1>1, <1>2 DEF OneRowAdded

(* The process ends: what was committed stays (external). *)
LEMMA CrashInd == ASSUME StorageInd, Crash PROVE StorageInd'
<1> USE DEF StorageInd, Crash, Recovered, NoRealms
<1>1. TypeOK'
  BY StorageAssumption DEF TypeOK, Versions
<1>2. RealmNeverBehind' /\ StaleOnlyUntilNotice'
  BY StorageAssumption DEF RealmNeverBehind, StaleOnlyUntilNotice
<1> QED
  BY <1>1, <1>2 DEF OneRowAdded

LEMMA StorageNextInd == StorageInd /\ [Next]_storageVars => StorageInd'
<1> SUFFICES ASSUME StorageInd, [Next]_storageVars PROVE StorageInd'
  OBVIOUS
<1>1. CASE UNCHANGED storageVars
  BY <1>1 DEF storageVars, StorageInd, TypeOK, Versions, RealmNeverBehind, StaleOnlyUntilNotice,
              OneRowAdded
<1>2. ASSUME NEW th \in Threads, HandleExternalCommit(th) PROVE StorageInd'
  <2>1. th \in LoopThreads
    BY <1>2 DEF HandleExternalCommit, StorageInd, TypeOK
  <2> QED
    BY <1>2, <2>1, HandleExternalCommitInd
<1>3. CASE Next
  BY <1>2, <1>3, BeginWriteTransactionInd, AddObjectInd, CommitWriteTransactionInd,
     ReadRewardValuesInd, ReleaseInd, CrashInd DEF Next
<1> QED
  BY <1>1, <1>3

LEMMA StorageInvariant == Spec => []StorageInd
  BY StorageInitInd, StorageNextInd, PTL DEF Spec

(* A realm never shows less than its thread stored or read, and a writer    *)
(* sees the latest table (BKEntityStorage.m:28-32).                         *)
THEOREM StorageSafe == Spec => [](TypeOK /\ RealmNeverBehind)
<1>1. StorageInd => TypeOK /\ RealmNeverBehind
  BY DEF StorageInd
<1> QED
  BY <1>1, StorageInvariant, PTL

(* A stale realm of a run loop has a notice on its way (BKEntityStorage.m:37). *)
THEOREM NoticeOnItsWay == Spec => []StaleOnlyUntilNotice
<1>1. StorageInd => StaleOnlyUntilNotice
  BY DEF StorageInd
<1> QED
  BY <1>1, StorageInvariant, PTL

-----------------------------------------------------------------------------
(* The refinement. *)

(* A commit stores a row; a read is a read of a prefix that is long enough; *)
(* nothing else is seen in the table.                                      *)
LEMMA StorageStepMapped == StorageInd /\ [Next]_storageVars => [Log!Next]_(Log!tableVars)
<1> SUFFICES ASSUME StorageInd, [Next]_storageVars
             PROVE  Log!Next \/ UNCHANGED Log!tableVars
  OBVIOUS
<1>1. ASSUME NEW th \in Threads, CommitWriteTransaction(th) PROVE Log!Next
  <2>1. PICK row \in Rows : table' = Append(table, row)
    BY <1>1, CommitFacts
  <2>2. own' = [own EXCEPT ![th] = Len(table) + 1] /\ UNCHANGED seen
    BY <1>1, CommitFacts DEF CommitWriteTransaction
  <2>3. Log!Store(th, row)
    BY <2>1, <2>2 DEF Log!Store
  <2> QED
    BY <2>3 DEF Log!Next
<1>2. ASSUME NEW th \in Threads, ReadRewardValues(th) PROVE Log!Next
  <2>1. /\ VersionFor(th) \in 0 .. Len(table)
        /\ VersionFor(th) >= seen[th] /\ VersionFor(th) >= own[th]
    BY VersionFacts DEF VersionFor, StorageInd, RealmNeverBehind
  <2>2. Log!Read(th, VersionFor(th))
    BY <1>2, <2>1 DEF ReadRewardValues, Log!Read
  <2> QED
    BY <2>1, <2>2 DEF Log!Next
<1>3. CASE \/ \E th \in Threads :
                \/ BeginWriteTransaction(th) \/ \E row \in Rows : AddObject(th, row)
                \/ HandleExternalCommit(th) \/ Release(th)
           \/ Crash
           \/ UNCHANGED storageVars
  BY <1>3 DEF BeginWriteTransaction, AddObject, HandleExternalCommit, Release, Crash, Recovered,
              storageVars, Log!tableVars
<1> QED
  BY <1>1, <1>2, <1>3 DEF Next

(* The storage is a log that only grows and survives the process, of which  *)
(* each thread reads ever longer prefixes with its own rows in them         *)
(* (BKEntityStorage.m:22-44).                                               *)
THEOREM StorageImplementsTable == Spec => ImplementsRewardTable
<1>1. Init => Log!Init
  BY DEF Init, Log!Init
<1> QED
  BY <1>1, StorageStepMapped, StorageInvariant, PTL DEF Spec, ImplementsRewardTable, Log!Spec

=============================================================================
