-------------------------- MODULE RealmCommitsProofs --------------------------
(***************************************************************************)
(* Commits of the realms of one file, and what observers hear of them,     *)
(* proved for any number of realms, versions, objects and observers, logs  *)
(* of any length and any size of the pipe.                                 *)
(*                                                                         *)
(* Transactions: one writer at a time, and each on the newest version.     *)
(* Needed besides the two: who waits for the lock is in a read transaction.*)
(* Only the holder of the lock commits, and while it holds it nothing      *)
(* changes the newest version or its readlock.                             *)
(*                                                                         *)
(* Notifier: no commit slips past a realm.  NothingSlips is inductive      *)
(* together with the types: a writer that ends leaves a byte and activates *)
(* every event, and nothing else takes the last byte away.                 *)
(*                                                                         *)
(* Observation: who is observed hears of what changes.  ObservationInd     *)
(* says of every log that an observer is in the row of its object unless   *)
(* that has moved, and of which selected list activeLinkList is; while no  *)
(* observed object has moved, or in a rollback, observers stay sorted, and *)
(* the search finds the one of a row.                                      *)
(*                                                                         *)
(* Lists: the one change that is told of a list leads from the old list to *)
(* the new one, as each removal and insertion shifts the indexes kept.     *)
(***************************************************************************)
EXTENDS RealmTransactions, RealmNotifier, RealmObservation, ListChanges, InductionLemmas,
        SequenceTheorems

WaitingReads == \A r \in Realms : promoting[r] => stage[r] = "Reading"

IInv == TypeOK /\ OneWriter /\ BuildsOnNewest /\ WaitingReads

LEMMA InitIInv == Init => IInv
  BY RealmTransactionsAssumption
     DEF Init, IInv, TypeOK, OneWriter, BuildsOnNewest, WaitingReads, Nobody

-----------------------------------------------------------------------------
(* The steps, one by one. *)

LEMMA BeginStep ==
  ASSUME IInv, NEW r \in Realms, BeginWriteTransaction(r)
  PROVE  IInv'
<1> USE RealmTransactionsAssumption
    DEF IInv, BeginWriteTransaction, BeginRead, Tell, Calls, HasChanged, file
<1>1. TypeOK'
  BY DEF TypeOK
<1>2. OneWriter'
  BY DEF TypeOK, OneWriter
<1>3. BuildsOnNewest'
  BY DEF TypeOK, BuildsOnNewest
<1>4. WaitingReads'
  BY DEF TypeOK, WaitingReads
<1> QED
  BY <1>1, <1>2, <1>3, <1>4

LEMMA PromoteStep ==
  ASSUME IInv, NEW r \in Realms, PromoteToWrite(r)
  PROVE  IInv'
<1> USE RealmTransactionsAssumption
    DEF IInv, PromoteToWrite, AdvanceRead, Tell, Latest, LockAfterThrow
<1>1. stage[r] = "Reading" /\ \A q \in Realms : stage[q] # "Writing"
  BY DEF TypeOK, OneWriter, WaitingReads, Nobody
<1>2. readlock' = [readlock EXCEPT ![r] = newest] /\ newest' = newest
      /\ missed' \in [Realms -> BOOLEAN] /\ announce' \in [Realms -> BOOLEAN]
      /\ promoting' = [promoting EXCEPT ![r] = FALSE]
  BY DEF TypeOK, Refused
<1>3. CASE Refused(r)
  <2>1. lock' = Nobody /\ UNCHANGED <<stage, writing, told, overtaken>>
    BY <1>3
  <2>2. TypeOK'
    BY <1>2, <2>1 DEF TypeOK
  <2>3. OneWriter'
    BY <1>1, <2>1 DEF TypeOK, OneWriter
  <2>4. BuildsOnNewest'
    BY <1>1, <2>1 DEF BuildsOnNewest
  <2>5. WaitingReads'
    BY <1>2, <2>1 DEF TypeOK, WaitingReads
  <2> QED
    BY <2>2, <2>3, <2>4, <2>5
<1>4. CASE ~Refused(r)
  <2>1. /\ lock' = r
        /\ stage' = [stage EXCEPT ![r] = "Writing"]
        /\ writing' = [writing EXCEPT ![r] = TRUE]
    BY <1>4
  <2>2. told' \in [Realms -> 1 .. MaxVersion] /\ overtaken' \in [Realms -> BOOLEAN]
    BY <1>4 DEF TypeOK, HasChanged
  <2>3. TypeOK'
    BY <1>2, <2>1, <2>2 DEF TypeOK
  <2>4. OneWriter'
    BY <1>1, <2>1 DEF TypeOK, OneWriter
  <2>5. BuildsOnNewest'
    BY <1>1, <1>2, <2>1 DEF TypeOK, BuildsOnNewest
  <2>6. WaitingReads'
    BY <1>2, <2>1 DEF TypeOK, WaitingReads
  <2> QED
    BY <2>3, <2>4, <2>5, <2>6
<1> QED
  BY <1>3, <1>4

LEMMA CommitStep ==
  ASSUME IInv, NEW r \in Realms, CommitWriteTransaction(r)
  PROVE  IInv'
<1> USE RealmTransactionsAssumption DEF IInv, CommitWriteTransaction, Calls
<1>1. stage[r] = "Writing" /\ \A q \in Realms \ {r} : stage[q] # "Writing"
  BY DEF TypeOK, OneWriter
<1>2. newest' = newest + 1 /\ newest' \in 1 .. MaxVersion
      /\ schemaAt' \subseteq 1 .. MaxVersion
  BY DEF TypeOK
<1>3. TypeOK'
  BY <1>2 DEF TypeOK
<1>4. OneWriter'
  BY <1>1 DEF TypeOK, OneWriter, Nobody
<1>5. BuildsOnNewest'
  BY <1>1 DEF TypeOK, BuildsOnNewest
<1>6. WaitingReads'
  BY DEF TypeOK, WaitingReads
<1> QED
  BY <1>3, <1>4, <1>5, <1>6

LEMMA CancelStep ==
  ASSUME IInv, NEW r \in Realms, CancelWriteTransaction(r)
  PROVE  IInv'
<1> USE RealmTransactionsAssumption DEF IInv, CancelWriteTransaction, Calls, Released
<1>1. stage[r] = "Writing" /\ \A q \in Realms \ {r} : stage[q] # "Writing"
  BY DEF TypeOK, OneWriter
<1>2. TypeOK'
  BY DEF TypeOK
<1>3. OneWriter'
  BY <1>1 DEF TypeOK, OneWriter, Nobody
<1>4. BuildsOnNewest'
  BY <1>1 DEF TypeOK, BuildsOnNewest
<1>5. WaitingReads'
  BY DEF TypeOK, WaitingReads
<1> QED
  BY <1>2, <1>3, <1>4, <1>5

LEMMA InvalidateStep ==
  ASSUME IInv, NEW r \in Realms, Invalidate(r)
  PROVE  IInv'
<1> USE RealmTransactionsAssumption DEF IInv, Invalidate, Calls, Released
<1>1. TypeOK'
  BY DEF TypeOK
<1>2. OneWriter'
  BY DEF TypeOK, OneWriter, Nobody
<1>3. BuildsOnNewest'
  BY DEF TypeOK, BuildsOnNewest
<1>4. WaitingReads'
  BY DEF TypeOK, WaitingReads
<1> QED
  BY <1>1, <1>2, <1>3, <1>4

LEMMA ObserveStep ==
  ASSUME IInv, NEW r \in Realms, Observe(r)
  PROVE  IInv'
<1> USE RealmTransactionsAssumption DEF IInv, Observe, BeginRead, Tell, Calls, file
<1>1. TypeOK'
  BY DEF TypeOK
<1>2. OneWriter'
  BY DEF TypeOK, OneWriter
<1>3. BuildsOnNewest'
  BY DEF TypeOK, BuildsOnNewest
<1>4. WaitingReads'
  BY DEF TypeOK, WaitingReads
<1> QED
  BY <1>1, <1>2, <1>3, <1>4

LEMMA RefreshStep ==
  ASSUME IInv, NEW r \in Realms, Refresh(r)
  PROVE  IInv'
<1> USE RealmTransactionsAssumption
    DEF IInv, Refresh, AdvanceRead, Moved, BeginRead, Tell, Latest, Calls, file
<1>1. /\ stage[r] # "Writing"
      /\ readlock' = [readlock EXCEPT ![r] = newest]
      /\ stage' = stage \/ stage' = [stage EXCEPT ![r] = "Reading"]
      /\ told' \in [Realms -> 1 .. MaxVersion]
      /\ missed' \in [Realms -> BOOLEAN]
  BY DEF TypeOK, OneWriter, Refused
<1>2. TypeOK'
  BY <1>1 DEF TypeOK
<1>3. OneWriter'
  BY <1>1 DEF TypeOK, OneWriter
<1>4. BuildsOnNewest'
  BY <1>1 DEF TypeOK, BuildsOnNewest
<1>5. WaitingReads'
  BY <1>1 DEF TypeOK, WaitingReads
<1> QED
  BY <1>2, <1>3, <1>4, <1>5

LEMMA HandleStep ==
  ASSUME IInv, NEW r \in Realms, HandleExternalCommit(r)
  PROVE  IInv'
<1> USE RealmTransactionsAssumption
    DEF IInv, HandleExternalCommit, AdvanceRead, Moved, Tell, Latest, Calls, file
<1>1. /\ readlock' = readlock \/ readlock' = [readlock EXCEPT ![r] = newest]
      /\ told' \in [Realms -> 1 .. MaxVersion]
      /\ missed' \in [Realms -> BOOLEAN]
      /\ overtaken' \in [Realms -> BOOLEAN]
  <2>1. CASE HasChanged(r) /\ r \in Refreshing /\ stage[r] = "Reading"
    <3>1. told' = told \/ told' = [told EXCEPT ![r] = newest]
      BY <2>1
    <3>2. missed' = [missed EXCEPT ![r] = @ \/ Refused(r)]
      BY <2>1
    <3>3. missed' \in [Realms -> BOOLEAN]
      BY <3>2 DEF TypeOK, Refused
    <3>4. overtaken' = [overtaken EXCEPT ![r] = FALSE]
          /\ readlock' = [readlock EXCEPT ![r] = newest]
      BY <2>1
    <3>5. told' \in [Realms -> 1 .. MaxVersion]
      BY ONLY <3>1, IInv, r \in Realms DEF IInv, TypeOK
    <3>6. overtaken' \in [Realms -> BOOLEAN]
      BY ONLY <3>4, IInv, r \in Realms DEF IInv, TypeOK
    <3> QED
      BY ONLY <3>3, <3>4, <3>5, <3>6
  <2>2. CASE HasChanged(r) /\ r \in Refreshing /\ stage[r] # "Reading"
    <3>1. told' = [told EXCEPT ![r] = newest] /\ UNCHANGED <<readlock, missed>>
          /\ overtaken' = [overtaken EXCEPT ![r] = FALSE]
      BY <2>2
    <3> QED
      BY ONLY <3>1, IInv, r \in Realms DEF IInv, TypeOK
  <2>3. CASE ~(HasChanged(r) /\ r \in Refreshing)
    BY <2>3 DEF TypeOK
  <2> QED
    BY <2>1, <2>2, <2>3
<1>2. TypeOK'
  <2>1. signalled' \in [Realms -> BOOLEAN] /\ readlock' \in [Realms -> 1 .. MaxVersion]
    BY <1>1 DEF TypeOK
  <2> QED
    BY <1>1, <2>1 DEF TypeOK
<1>3. OneWriter'
  BY DEF OneWriter
<1>4. BuildsOnNewest'
  BY <1>1 DEF TypeOK, BuildsOnNewest
<1>5. WaitingReads'
  BY DEF WaitingReads
<1> QED
  BY <1>2, <1>3, <1>4, <1>5

-----------------------------------------------------------------------------
LEMMA StepIInv == IInv /\ [Next]_vars => IInv'
<1> SUFFICES ASSUME IInv, [Next]_vars PROVE IInv'
  OBVIOUS
<1>1. CASE UNCHANGED vars
  BY <1>1 DEF vars, file, IInv, TypeOK, OneWriter, BuildsOnNewest, WaitingReads
<1>2. CASE Next
  BY <1>2, BeginStep, PromoteStep, CommitStep, CancelStep, InvalidateStep,
     ObserveStep, RefreshStep, HandleStep DEF Next
<1> QED
  BY <1>1, <1>2

(* The lock, the stage and the flag of a realm agree at every call.          *)
THEOREM WriterHoldsTheLock == Spec => []OneWriter
<1>1. IInv => OneWriter
  BY DEF IInv
<1> QED
  BY <1>1, InitIInv, StepIInv, PTL DEF Spec

(* No write builds on anything but the version committed last.               *)
THEOREM NoWriteUndoesAnother == Spec => []BuildsOnNewest
<1>1. IInv => BuildsOnNewest
  BY DEF IInv
<1> QED
  BY <1>1, InitIInv, StepIInv, PTL DEF Spec

(* What the run of the realms checks, as one property.                      *)
THEOREM RealmsWriteOneByOne == Spec => []WritesOneByOne
<1> QED
  BY WriterHoldsTheLock, NoWriteUndoesAnother, PTL DEF WritesOneByOne

-----------------------------------------------------------------------------
(* What an application was told is kept up by every step on its own.         *)
LEMMA ToldStep ==
  ASSUME IInv, ToldUnlessOvertaken, [Next]_vars
  PROVE  ToldUnlessOvertaken'
<1> SUFFICES ASSUME NEW q \in Realms
             PROVE  \/ stage'[q] = "Ready" \/ missed'[q] \/ overtaken'[q]
                    \/ told'[q] >= readlock'[q]
  BY DEF ToldUnlessOvertaken
<1>1. \/ stage[q] = "Ready" \/ missed[q] \/ overtaken[q] \/ told[q] >= readlock[q]
  BY DEF ToldUnlessOvertaken
<1>2. newest \in Nat /\ told[q] \in Nat /\ readlock[q] \in Nat
  BY DEF IInv, TypeOK
<1> USE DEF IInv, TypeOK
<1>3. CASE UNCHANGED vars
  BY <1>1, <1>3 DEF vars
<1>4. ASSUME NEW r \in Realms, BeginWriteTransaction(r)
      PROVE  stage'[q] = "Ready" \/ missed'[q] \/ overtaken'[q] \/ told'[q] >= readlock'[q]
  BY <1>1, <1>2, <1>4 DEF BeginWriteTransaction, BeginRead, Tell
<1>5. ASSUME NEW r \in Realms, PromoteToWrite(r)
      PROVE  stage'[q] = "Ready" \/ missed'[q] \/ overtaken'[q] \/ told'[q] >= readlock'[q]
  <2>1. CASE q # r
    BY <1>1, <1>5, <2>1 DEF PromoteToWrite, AdvanceRead, Tell
  <2>2. CASE q = r /\ Refused(r)
    BY <1>5, <2>2 DEF PromoteToWrite, AdvanceRead
  <2>3. CASE q = r /\ ~Refused(r) /\ announce[r]
    BY <1>2, <1>5, <2>3 DEF PromoteToWrite, AdvanceRead, Tell, Latest
  <2>4. CASE q = r /\ ~Refused(r) /\ ~announce[r]
    <3>1. stage[r] = "Reading"
      BY <1>5 DEF PromoteToWrite, WaitingReads
    <3>2. missed[q] => missed'[q]
      BY <1>5, <2>4 DEF PromoteToWrite, AdvanceRead
    <3>3. told' = told /\ readlock'[q] = newest
          /\ (overtaken[q] \/ readlock[q] # newest => overtaken'[q])
      BY <1>5, <2>4 DEF PromoteToWrite, AdvanceRead, Latest, HasChanged
    <3> QED
      BY <1>1, <2>4, <3>1, <3>2, <3>3
  <2> QED
    BY <2>1, <2>2, <2>3, <2>4
<1>6. ASSUME NEW r \in Realms, CommitWriteTransaction(r)
      PROVE  stage'[q] = "Ready" \/ missed'[q] \/ overtaken'[q] \/ told'[q] >= readlock'[q]
  BY <1>1, <1>2, <1>6 DEF CommitWriteTransaction
<1>7. ASSUME NEW r \in Realms, CancelWriteTransaction(r)
      PROVE  stage'[q] = "Ready" \/ missed'[q] \/ overtaken'[q] \/ told'[q] >= readlock'[q]
  BY <1>1, <1>7 DEF CancelWriteTransaction, Released, OneWriter
<1>8. ASSUME NEW r \in Realms, Invalidate(r)
      PROVE  stage'[q] = "Ready" \/ missed'[q] \/ overtaken'[q] \/ told'[q] >= readlock'[q]
  BY <1>1, <1>8 DEF Invalidate
<1>9. ASSUME NEW r \in Realms, Observe(r)
      PROVE  stage'[q] = "Ready" \/ missed'[q] \/ overtaken'[q] \/ told'[q] >= readlock'[q]
  BY <1>1, <1>2, <1>9 DEF Observe, BeginRead, Tell
<1>10. ASSUME NEW r \in Realms, Refresh(r)
       PROVE  stage'[q] = "Ready" \/ missed'[q] \/ overtaken'[q] \/ told'[q] >= readlock'[q]
  <2>1. CASE q # r
    BY <1>1, <1>10, <2>1 DEF Refresh, AdvanceRead, Moved, BeginRead, Tell
  <2>2. CASE q = r /\ stage[r] = "Reading"
    <3>1. missed' = [missed EXCEPT ![r] = @ \/ Refused(r)]
          /\ readlock' = [readlock EXCEPT ![r] = newest]
          /\ (~Refused(r) => told' = [told EXCEPT ![r] = newest])
      BY <1>10, <2>2 DEF Refresh, AdvanceRead, Moved, Tell, Latest
    <3>2. Refused(r) => missed'[q]
      BY <2>2, <3>1 DEF Refused
    <3>3. ~Refused(r) => told'[q] = newest /\ readlock'[q] = newest
      BY <2>2, <3>1
    <3> QED
      BY <1>2, <3>2, <3>3
  <2>3. CASE q = r /\ stage[r] = "Ready"
    BY <1>2, <1>10, <2>3 DEF Refresh, BeginRead, Tell
  <2> QED
    BY <1>10, <2>1, <2>2, <2>3 DEF Refresh
<1>11. ASSUME NEW r \in Realms, HandleExternalCommit(r)
       PROVE  stage'[q] = "Ready" \/ missed'[q] \/ overtaken'[q] \/ told'[q] >= readlock'[q]
  <2>1. CASE ~(HasChanged(r) /\ r \in Refreshing)
    BY <1>1, <1>11, <2>1 DEF HandleExternalCommit
  <2>2. CASE q # r
    <3>1. UNCHANGED <<stage, readlock, missed, told, overtaken>>
          \/ /\ UNCHANGED stage
             /\ overtaken' = [overtaken EXCEPT ![r] = FALSE]
             /\ readlock' = readlock \/ readlock' = [readlock EXCEPT ![r] = newest]
             /\ missed' = missed \/ missed' = [missed EXCEPT ![r] = @ \/ Refused(r)]
             /\ told' = told \/ told' = [told EXCEPT ![r] = newest]
      BY <1>11 DEF HandleExternalCommit, AdvanceRead, Moved, Tell, Latest
    <3>2. missed'[q] = missed[q] /\ overtaken'[q] = overtaken[q]
      BY <2>2, <3>1
    <3>3. stage'[q] = stage[q] /\ readlock'[q] = readlock[q] /\ told'[q] = told[q]
      BY <2>2, <3>1
    <3> QED
      BY <1>1, <3>2, <3>3
  <2>3. CASE q = r /\ HasChanged(r) /\ r \in Refreshing /\ stage[r] = "Reading"
    <3>1. missed' = [missed EXCEPT ![r] = @ \/ Refused(r)]
          /\ readlock' = [readlock EXCEPT ![r] = newest]
          /\ (~Refused(r) => told' = [told EXCEPT ![r] = newest])
      BY <1>11, <2>3 DEF HandleExternalCommit, AdvanceRead, Moved, Tell, Latest
    <3>2. Refused(r) => missed'[q]
      BY <2>3, <3>1 DEF Refused
    <3>3. ~Refused(r) => told'[q] = newest /\ readlock'[q] = newest
      BY <2>3, <3>1
    <3> QED
      BY <1>2, <3>2, <3>3
  <2>4. CASE q = r /\ HasChanged(r) /\ r \in Refreshing /\ stage[r] # "Reading"
    <3>1. stage[q] = "Ready"
      BY <2>4 DEF HasChanged, BuildsOnNewest
    <3> QED
      BY <1>11, <3>1 DEF HandleExternalCommit
  <2> QED
    BY <2>1, <2>2, <2>3, <2>4
<1> QED
  BY <1>3, <1>4, <1>5, <1>6, <1>7, <1>8, <1>9, <1>10, <1>11 DEF Next

(* The application of a realm was told of every version the realm moved to,  *)
(* unless the move threw or a commit overtook it on the way to the lock.      *)
THEOREM MovesAreTold == Spec => []ToldUnlessOvertaken
<1>1. Init => ToldUnlessOvertaken
  <2> SUFFICES ASSUME Init, NEW r \in Realms PROVE told[r] >= readlock[r]
    BY DEF ToldUnlessOvertaken
  <2>1. told[r] = 1 /\ readlock[r] = 1
    BY DEF Init
  <2> QED
    BY <2>1
<1> QED
  BY <1>1, InitIInv, StepIInv, ToldStep, PTL DEF Spec

-----------------------------------------------------------------------------
(* The notifier. *)

(* What the proof is about: the types, and NothingSlips. *)
NotifierInv == NotifierTypeOK /\ NothingSlips

LEMMA InitNotifierInv == NotifierInit => NotifierInv
  BY RealmNotifierAssumption DEF NotifierInit, NotifierInv, NotifierTypeOK, NothingSlips

(* The types are kept by every step. *)
LEMMA TypeStep == NotifierTypeOK /\ [NotifierNext]_notifierVars => NotifierTypeOK'
<1> SUFFICES ASSUME NotifierTypeOK, [NotifierNext]_notifierVars PROVE NotifierTypeOK'
  OBVIOUS
<1> USE RealmNotifierAssumption DEF NotifierTypeOK
<1>1. CASE UNCHANGED notifierVars
  BY <1>1 DEF notifierVars
<1>2. ASSUME NEW r \in Listeners, Commit(r) PROVE NotifierTypeOK'
  BY <1>2 DEF Commit
<1>3. ASSUME NEW r \in Listeners, Write(r) PROVE NotifierTypeOK'
  BY <1>3 DEF Write
<1>4. ASSUME NEW r \in Listeners, Drain(r) PROVE NotifierTypeOK'
  BY <1>4 DEF Drain, AfterDrain
<1>5. ASSUME NEW r \in Listeners, Listen(r) PROVE NotifierTypeOK'
  BY <1>5 DEF Listen, ActiveAtStart
<1>6. ASSUME NEW r \in Listeners, Wake(r) PROVE NotifierTypeOK'
  <2>1. CASE pipe > 0
    BY <1>6, <2>1 DEF Wake, PipeAfterWake
  <2>2. CASE ~(pipe > 0)
    BY <1>6, <2>2 DEF Wake
  <2> QED
    BY <2>1, <2>2
<1>7. ASSUME NEW r \in Listeners, HandleSource(r) PROVE NotifierTypeOK'
  BY <1>7 DEF HandleSource
<1> QED
  BY <1>1, <1>2, <1>3, <1>4, <1>5, <1>6, <1>7 DEF NotifierNext, Thread, Listener

(* A realm that is behind after a step has something pending after it. *)
LEMMA SlipStep == NotifierInv /\ [NotifierNext]_notifierVars => NothingSlips'
<1> SUFFICES ASSUME NotifierInv, [NotifierNext]_notifierVars, NEW q \in Listeners, (known[q] # committed)'
             PROVE Pending(q)'
  BY DEF NothingSlips
<1> USE RealmNotifierAssumption DEF NotifierTypeOK, NotifierInv
<1>1. CASE UNCHANGED notifierVars
  BY <1>1 DEF notifierVars, NothingSlips, Pending
<1>2. ASSUME NEW r \in Listeners, Commit(r) PROVE Pending(q)'
  <2>1. pc'[r] = "write"
    BY <1>2 DEF Commit
  <2> QED
    BY <2>1 DEF Pending
<1>3. ASSUME NEW r \in Listeners, Write(r) PROVE Pending(q)'
  <2>1. CASE pipe < Capacity
    <3>1. pipe' > 0
      BY <1>3, <2>1 DEF Write
    <3>2. listening'[q] => active'[q]
      BY <1>3, <2>1 DEF Write
    <3> QED
      BY <3>1, <3>2 DEF Pending
  <2>2. CASE ~(pipe < Capacity)
    <3>1. pc'[r] = "drain"
      BY <1>3, <2>2 DEF Write
    <3> QED
      BY <3>1 DEF Pending
  <2> QED
    BY <2>1, <2>2
<1>4. ASSUME NEW r \in Listeners, Drain(r) PROVE Pending(q)'
  <2>1. pc'[r] = "write"
    BY <1>4 DEF Drain, AfterDrain
  <2> QED
    BY <2>1 DEF Pending
<1>5. ASSUME NEW r \in Listeners, Listen(r) PROVE Pending(q)'
  <2>1. Pending(q)
    BY <1>5 DEF Listen, NothingSlips
  <2>2. CASE q = r
    BY <1>5, <2>1, <2>2 DEF Listen, ActiveAtStart, Pending
  <2>3. CASE q # r
    BY <1>5, <2>1, <2>3 DEF Listen, Pending
  <2> QED
    BY <2>2, <2>3
<1>6. ASSUME NEW r \in Listeners, Wake(r) PROVE Pending(q)'
  <2>1. Pending(q)
    BY <1>6 DEF Wake, NothingSlips
  <2>2. CASE q = r
    BY <1>6, <2>1, <2>2 DEF Wake, PipeAfterWake, Pending
  <2>3. CASE q # r
    BY <1>6, <2>1, <2>3 DEF Wake, PipeAfterWake, Pending
  <2> QED
    BY <2>2, <2>3
<1>7. ASSUME NEW r \in Listeners, HandleSource(r) PROVE Pending(q)'
  <2>1. q # r
    BY <1>7 DEF HandleSource
  <2>2. Pending(q)
    BY <1>7, <2>1 DEF HandleSource, NothingSlips
  <2> QED
    BY <1>7, <2>1, <2>2 DEF HandleSource, Pending
<1> QED
  BY <1>1, <1>2, <1>3, <1>4, <1>5, <1>6, <1>7 DEF NotifierNext, Thread, Listener

(* Every behaviour: while a realm is behind the file, a write of the pipe,  *)
(* an event or a signal of the run loop is on its way to it.                *)
THEOREM NoCommitSlips == NotifierSpec => []NothingSlips
<1>1. NotifierInit => NotifierInv
  BY InitNotifierInv
<1>2. NotifierInv /\ [NotifierNext]_notifierVars => NotifierInv'
  BY TypeStep, SlipStep DEF NotifierInv
<1>3. NotifierInv => NothingSlips
  BY DEF NotifierInv
<1> QED
  BY <1>1, <1>2, <1>3, PTL DEF NotifierSpec

-----------------------------------------------------------------------------
(* Only: there is such a function, and what it keeps.                        *)
KeepsTo(f, all, these) ==
  /\ DOMAIN f = 0 .. Len(all)
  /\ f[0] = <<>>
  /\ \A n \in 1 .. Len(all) :
       f[n] = IF all[n] \in these THEN Append(f[n - 1], all[n]) ELSE f[n - 1]

HowKept(all, these) == \E f : KeepsTo(f, all, these) /\ Only(all, these) = f[Len(all)]

LEMMA KeptBySteps ==
  ASSUME NEW S, NEW all \in Seq(S), NEW these
  PROVE  HowKept(all, these)
<1> DEFINE L == Len(all)
           Kept(v, n) == IF all[n] \in these THEN Append(v, all[n]) ELSE v
           upTo == CHOOSE f : f = [n \in 0 .. L |->
                     IF n = 0 THEN <<>>
                     ELSE IF all[n] \in these THEN Append(f[n - 1], all[n]) ELSE f[n - 1]]
           Follows(f, n) == f[n] = IF n = 0 THEN <<>> ELSE Kept(f[n - 1], n)
           Built(k) == \E f : DOMAIN f = 0 .. k /\ \A n \in 0 .. k : Follows(f, n)
<1>1. Only(all, these) = upTo[L]
  BY DEF Only
<1>2. PICK l \in Nat : l = L
  OBVIOUS
<1> HIDE DEF L, Kept
<1>3. Built(0)
  <2>1. PICK f : f = [n \in 0 .. 0 |-> <<>>]
    OBVIOUS
  <2>2. DOMAIN f = 0 .. 0 /\ \A n \in 0 .. 0 : Follows(f, n)
    BY <2>1
  <2> QED
    BY <2>2
<1>4. ASSUME NEW k \in Nat, Built(k) PROVE Built(k + 1)
  <2>1. PICK f : DOMAIN f = 0 .. k /\ \A n \in 0 .. k : Follows(f, n)
    BY <1>4
  <2>2. PICK last : last = Kept(f[k], k + 1)
    OBVIOUS
  <2>3. PICK h : h = [n \in 0 .. (k + 1) |-> IF n = k + 1 THEN last ELSE f[n]]
    OBVIOUS
  <2>4. DOMAIN h = 0 .. (k + 1)
    BY <2>3
  <2>5. h[k + 1] = last /\ h[k] = f[k] /\ k + 1 # 0 /\ (k + 1) - 1 = k
    BY <2>3
  <2>6. Follows(h, k + 1)
    BY <2>2, <2>5, Zenon
  <2>7. ASSUME NEW n \in 0 .. k PROVE Follows(h, n)
    <3>1. h[n] = f[n] /\ (n # 0 => h[n - 1] = f[n - 1])
      BY <2>3
    <3> QED
      BY <2>1, <3>1
  <2>8. \A n \in 0 .. (k + 1) : n = k + 1 \/ n \in 0 .. k
    OBVIOUS
  <2> HIDE DEF Follows
  <2>9. \A n \in 0 .. (k + 1) : Follows(h, n)
    BY <2>6, <2>7, <2>8
  <2> QED
    BY <2>4, <2>9
<1>5. Built(l)
  <2> HIDE DEF Built
  <2>1. PICK K : K = {k \in Nat : Built(k)}
    OBVIOUS
  <2>2. 0 \in K /\ \A k \in Nat : k \in K => k + 1 \in K
    BY <1>3, <1>4, <2>1
  <2>3. \A k \in Nat : k \in K
    BY <2>2, SetInduction
  <2> QED
    BY <2>1, <2>3
<1>6. PICK f : DOMAIN f = 0 .. l /\ \A n \in 0 .. l : Follows(f, n)
  BY <1>5
<1>7. PICK e : e = [n \in 0 .. l |-> f[n]]
  OBVIOUS
<1>8. e = [n \in 0 .. L |-> IF n = 0 THEN <<>> ELSE Kept(e[n - 1], n)]
  <2>1. \A n \in 0 .. l : n # 0 => n - 1 \in 0 .. l
    OBVIOUS
  <2>2. \A n \in 0 .. l : e[n] = f[n]
    BY <1>7
  <2>3. \A n \in 0 .. l : e[n] = IF n = 0 THEN <<>> ELSE Kept(e[n - 1], n)
    BY <1>6, <2>1, <2>2
  <2> QED
    BY <1>2, <1>7, <2>3, SMTT(40)
<1>9. upTo = [n \in 0 .. L |-> IF n = 0 THEN <<>> ELSE Kept(upTo[n - 1], n)]
  BY <1>8, ZenonT(30) DEF Kept
<1>10. PICK h : h = upTo
  BY Zenon
<1>11. h = [n \in 0 .. L |-> IF n = 0 THEN <<>> ELSE Kept(h[n - 1], n)]
  BY <1>9, <1>10, Zenon
<1> HIDE DEF upTo
<1>12. DOMAIN h = 0 .. L /\ \A n \in 0 .. L : Follows(h, n)
  BY <1>11
<1>13. 0 \in 0 .. L /\ \A n \in 1 .. L : n \in 0 .. L /\ n # 0
  BY <1>2
<1>14. h[0] = <<>> /\ \A n \in 1 .. L : h[n] = Kept(h[n - 1], n)
  BY <1>12, <1>13
<1>15. KeepsTo(h, all, these)
  BY <1>12, <1>14 DEF KeepsTo, L, Kept
<1>16. Only(all, these) = h[Len(all)]
  BY <1>1, <1>10 DEF L
<1> QED
  BY <1>15, <1>16 DEF HowKept

(* What is kept of the first n: those that are in the set, in their order.   *)
Keeps(v, S, all, these, n) ==
  /\ v \in Seq(S)
  /\ \A k \in 1 .. Len(v) : v[k] \in these /\ \E j \in 1 .. n : v[k] = all[j]
  /\ \A j \in 1 .. n : all[j] \in these => \E k \in 1 .. Len(v) : v[k] = all[j]
  /\ \A a, b \in 1 .. Len(v) : a < b =>
       \E i, j \in 1 .. n : i < j /\ v[a] = all[i] /\ v[b] = all[j]

LEMMA OneMoreKept ==
  ASSUME NEW S, NEW all \in Seq(S), NEW these, NEW n \in Nat, n + 1 <= Len(all), NEW v,
         Keeps(v, S, all, these, n)
  PROVE  Keeps(IF all[n + 1] \in these THEN Append(v, all[n + 1]) ELSE v, S, all, these, n + 1)
<1>1. PICK e : e = all[n + 1]
  OBVIOUS
<1>2. e \in S
  BY <1>1
<1>3. v \in Seq(S) /\ Len(v) \in Nat
  BY DEF Keeps
<1>4. n + 1 \in 1 .. n + 1 /\ \A j \in 1 .. n : j \in 1 .. n + 1 /\ j < n + 1
  OBVIOUS
<1>5. \A j \in 1 .. n + 1 : j = n + 1 \/ j \in 1 .. n
  OBVIOUS
<1>6. CASE e \in these
  <2>1. PICK w : w = Append(v, e)
    OBVIOUS
  <2>2. PICK l \in Nat : l = Len(v)
    BY <1>3
  <2>3. w \in Seq(S) /\ Len(w) = l + 1 /\ w[l + 1] = e /\ \A k \in 1 .. l : w[k] = v[k]
    BY <1>2, <1>3, <2>1, <2>2, AppendProperties
  <2>4. /\ l + 1 \in 1 .. l + 1 /\ \A k \in 1 .. l : k \in 1 .. l + 1
        /\ \A k \in 1 .. l + 1 : k = l + 1 \/ k \in 1 .. l
    BY <2>2
  <2>5. ASSUME NEW k \in 1 .. l + 1
        PROVE  w[k] \in these /\ \E j \in 1 .. n + 1 : w[k] = all[j]
    <3>1. CASE k = l + 1
      BY <1>1, <1>4, <1>6, <2>3, <3>1
    <3>2. CASE k \in 1 .. l
      <4>1. v[k] \in these /\ \E j \in 1 .. n : v[k] = all[j]
        BY <2>2, <3>2 DEF Keeps
      <4> QED
        BY <1>4, <2>3, <3>2, <4>1
    <3> QED
      BY <2>4, <3>1, <3>2
  <2>6. ASSUME NEW j \in 1 .. n + 1, all[j] \in these
        PROVE  \E k \in 1 .. l + 1 : w[k] = all[j]
    <3>1. CASE j = n + 1
      BY <1>1, <2>3, <2>4, <3>1
    <3>2. CASE j \in 1 .. n
      <4>1. \E k \in 1 .. l : v[k] = all[j]
        BY <2>2, <2>6, <3>2 DEF Keeps
      <4> QED
        BY <2>3, <2>4, <4>1
    <3> QED
      BY <1>5, <3>1, <3>2
  <2>7. ASSUME NEW a \in 1 .. l + 1, NEW b \in 1 .. l + 1, a < b
        PROVE  \E i, j \in 1 .. n + 1 : i < j /\ w[a] = all[i] /\ w[b] = all[j]
    <3>1. a \in 1 .. l
      BY <2>2, <2>7
    <3>2. CASE b = l + 1
      <4>1. PICK i \in 1 .. n : v[a] = all[i]
        BY <2>2, <3>1 DEF Keeps
      <4>2. i \in 1 .. n + 1 /\ i < n + 1 /\ w[a] = all[i] /\ w[b] = all[n + 1]
        BY <1>1, <1>4, <2>3, <3>1, <3>2, <4>1
      <4> QED
        BY <1>4, <4>2
    <3>3. CASE b \in 1 .. l
      <4>1. PICK i \in 1 .. n, j \in 1 .. n : i < j /\ v[a] = all[i] /\ v[b] = all[j]
        BY <2>2, <2>7, <3>1, <3>3 DEF Keeps
      <4> QED
        BY <1>4, <2>3, <3>1, <3>3, <4>1
    <3> QED
      BY <2>4, <3>2, <3>3
  <2>8. Keeps(w, S, all, these, n + 1)
    BY <2>3, <2>5, <2>6, <2>7 DEF Keeps
  <2> QED
    BY <1>1, <1>6, <2>1, <2>8
<1>7. CASE e \notin these
  <2>1. \A k \in 1 .. Len(v) : v[k] \in these /\ \E j \in 1 .. n + 1 : v[k] = all[j]
    BY <1>4 DEF Keeps
  <2>2. \A j \in 1 .. n + 1 : all[j] \in these => \E k \in 1 .. Len(v) : v[k] = all[j]
    BY <1>1, <1>5, <1>7 DEF Keeps
  <2>3. \A a, b \in 1 .. Len(v) : a < b =>
          \E i, j \in 1 .. n + 1 : i < j /\ v[a] = all[i] /\ v[b] = all[j]
    BY <1>4 DEF Keeps
  <2>4. Keeps(v, S, all, these, n + 1)
    BY <1>3, <2>1, <2>2, <2>3 DEF Keeps
  <2> QED
    BY <1>1, <1>7, <2>4
<1> QED
  BY <1>6, <1>7

LEMMA OnlyKeeps ==
  ASSUME NEW S, NEW all \in Seq(S), NEW these
  PROVE  Keeps(Only(all, these), S, all, these, Len(all))
<1>1. PICK f : KeepsTo(f, all, these) /\ Only(all, these) = f[Len(all)]
  BY KeptBySteps DEF HowKept
<1>2. PICK l \in Nat : l = Len(all)
  OBVIOUS
<1>3. PICK K : K = {n \in Nat : n <= l => Keeps(f[n], S, all, these, n)}
  OBVIOUS
<1>4. 0 \in K
  <2>1. <<>> \in Seq(S) /\ Len(<<>>) = 0
    BY EmptySeq
  <2>2. Keeps(<<>>, S, all, these, 0)
    BY <2>1 DEF Keeps
  <2> QED
    BY <1>1, <1>3, <2>2 DEF KeepsTo
<1>5. ASSUME NEW n \in Nat, n \in K PROVE n + 1 \in K
  <2> SUFFICES ASSUME n + 1 <= l PROVE Keeps(f[n + 1], S, all, these, n + 1)
    BY <1>3
  <2>1. Keeps(f[n], S, all, these, n)
    BY <1>3, <1>5
  <2>2. n + 1 \in 1 .. Len(all) /\ (n + 1) - 1 = n
    BY <1>2
  <2>3. f[n + 1] = IF all[n + 1] \in these THEN Append(f[n], all[n + 1]) ELSE f[n]
    BY <1>1, <2>2 DEF KeepsTo
  <2>4. Keeps(IF all[n + 1] \in these THEN Append(f[n], all[n + 1]) ELSE f[n], S, all, these, n + 1)
    BY <1>2, <2>1, OneMoreKept
  <2> QED
    BY <2>3, <2>4, Zenon
<1>6. \A n \in Nat : n \in K
  BY <1>4, <1>5, SetInduction
<1>7. Keeps(f[l], S, all, these, l)
  BY <1>3, <1>6
<1> QED
  BY <1>1, <1>2, <1>7

-----------------------------------------------------------------------------
(* lower_bound: from a place before which all are lower, over a stretch      *)
(* behind which none is, it comes to the border between them.                *)
Searches(f, row) ==
  /\ \A first \in Nat : f[0][first] = first
  /\ \A len \in 1 .. Len(observers), first \in Nat :
       f[len][first] =
         IF observers[first + len \div 2 + 1].row < row
         THEN f[len - len \div 2 - 1][first + len \div 2 + 1]
         ELSE f[len \div 2][first]

HowSearched(row) ==
  \E f : Searches(f, row) /\ FirstNotBefore(row) = f[Len(observers)][0] + 1

LEMMA Halves ==
  ASSUME NEW len \in Nat, len # 0
  PROVE  /\ len \div 2 \in Nat /\ len \div 2 < len
         /\ len - len \div 2 - 1 \in Nat /\ len - len \div 2 - 1 < len
OBVIOUS

LEMMA SearchedBySteps ==
  ASSUME Len(observers) \in Nat, NEW row
  PROVE  HowSearched(row)
<1> DEFINE L == Len(observers)
           Half(f, len, first) ==
             IF observers[first + len \div 2 + 1].row < row
             THEN f[len - len \div 2 - 1][first + len \div 2 + 1]
             ELSE f[len \div 2][first]
           Search(f, len) == [first \in Nat |-> IF len = 0 THEN first ELSE Half(f, len, first)]
           from == CHOOSE f : f = [len \in 0 .. L |-> Search(f, len)]
           Built(k) == \E f : f = [len \in 0 .. k |-> Search(f, len)]
<1>1. FirstNotBefore(row) = from[L][0] + 1
  BY DEF FirstNotBefore
<1>2. PICK l \in Nat : l = L
  OBVIOUS
<1> HIDE DEF L
<1>15. ASSUME NEW f, NEW h, NEW k \in Nat, \A len \in 0 .. k : h[len] = f[len],
              NEW len \in 0 .. (k + 1)
       PROVE  Search(h, len) = Search(f, len)
  <2> SUFFICES ASSUME NEW first \in Nat, len # 0 PROVE Half(h, len, first) = Half(f, len, first)
    OBVIOUS
  <2>1. len \div 2 \in 0 .. k /\ len - len \div 2 - 1 \in 0 .. k
    BY Halves
  <2>2. h[len - len \div 2 - 1] = f[len - len \div 2 - 1] /\ h[len \div 2] = f[len \div 2]
    BY <1>15, <2>1
  <2> QED
    BY <2>2, Zenon
<1> HIDE DEF Search
<1>3. Built(0)
  <2>1. PICK none : none = [len \in {} |-> 0]
    OBVIOUS
  <2>2. PICK f : f = [len \in 0 .. 0 |-> Search(none, len)]
    OBVIOUS
  <2>3. \A len \in 0 .. 0 : Search(f, len) = Search(none, len)
    <3>1. \A g : Search(g, 0) = [first \in Nat |-> first]
      BY DEF Search
    <3>2. \A len \in 0 .. 0 : len = 0
      OBVIOUS
    <3> QED
      BY <3>1, <3>2
  <2>4. f = [len \in 0 .. 0 |-> Search(f, len)]
    BY <2>2, <2>3
  <2> QED
    BY <2>4
<1>4. ASSUME NEW k \in Nat, Built(k) PROVE Built(k + 1)
  <2>1. PICK f : f = [len \in 0 .. k |-> Search(f, len)]
    BY <1>4
  <2>2. PICK h : h = [len \in 0 .. (k + 1) |-> Search(f, len)]
    OBVIOUS
  <2>3. \A len \in 0 .. k : h[len] = f[len]
    <3>1. \A len \in 0 .. k : f[len] = Search(f, len)
      BY <2>1
    <3>2. \A len \in 0 .. k : h[len] = Search(f, len)
      BY <2>2
    <3> QED
      BY <3>1, <3>2
  <2>4. \A len \in 0 .. (k + 1) : Search(h, len) = Search(f, len)
    BY <1>15, <2>3
  <2>5. h = [len \in 0 .. (k + 1) |-> Search(h, len)]
    BY <2>2, <2>4
  <2> QED
    BY <2>5
<1>5. Built(l)
  <2> HIDE DEF Built
  <2>1. PICK K : K = {k \in Nat : Built(k)}
    OBVIOUS
  <2>2. 0 \in K /\ \A k \in Nat : k \in K => k + 1 \in K
    BY <1>3, <1>4, <2>1
  <2>3. \A k \in Nat : k \in K
    BY <2>2, SetInduction
  <2> QED
    BY <2>1, <2>3
<1>6. from = [len \in 0 .. L |-> Search(from, len)]
  <2>1. PICK f : f = [len \in 0 .. L |-> Search(f, len)]
    BY <1>2, <1>5
  <2>2. \E h : h = [len \in 0 .. L |-> Search(h, len)]
    BY <2>1
  <2> QED
    BY <2>2
<1>7. PICK g : g = from
  OBVIOUS
<1>8. g = [len \in 0 .. L |-> Search(g, len)]
  BY <1>6, <1>7
<1> HIDE DEF from
<1>9. \A len \in 0 .. L : g[len] = Search(g, len)
  BY <1>8
<1>10. \A len \in 0 .. L, first \in Nat : g[len][first] = IF len = 0 THEN first ELSE Half(g, len, first)
  <2> HIDE DEF Half
  <2> SUFFICES ASSUME NEW len \in 0 .. L, NEW first \in Nat
               PROVE  g[len][first] = IF len = 0 THEN first ELSE Half(g, len, first)
    OBVIOUS
  <2>1. g[len] = [x \in Nat |-> IF len = 0 THEN x ELSE Half(g, len, x)]
    BY <1>9 DEF Search
  <2> QED
    BY <2>1
<1> HIDE DEF Half
<1>11. 0 \in 0 .. L /\ \A len \in 1 .. L : len \in 0 .. L /\ len # 0
  BY <1>2
<1>12. /\ \A first \in Nat : g[0][first] = first
       /\ \A len \in 1 .. L, first \in Nat : g[len][first] = Half(g, len, first)
  BY <1>10, <1>11
<1>13. Searches(g, row)
  BY <1>12 DEF Searches, Half, L
<1>14. FirstNotBefore(row) = g[Len(observers)][0] + 1
  BY <1>1, <1>7 DEF L
<1> QED
  BY <1>13, <1>14 DEF HowSearched

-----------------------------------------------------------------------------
(* The inductive invariant. *)

ObserverStates == [object : Objects, row : Nat]
Columns == Fields \union {List}

ObservationTypes ==
  /\ rollingBack \in BOOLEAN
  /\ rows \in Seq(Objects \union {New})
  /\ observers \in Seq(ObserverStates)
  /\ marked \in [Objects -> SUBSET Columns]
  /\ changed \in [Objects -> SUBSET Columns]
  /\ size \in [Objects -> Nat]
  /\ activeLinkList \in [object : Objects \union {New}, dangling : BOOLEAN]
  /\ selected \in Objects \union {New, NoList}
  /\ erased \in SUBSET Objects /\ moved \in SUBSET Objects
  /\ lost \in SUBSET (Objects \union {New})

(* Every object has one row until it is erased.                              *)
OneRowEach ==
  /\ \A i, j \in 1 .. Len(rows) : rows[i] = rows[j] /\ rows[i] # New => i = j
  /\ \A i \in 1 .. Len(rows) : rows[i] \notin erased

(* While observers keep their rows they are sorted by row.                   *)
InOrder ==
  \A a, b \in 1 .. Len(observers) : a < b => observers[a].row < observers[b].row

Sorted == rollingBack \/ Observed \intersect moved = {} => InOrder

(* The row of an observer holds its object, as long as that did not move;    *)
(* afterwards no object that stayed where it was.                            *)
InPlace ==
  \A k \in 1 .. Len(observers) :
    LET place == observers[k].row + 1 IN
    IF observers[k].object \in moved
    THEN place \in 1 .. Len(rows) => rows[place] \in moved \union {New}
    ELSE place \in 1 .. Len(rows) /\ rows[place] = observers[k].object

(* A rollback erases last rows only, and their observers with them.          *)
RowsInside ==
  rollingBack => \A k \in 1 .. Len(observers) : observers[k].row + 1 \in 1 .. Len(rows)

OnlyErased == \A o \in invalidated \ moved : o \in erased

(* activeLinkList is for the list the log has selected, if that is observed  *)
(* and its object did not move.                                              *)
ListFollowed ==
  /\ selected \in Objects \ moved =>
       activeLinkList.object = IF selected \in ObjectsOf(observers) THEN selected ELSE New
  /\ activeLinkList.object \in ObjectsOf(observers) \ moved /\ selected # NoList =>
       selected = activeLinkList.object

(* It points into a vector that has the column of the list, and when it does *)
(* no more a later column was changed.                                       *)
LaterChanged(o) == \E column \in changed[o] : column > List

PointsInto ==
  /\ activeLinkList.object # New /\ ~activeLinkList.dangling => size[activeLinkList.object] > List
  /\ selected \in Objects \ moved /\ activeLinkList.dangling => LaterChanged(selected)

(* What an observer of an object that stayed is told.                        *)
FieldsOf(o) ==
  /\ marked[o] \intersect Fields \subseteq changed[o]
  /\ rollingBack \/ Observed \intersect moved = {} => changed[o] \intersect Fields \subseteq marked[o]

ListOf(o) ==
  /\ List \in changed[o] => List \in marked[o] \/ o \in lost
  /\ List \in marked[o] => List \in changed[o] \/ lost # {}

Told == \A o \in ObjectsOf(observers) \ moved : FieldsOf(o) /\ ListOf(o)

Placed == OneRowEach /\ Sorted /\ InPlace /\ RowsInside /\ OnlyErased

Pointed == ListFollowed /\ PointsInto /\ LostOnlyIfGrown

ObservationInd == ObservationTypes /\ Placed /\ Pointed /\ Told

(* So the search comes to the one observer of a row. *)
Borders(f, row, t, len) ==
  \A first \in Nat :
    first + len <= Len(observers) /\ first <= t /\ t <= first + len => f[len][first] = t

LEMMA FoundBySearch ==
  ASSUME ObservationTypes, InOrder, NEW k \in 1 .. Len(observers)
  PROVE  FirstNotBefore(observers[k].row) = k
<1>1. PICK l \in Nat : l = Len(observers)
  BY DEF ObservationTypes
<1>2. \A j \in 1 .. l : observers[j].row \in Nat
  <2>1. \A j \in 1 .. l : observers[j] \in ObserverStates
    BY <1>1, ElementOfSeq DEF ObservationTypes
  <2> QED
    BY <2>1 DEF ObserverStates
<1>3. PICK row \in Nat : row = observers[k].row
  BY <1>1, <1>2
<1>4. PICK f : Searches(f, row) /\ FirstNotBefore(row) = f[Len(observers)][0] + 1
  BY <1>1, SearchedBySteps DEF HowSearched
<1>5. PICK t \in Nat : t = k - 1
  BY <1>1
<1>6. \A j \in 1 .. l : observers[j].row < row <=> j < k
  <2> SUFFICES ASSUME NEW j \in 1 .. l PROVE observers[j].row < row <=> j < k
    OBVIOUS
  <2>1. j < k => observers[j].row < row
    BY <1>1, <1>3 DEF InOrder
  <2>2. k < j => row < observers[j].row
    BY <1>1, <1>3 DEF InOrder
  <2>3. j < k \/ j = k \/ k < j
    BY <1>1
  <2>4. observers[j].row \in Nat
    BY <1>2
  <2> QED
    BY <1>1, <1>3, <2>1, <2>2, <2>3, <2>4
<1>7. PICK K : K = {n \in Nat : \A len \in 0 .. n : len <= l => Borders(f, row, t, len)}
  OBVIOUS
<1>8. 0 \in K
  <2>1. Borders(f, row, t, 0)
    BY <1>4 DEF Borders, Searches
  <2> QED
    BY <1>7, <2>1
<1>9. ASSUME NEW n \in Nat, n \in K PROVE n + 1 \in K
  <2>1. \A len \in 0 .. n : len <= l => Borders(f, row, t, len)
    BY <1>7, <1>9
  <2>2. SUFFICES ASSUME n + 1 <= l PROVE Borders(f, row, t, n + 1)
    <3>1. \A len \in 0 .. n + 1 : len \in 0 .. n \/ len = n + 1
      OBVIOUS
    <3> QED
      BY <1>7, <2>1, <3>1
  <2>3. SUFFICES ASSUME NEW first \in Nat, first + (n + 1) <= l, first <= t, t <= first + (n + 1)
                 PROVE  f[n + 1][first] = t
    BY <1>1 DEF Borders
  <2>4. PICK len \in Nat : len = n + 1
    OBVIOUS
  <2>5. PICK half \in Nat : half = len \div 2
    BY <2>4, Halves
  <2>6. PICK rest \in Nat : rest = len - half - 1
    BY <2>4, <2>5, Halves
  <2>7. half \in 0 .. n /\ rest \in 0 .. n /\ half + rest + 1 = len
    BY <2>4, <2>5, <2>6, Halves
  <2>8. PICK middle \in Nat : middle = first + half + 1
    BY <2>5
  <2>9. middle \in 1 .. l
    BY <1>1, <2>3, <2>4, <2>7, <2>8
  <2>10. f[len][first] = IF observers[middle].row < row THEN f[rest][middle] ELSE f[half][first]
    <3>1. len \in 1 .. Len(observers)
      BY <1>1, <2>2, <2>4
    <3>2. f[len][first] =
            IF observers[first + len \div 2 + 1].row < row
            THEN f[len - len \div 2 - 1][first + len \div 2 + 1]
            ELSE f[len \div 2][first]
      BY <1>4, <3>1 DEF Searches
    <3> QED
      BY <2>5, <2>6, <2>8, <3>2
  <2>11. CASE observers[middle].row < row
    <3>1. middle <= t /\ t <= middle + rest /\ middle + rest <= l
      BY <1>1, <1>5, <1>6, <2>3, <2>4, <2>7, <2>8, <2>9, <2>11
    <3>2. Borders(f, row, t, rest)
      BY <2>1, <2>2, <2>7
    <3>3. f[rest][middle] = t
      BY <1>1, <3>1, <3>2 DEF Borders
    <3> QED
      BY <2>4, <2>10, <2>11, <3>3
  <2>12. CASE ~(observers[middle].row < row)
    <3>1. t <= first + half /\ first + half <= l
      BY <1>1, <1>5, <1>6, <2>3, <2>4, <2>7, <2>8, <2>9, <2>12
    <3>2. Borders(f, row, t, half)
      BY <2>1, <2>2, <2>7
    <3>3. f[half][first] = t
      BY <1>1, <2>3, <3>1, <3>2 DEF Borders
    <3> QED
      BY <2>4, <2>10, <2>12, <3>3
  <2> QED
    BY <2>11, <2>12
<1>10. \A n \in Nat : n \in K
  BY <1>8, <1>9, SetInduction
<1>11. Borders(f, row, t, l)
  BY <1>7, <1>10
<1>12. f[Len(observers)][0] = t
  BY <1>1, <1>5, <1>11 DEF Borders
<1> QED
  BY <1>3, <1>4, <1>5, <1>12

(* What holds of each observer, and which objects are observed. *)
LEMMA EachObserver ==
  ASSUME ObservationTypes, NEW k \in 1 .. Len(observers)
  PROVE  /\ observers[k] \in ObserverStates
         /\ observers[k].object \in Objects /\ observers[k].row \in Nat
         /\ observers[k].object # New
<1>1. observers[k] \in ObserverStates
  BY ElementOfSeq DEF ObservationTypes
<1> QED
  BY <1>1, RealmObservationAssumption DEF ObserverStates

LEMMA WhoIsObserved ==
  ASSUME ObservationTypes
  PROVE  ObjectsOf(observers) = {observers[k].object : k \in 1 .. Len(observers)}
<1>1. DOMAIN observers = 1 .. Len(observers)
  BY LenProperties DEF ObservationTypes
<1> QED
  BY <1>1 DEF ObjectsOf

(* An observer whose object stayed, and one whose row holds an object that   *)
(* stayed, is in the row of its object.                                      *)
LEMMA InItsRow ==
  ASSUME ObservationTypes, OneRowEach, InPlace,
         NEW k \in 1 .. Len(observers), NEW i \in Nat, i < Len(rows),
         observers[k].object \notin moved \/ ObjectAt(i) \in Objects \ moved
  PROVE  observers[k].object = ObjectAt(i) <=> observers[k].row = i
<1>1. PICK l \in Nat : l = Len(rows)
  BY LenProperties DEF ObservationTypes
<1>2. observers[k].object \in Objects /\ observers[k].row \in Nat /\ observers[k].object # New
  BY EachObserver
<1>3. PICK r \in Nat : r = observers[k].row
  BY <1>2
<1>4. IF observers[k].object \in moved
      THEN r + 1 \in 1 .. l => rows[r + 1] \in moved \union {New}
      ELSE r + 1 \in 1 .. l /\ rows[r + 1] = observers[k].object
  BY <1>1, <1>3 DEF InPlace
<1>5. i + 1 \in 1 .. l /\ ObjectAt(i) = rows[i + 1]
  BY <1>1 DEF ObjectAt
<1>6. New \notin Objects
  BY RealmObservationAssumption
<1>7. CASE observers[k].object \in moved
  <2>1. rows[i + 1] \in Objects \ moved
    BY <1>5, <1>7
  <2>2. r # i
    BY <1>4, <1>5, <1>6, <1>7, <2>1
  <2> QED
    BY <1>3, <1>5, <1>7, <2>1, <2>2
<1>8. CASE observers[k].object \notin moved
  <2>1. rows[r + 1] = rows[i + 1] /\ rows[r + 1] # New => r + 1 = i + 1
    BY <1>1, <1>4, <1>5, <1>8 DEF OneRowEach
  <2> QED
    BY <1>2, <1>3, <1>4, <1>5, <1>8, <2>1, SMTT(30)
<1> QED
  BY <1>7, <1>8

(* Whom MarkDirty finds: an observer of the row, and the only one if they    *)
(* are sorted.                                                               *)
LEMMA DirtyIsInTheRow ==
  ASSUME ObservationTypes, NEW i, NEW object \in DirtyAt(i)
  PROVE  \E k \in 1 .. Len(observers) : observers[k].row = i /\ object = observers[k].object
<1>1. DOMAIN observers = 1 .. Len(observers)
  BY LenProperties DEF ObservationTypes
<1> QED
  BY <1>1 DEF DirtyAt

LEMMA DirtyIsFound ==
  ASSUME ObservationTypes, InOrder, NEW k \in 1 .. Len(observers)
  PROVE  DirtyAt(observers[k].row) = {observers[k].object}
<1>1. DOMAIN observers = 1 .. Len(observers)
  BY LenProperties DEF ObservationTypes
<1>2. FirstNotBefore(observers[k].row) = k
  BY FoundBySearch
<1>3. {j \in DOMAIN observers : j = FirstNotBefore(observers[k].row)
                                  /\ observers[j].row = observers[k].row} = {k}
  BY <1>1, <1>2
<1> QED
  BY <1>3 DEF DirtyAt

-----------------------------------------------------------------------------
(* The steps, one by one. *)

LEMMA ChangesTyped ==
  ASSUME changed \in [Objects -> SUBSET Columns], NEW i, NEW column \in Columns, Changes(i, column)
  PROVE  /\ changed' \in [Objects -> SUBSET Columns]
         /\ \A o \in Objects : changed'[o] = IF o = ObjectAt(i) THEN changed[o] \union {column}
                                             ELSE changed[o]
<1>1. New \notin Objects
  BY RealmObservationAssumption
<1>2. CASE ObjectAt(i) = New
  BY <1>1, <1>2 DEF Changes
<1>3. CASE ObjectAt(i) # New
  <2>1. changed' = [changed EXCEPT ![ObjectAt(i)] = @ \union {column}]
    BY <1>3 DEF Changes
  <2> QED
    BY <2>1
<1> QED
  BY <1>2, <1>3

(* Columns and sizes are numbers. *)
LEMMA GrownPasses ==
  ASSUME size \in [Objects -> Nat], NEW object \in Objects, NEW column \in Columns
  PROVE  /\ Grown(object, column) \in Nat
         /\ Grown(object, column) > column /\ Grown(object, column) >= size[object]
         /\ Grown(object, column) # size[object] => size[object] <= column
<1>1. PICK n \in Nat : n = size[object]
  OBVIOUS
<1>2. column \in Nat
  BY DEF Columns, Fields, List
<1> QED
  BY <1>1, <1>2 DEF Grown

(* A field that is set, in the terms of each part of the invariant.          *)
LEMMA SetFieldTypes ==
  ASSUME ObservationInd, NEW i \in Nat, NEW column \in Fields, SetField(i, column)
  PROVE  /\ i < Len(rows) /\ column \in Columns
         /\ UNCHANGED <<rollingBack, rows, observers, invalidated, selected, erased, moved, lost>>
         /\ ObservationTypes'
         /\ \A o \in Objects : changed'[o] = IF o = ObjectAt(i) THEN changed[o] \union {column}
                                             ELSE changed[o]
         /\ \/ DirtyAt(i) = {} /\ UNCHANGED handler
            \/ \E object \in DirtyAt(i) \intersect ObjectsOf(observers) :
                 /\ GetChange(object, column)
                 /\ marked' = [marked EXCEPT ![object] = @ \union {column}]
<1>1. /\ i < Len(rows)
      /\ Changes(i, column)
      /\ MarkDirty(i, column)
      /\ UNCHANGED <<rollingBack, rows, selected, erased, moved, lost>>
  BY DEF SetField, Step, RowCount
<1>2. column \in Columns
  BY DEF Columns
<1>3. ObservationTypes
  BY DEF ObservationInd
<1>4. /\ changed' \in [Objects -> SUBSET Columns]
      /\ \A o \in Objects : changed'[o] = IF o = ObjectAt(i) THEN changed[o] \union {column}
                                          ELSE changed[o]
  BY <1>1, <1>2, <1>3, ChangesTyped DEF ObservationTypes
<1>5. CASE DirtyAt(i) = {} /\ UNCHANGED handler
  <2>1. UNCHANGED <<observers, marked, size, activeLinkList, invalidated>>
    BY <1>5 DEF handler
  <2> QED
    BY <1>1, <1>2, <1>3, <1>4, <1>5, <2>1 DEF ObservationTypes
<1>6. ASSUME NEW object \in DirtyAt(i), GetChange(object, column),
             marked' = [marked EXCEPT ![object] = @ \union {column}],
             UNCHANGED <<observers, invalidated>>
      PROVE  object \in ObjectsOf(observers) /\ ObservationTypes'
  <2>1. object \in ObjectsOf(observers) /\ object \in Objects
    <3>1. PICK k \in 1 .. Len(observers) : object = observers[k].object
      BY <1>3, <1>6, DirtyIsInTheRow
    <3> QED
      BY <1>3, <3>1, WhoIsObserved, EachObserver
  <2>2. marked' \in [Objects -> SUBSET Columns]
    BY <1>2, <1>3, <1>6 DEF ObservationTypes
  <2>3. size' \in [Objects -> Nat]
    <3>1. Grown(object, column) \in Nat
      BY <1>2, <1>3, <2>1, GrownPasses DEF ObservationTypes
    <3> QED
      BY <1>3, <1>6, <3>1 DEF ObservationTypes, GetChange
  <2>4. activeLinkList' \in [object : Objects \union {New}, dangling : BOOLEAN]
    <3>1. activeLinkList' = activeLinkList \/ activeLinkList' = [activeLinkList EXCEPT !.dangling = TRUE]
      BY <1>6 DEF GetChange
    <3> QED
      BY <1>3, <3>1 DEF ObservationTypes
  <2> QED
    BY <1>1, <1>3, <1>4, <1>6, <2>1, <2>2, <2>3, <2>4 DEF ObservationTypes
<1>7. \/ DirtyAt(i) = {} /\ UNCHANGED handler
      \/ \E object \in DirtyAt(i) :
           /\ GetChange(object, column)
           /\ marked' = [marked EXCEPT ![object] = @ \union {column}]
           /\ UNCHANGED <<observers, invalidated>>
  BY <1>1 DEF MarkDirty
<1> QED
  <2>1. CASE DirtyAt(i) = {} /\ UNCHANGED handler
    <3>1. UNCHANGED <<observers, invalidated>>
      BY <2>1 DEF handler
    <3> QED
      BY <1>1, <1>2, <1>4, <1>5, <2>1, <3>1
  <2>2. CASE \E object \in DirtyAt(i) :
           /\ GetChange(object, column)
           /\ marked' = [marked EXCEPT ![object] = @ \union {column}]
           /\ UNCHANGED <<observers, invalidated>>
    BY <1>1, <1>2, <1>4, <1>6, <2>2
  <2> QED
    BY <1>7, <2>1, <2>2

LEMMA SetFieldStep ==
  ASSUME ObservationInd, NEW i \in Nat, NEW column \in Fields, SetField(i, column)
  PROVE  ObservationInd'
<1>1. /\ i < Len(rows) /\ column \in Columns
      /\ UNCHANGED <<rollingBack, rows, observers, invalidated, selected, erased, moved, lost>>
      /\ ObservationTypes'
  BY SetFieldTypes
<1>2. \A o \in Objects : changed'[o] = IF o = ObjectAt(i) THEN changed[o] \union {column}
                                        ELSE changed[o]
  BY SetFieldTypes
<1>3. \/ DirtyAt(i) = {} /\ UNCHANGED handler
      \/ \E object \in DirtyAt(i) \intersect ObjectsOf(observers) :
           /\ GetChange(object, column)
           /\ marked' = [marked EXCEPT ![object] = @ \union {column}]
  BY SetFieldTypes
<1>4. ObservationTypes /\ Placed /\ Pointed /\ Told
  BY DEF ObservationInd
<1>5. ObjectsOf(observers)' = ObjectsOf(observers) /\ Observed' = Observed
  BY <1>1 DEF ObjectsOf, Observed
<1>6. \A o \in ObjectsOf(observers) : o \in Objects /\ o # New
  BY <1>4, WhoIsObserved, EachObserver
<1>7. Placed'
  BY <1>1, <1>4, <1>5 DEF Placed, OneRowEach, Sorted, InOrder, InPlace, RowsInside, OnlyErased
<1>8. \A o \in DirtyAt(i) \ moved : o = ObjectAt(i)
  <2> TAKE o \in DirtyAt(i) \ moved
  <2>1. PICK k \in 1 .. Len(observers) : observers[k].row = i /\ o = observers[k].object
    BY <1>4, DirtyIsInTheRow
  <2> QED
    BY <1>1, <1>4, <2>1, InItsRow DEF Placed
<1>9. \A o \in Objects : LaterChanged(o) => LaterChanged(o)'
  BY <1>2 DEF LaterChanged
<1>10. Told'
  <2> SUFFICES ASSUME NEW o \in ObjectsOf(observers), o \notin moved PROVE FieldsOf(o)' /\ ListOf(o)'
    BY <1>1, <1>5 DEF Told
  <2>1. FieldsOf(o) /\ ListOf(o) /\ o \in Objects
    BY <1>4, <1>6 DEF Told
  <2>2. List # column
    BY DEF Fields, List
  <2>3. marked \in [Objects -> SUBSET Columns]
    BY <1>4 DEF ObservationTypes
  <2>4. \/ marked'[o] = marked[o]
        \/ marked'[o] = marked[o] \union {column} /\ o = ObjectAt(i)
    <3>1. CASE UNCHANGED handler
      BY <3>1 DEF handler
    <3>2. ASSUME NEW object \in DirtyAt(i) \intersect ObjectsOf(observers),
                 marked' = [marked EXCEPT ![object] = @ \union {column}]
          PROVE  \/ marked'[o] = marked[o]
                 \/ marked'[o] = marked[o] \union {column} /\ o = ObjectAt(i)
      <4>1. CASE o = object
        BY <1>8, <2>1, <2>3, <3>2, <4>1
      <4>2. CASE o # object
        BY <2>1, <2>3, <3>2, <4>2
      <4> QED
        BY <4>1, <4>2
    <3> QED
      BY <1>3, <3>1, <3>2
  <2>5. ListOf(o)'
    <3>1. List \in changed'[o] <=> List \in changed[o]
      BY <1>2, <2>1, <2>2
    <3>2. List \in marked'[o] <=> List \in marked[o]
      BY <2>2, <2>4
    <3> QED
      BY <1>1, <2>1, <3>1, <3>2 DEF ListOf
  <2>6. marked'[o] \intersect Fields \subseteq changed'[o]
    BY <1>2, <2>1, <2>4 DEF FieldsOf
  <2>7. ASSUME rollingBack \/ Observed \intersect moved = {}
        PROVE  changed'[o] \intersect Fields \subseteq marked'[o]
    <3>1. changed[o] \intersect Fields \subseteq marked[o]
      BY <2>1, <2>7 DEF FieldsOf
    <3>2. CASE o # ObjectAt(i)
      BY <1>2, <2>1, <2>4, <3>1, <3>2
    <3>3. CASE o = ObjectAt(i)
      <4>1. PICK k \in 1 .. Len(observers) : o = observers[k].object
        BY <1>4, WhoIsObserved
      <4>2. observers[k].row = i
        BY <1>1, <1>4, <3>3, <4>1, InItsRow DEF Placed
      <4>3. DirtyAt(i) = {o}
        BY <1>4, <2>7, <4>1, <4>2, DirtyIsFound DEF Placed, Sorted
      <4>4. marked' = [marked EXCEPT ![o] = @ \union {column}]
        BY <1>3, <4>3
      <4>5. marked'[o] = marked[o] \union {column}
        BY <2>1, <2>3, <4>4
      <4> QED
        BY <1>2, <2>1, <3>1, <4>5
    <3> QED
      BY <3>2, <3>3
  <2> QED
    BY <1>1, <1>5, <2>5, <2>6, <2>7 DEF FieldsOf
<1>11. Pointed'
  <2>1. ListFollowed /\ PointsInto /\ LostOnlyIfGrown
    BY <1>4 DEF Pointed
  <2>2. LostOnlyIfGrown'
    BY <1>1, <1>4, <1>9, <2>1 DEF LostOnlyIfGrown, LaterChanged, ObservationTypes
  <2>3. CASE UNCHANGED handler
    <3>1. UNCHANGED <<activeLinkList, size>>
      BY <2>3 DEF handler
    <3> QED
      BY <1>1, <1>5, <1>9, <2>1, <2>2, <3>1 DEF Pointed, ListFollowed, PointsInto
  <2>4. ASSUME NEW object \in DirtyAt(i) \intersect ObjectsOf(observers), GetChange(object, column)
        PROVE  ListFollowed' /\ PointsInto'
    <3>1. size' = [size EXCEPT ![object] = Grown(object, column)]
      BY <2>4 DEF GetChange
    <3>2. activeLinkList' = IF activeLinkList.object = object /\ Grown(object, column) # size[object]
                            THEN [activeLinkList EXCEPT !.dangling = TRUE] ELSE activeLinkList
      BY <2>4 DEF GetChange
    <3>3. activeLinkList \in [object : Objects \union {New}, dangling : BOOLEAN]
          /\ size \in [Objects -> Nat]
      BY <1>4 DEF ObservationTypes
    <3>4. activeLinkList'.object = activeLinkList.object
      BY <3>2, <3>3
    <3>5. ListFollowed'
      BY <1>1, <1>5, <2>1, <3>4 DEF ListFollowed
    <3>6. object \in Objects /\ object # New
      BY <1>6
    <3>7. /\ Grown(object, column) \in Nat /\ Grown(object, column) >= size[object]
          /\ Grown(object, column) # size[object] => size[object] <= column
      BY <1>1, <3>3, <3>6, GrownPasses
    <3>8. ASSUME activeLinkList'.object # New, ~activeLinkList'.dangling
          PROVE  size'[activeLinkList'.object] > List
      <4>1. activeLinkList.object # New /\ ~activeLinkList.dangling
        BY <3>2, <3>3, <3>4, <3>8
      <4>2. PICK p \in Objects : p = activeLinkList.object
        BY <3>3, <4>1
      <4>3. size[p] > List
        BY <2>1, <4>1, <4>2 DEF PointsInto
      <4>4. size'[p] = IF p = object THEN Grown(object, column) ELSE size[p]
        BY <3>1, <3>3
      <4>5. size[p] \in Nat /\ List \in Nat
        BY <3>3 DEF List
      <4>6. size'[p] > List
        BY <3>7, <4>3, <4>4, <4>5
      <4> QED
        BY <3>4, <4>2, <4>6
    <3>9. ASSUME selected \in Objects \ moved, activeLinkList'.dangling
          PROVE  LaterChanged(selected)'
      <4>1. CASE activeLinkList.dangling
        <5>1. LaterChanged(selected)
          BY <2>1, <3>9, <4>1 DEF PointsInto
        <5>2. LaterChanged(selected)'
          BY <1>1, <1>2, <3>9, <5>1 DEF LaterChanged
        <5> QED
          BY <5>2
      <4>2. CASE ~activeLinkList.dangling
        <5>1. activeLinkList.object = object /\ Grown(object, column) # size[object]
          BY <3>2, <3>9, <4>2
        <5>2. selected = object
          BY <2>1, <3>6, <3>9, <5>1 DEF ListFollowed
        <5>3. object = ObjectAt(i)
          BY <1>8, <3>9, <5>2
        <5>4. size[object] > List
          BY <2>1, <3>6, <4>2, <5>1 DEF PointsInto
        <5>5. column > List
          <6>1. column \in Nat /\ List \in Nat /\ size[object] \in Nat
            BY <1>1, <3>3, <3>6 DEF Columns, Fields, List
          <6> QED
            BY <3>7, <5>1, <5>4, <6>1
        <5>6. column \in changed'[selected']
          BY <1>1, <1>2, <3>6, <5>2, <5>3
        <5> QED
          BY <5>5, <5>6 DEF LaterChanged
      <4> QED
        BY <4>1, <4>2
    <3> QED
      BY <1>1, <3>5, <3>8, <3>9 DEF PointsInto
  <2> QED
    BY <1>3, <2>2, <2>3, <2>4 DEF Pointed
<1> QED
  BY <1>1, <1>7, <1>10, <1>11 DEF ObservationInd

(* FirstForRow finds the observer of a row, if it has one. *)
LEMMA FoundForRow ==
  ASSUME ObservationTypes, NEW row
  PROVE  \/ /\ FirstForRow(row) = 0
            /\ \A k \in 1 .. Len(observers) : observers[k].row # row
         \/ /\ FirstForRow(row) \in 1 .. Len(observers)
            /\ observers[FirstForRow(row)].row = row
<1> DEFINE Matching == {k \in 1 .. Len(observers) : observers[k].row = row}
<1>1. FirstForRow(row) = IF Matching # {} THEN Min(Matching) ELSE 0
  BY DEF FirstForRow, SelectInSeq
<1>2. CASE Matching = {}
  BY <1>1, <1>2
<1>3. CASE Matching # {}
  <2>1. Matching \subseteq Nat
    BY LenProperties DEF ObservationTypes
  <2>2. Min(Matching) \in Matching
    <3> HIDE DEF Matching
    <3> QED
      BY <1>3, <2>1, Smallest
  <2>3. FirstForRow(row) \in Matching
    <3> HIDE DEF Matching
    <3> QED
      BY <1>1, <1>3, <2>2
  <2> QED
    BY <2>3
<1> QED
  BY <1>2, <1>3

LEMMA SelectLinkListStep ==
  ASSUME ObservationInd, NEW i \in Nat, SelectLinkList(i)
  PROVE  ObservationInd'
<1>1. /\ i < Len(rows)
      /\ selected' = ObjectAt(i)
      /\ IF FirstForRow(i) = 0
         THEN activeLinkList' = Nothing /\ UNCHANGED size
         ELSE LET object == observers[FirstForRow(i)].object IN
              /\ activeLinkList' = [object |-> object, dangling |-> FALSE]
              /\ size' = [size EXCEPT ![object] = Grown(object, List)]
      /\ UNCHANGED <<rollingBack, rows, observers, marked, invalidated, changed, erased, moved, lost>>
  BY DEF SelectLinkList, Step, RowCount
<1>2. ObservationTypes /\ Placed /\ Pointed /\ Told
  BY DEF ObservationInd
<1>3. \/ /\ activeLinkList' = Nothing /\ UNCHANGED size
         /\ \A k \in 1 .. Len(observers) : observers[k].row # i
      \/ \E k \in 1 .. Len(observers) :
           /\ observers[k].row = i
           /\ activeLinkList' = [object |-> observers[k].object, dangling |-> FALSE]
           /\ size' = [size EXCEPT ![observers[k].object] = Grown(observers[k].object, List)]
  <2>1. CASE FirstForRow(i) = 0
    <3>1. 0 \notin 1 .. Len(observers)
      BY <1>2, LenProperties DEF ObservationTypes
    <3> QED
      BY <1>1, <1>2, <2>1, <3>1, FoundForRow
  <2>2. CASE FirstForRow(i) # 0
    <3>1. FirstForRow(i) \in 1 .. Len(observers) /\ observers[FirstForRow(i)].row = i
      BY <1>2, <2>2, FoundForRow
    <3> QED
      BY <1>1, <2>2, <3>1
  <2> QED
    BY <2>1, <2>2
<1>4. List \in Columns /\ ObjectAt(i) \in Objects \union {New} /\ New \notin Objects
  <2>1. PICK l \in Nat : l = Len(rows)
    BY <1>2, LenProperties DEF ObservationTypes
  <2>2. i + 1 \in 1 .. l
    BY <1>1, <2>1
  <2> QED
    BY <1>2, <2>1, <2>2, ElementOfSeq, RealmObservationAssumption
       DEF ObservationTypes, ObjectAt, Columns
<1>5. \A k \in 1 .. Len(observers) :
        observers[k].object \notin moved \/ ObjectAt(i) \in Objects \ moved =>
          (observers[k].object = ObjectAt(i) <=> observers[k].row = i)
  BY <1>1, <1>2, InItsRow DEF Placed
<1>6. ObjectsOf(observers)' = ObjectsOf(observers) /\ Observed' = Observed
  BY <1>1 DEF ObjectsOf, Observed
<1>7. Placed' /\ Told'
  <2>1. Placed'
    BY <1>1, <1>2, <1>6 DEF Placed, OneRowEach, Sorted, InOrder, InPlace, RowsInside, OnlyErased
  <2>2. Told'
    BY <1>1, <1>2, <1>6 DEF Told, FieldsOf, ListOf
  <2> QED
    BY <2>1, <2>2
<1>8. LostOnlyIfGrown'
  BY <1>1, <1>2 DEF Pointed, LostOnlyIfGrown
<1>9. ASSUME activeLinkList' = Nothing, UNCHANGED size,
             \A k \in 1 .. Len(observers) : observers[k].row # i
      PROVE  ObservationTypes' /\ ListFollowed' /\ PointsInto'
  <2>1. activeLinkList'.object = New /\ ~activeLinkList'.dangling
    BY <1>9 DEF Nothing
  <2>2. ObservationTypes'
    BY <1>1, <1>2, <1>4, <1>9 DEF ObservationTypes, Nothing
  <2>3. New \notin ObjectsOf(observers)
    BY <1>2, <1>4, WhoIsObserved, EachObserver
  <2>4. ObjectAt(i) \in Objects \ moved => ObjectAt(i) \notin ObjectsOf(observers)
    BY <1>2, <1>5, <1>9, WhoIsObserved
  <2> QED
    BY <1>1, <1>6, <2>1, <2>2, <2>3, <2>4 DEF ListFollowed, PointsInto
<1>10. ASSUME NEW k \in 1 .. Len(observers), observers[k].row = i,
              activeLinkList' = [object |-> observers[k].object, dangling |-> FALSE],
              size' = [size EXCEPT ![observers[k].object] = Grown(observers[k].object, List)]
       PROVE  ObservationTypes' /\ ListFollowed' /\ PointsInto'
  <2>1. PICK object \in Objects : object = observers[k].object
    BY <1>2, EachObserver
  <2>2. activeLinkList'.object = object /\ ~activeLinkList'.dangling
    BY <1>10, <2>1
  <2>3. Grown(object, List) \in Nat /\ Grown(object, List) > List
    BY <1>2, <1>4, GrownPasses DEF ObservationTypes
  <2>4. size' \in [Objects -> Nat] /\ size'[object] > List
    BY <1>2, <1>10, <2>1, <2>3 DEF ObservationTypes
  <2>5. activeLinkList' \in [object : Objects \union {New}, dangling : BOOLEAN]
    BY <1>10, <2>1
  <2>6. ObservationTypes'
    BY <1>1, <1>2, <1>4, <2>4, <2>5 DEF ObservationTypes
  <2>7. object \notin moved \/ ObjectAt(i) \in Objects \ moved => object = ObjectAt(i)
    BY <1>5, <1>10, <2>1
  <2>8. object \in ObjectsOf(observers)
    BY <1>2, <2>1, WhoIsObserved
  <2>9. ListFollowed'
    BY <1>1, <1>6, <2>2, <2>7, <2>8 DEF ListFollowed
  <2>10. PointsInto'
    BY <2>2, <2>4 DEF PointsInto
  <2> QED
    BY <2>6, <2>9, <2>10
<1>11. ObservationTypes' /\ ListFollowed' /\ PointsInto'
  BY <1>3, <1>9, <1>10
<1> QED
  BY <1>7, <1>8, <1>11 DEF ObservationInd, Pointed

(* To whom the change of a list goes.                                        *)
LEMMA WhoReceives ==
  ASSUME ObservationTypes, NEW o \in Receivers
  PROVE  o \in Objects \union {New} /\ (~activeLinkList.dangling => o = activeLinkList.object)
<1>1. \A object \in ObjectsOf(observers) : object \in Objects
  BY WhoIsObserved, EachObserver
<1> QED
  BY <1>1 DEF Receivers, ObservationTypes

LEMMA LinkListChangeStep ==
  ASSUME ObservationInd, NEW i \in Nat, LinkListChange(i)
  PROVE  ObservationInd'
<1>1. /\ selected = ObjectAt(i)
      /\ Changes(i, List)
      /\ lost' = IF activeLinkList.dangling THEN lost \union {selected} ELSE lost
      /\ UNCHANGED <<rollingBack, rows, observers, size, activeLinkList, invalidated, selected,
                     erased, moved>>
      /\ i < Len(rows)
  BY DEF LinkListChange, Step, RowCount
<1>2. PICK receiver \in Receivers :
        marked' = IF receiver = New THEN marked ELSE [marked EXCEPT ![receiver] = @ \union {List}]
  BY DEF LinkListChange
<1>3. ObservationTypes /\ Placed /\ Pointed /\ Told
  BY DEF ObservationInd
<1>4. List \in Columns /\ List \notin Fields
  BY DEF Columns, Fields, List
<1>5. /\ changed' \in [Objects -> SUBSET Columns]
      /\ \A o \in Objects : changed'[o] = IF o = selected THEN changed[o] \union {List} ELSE changed[o]
  BY <1>1, <1>3, <1>4, ChangesTyped DEF ObservationTypes
<1>6. receiver \in Objects \union {New} /\ (~activeLinkList.dangling => receiver = activeLinkList.object)
  BY <1>2, <1>3, WhoReceives
<1>7. /\ marked' \in [Objects -> SUBSET Columns]
      /\ \A o \in Objects : o # New =>
           marked'[o] = IF o = receiver THEN marked[o] \union {List} ELSE marked[o]
  BY <1>2, <1>3, <1>4, <1>6 DEF ObservationTypes
<1>8. selected \in Objects \union {New}
  <2>1. PICK l \in Nat : l = Len(rows)
    BY <1>3, LenProperties DEF ObservationTypes
  <2>2. i + 1 \in 1 .. l
    BY <1>1, <2>1
  <2> QED
    BY <1>1, <1>3, <2>1, <2>2, ElementOfSeq DEF ObservationTypes, ObjectAt
<1>9. ObservationTypes'
  <2>1. lost' \in SUBSET (Objects \union {New})
    BY <1>1, <1>3, <1>8 DEF ObservationTypes
  <2> QED
    BY <1>1, <1>3, <1>5, <1>7, <2>1 DEF ObservationTypes
<1>10. ObjectsOf(observers)' = ObjectsOf(observers) /\ Observed' = Observed
  BY <1>1 DEF ObjectsOf, Observed
<1>11. \A o \in ObjectsOf(observers) : o \in Objects /\ o # New
  BY <1>3, WhoIsObserved, EachObserver
<1>12. Placed'
  BY <1>1, <1>3, <1>10 DEF Placed, OneRowEach, Sorted, InOrder, InPlace, RowsInside, OnlyErased
<1>13. Told'
  <2> SUFFICES ASSUME NEW o \in ObjectsOf(observers), o \notin moved PROVE FieldsOf(o)' /\ ListOf(o)'
    BY <1>1, <1>10 DEF Told
  <2>1. FieldsOf(o) /\ ListOf(o) /\ o \in Objects /\ o # New
    BY <1>3, <1>11 DEF Told
  <2>2. changed'[o] = IF o = selected THEN changed[o] \union {List} ELSE changed[o]
    BY <1>5, <2>1
  <2>3. marked'[o] = IF o = receiver THEN marked[o] \union {List} ELSE marked[o]
    BY <1>7, <2>1
  <2>4. FieldsOf(o)'
    <3>1. /\ changed'[o] \intersect Fields = changed[o] \intersect Fields
          /\ marked'[o] \intersect Fields = marked[o] \intersect Fields
      BY <1>4, <2>2, <2>3
    <3>2. changed[o] \subseteq changed'[o] /\ marked[o] \subseteq marked'[o]
      BY <2>2, <2>3
    <3> QED
      BY <1>1, <1>10, <2>1, <3>1, <3>2 DEF FieldsOf
  <2>5. CASE activeLinkList.dangling
    <3>1. lost' = lost \union {selected}
      BY <1>1, <2>5
    <3>2. List \in changed'[o] => List \in marked'[o] \/ o \in lost'
      BY <2>1, <2>2, <2>3, <3>1 DEF ListOf
    <3> QED
      BY <2>4, <3>1, <3>2 DEF ListOf
  <2>6. CASE ~activeLinkList.dangling
    <3>1. lost' = lost /\ receiver = activeLinkList.object
      BY <1>1, <1>6, <2>6
    <3>2. ListFollowed
      BY <1>3 DEF Pointed
    <3>3. o = selected => o = receiver
      BY <2>1, <3>1, <3>2 DEF ListFollowed
    <3>4. o = receiver => o = selected
      <4>1. NoList \notin Objects /\ NoList # New
        BY RealmObservationAssumption DEF NoList, New
      <4> QED
        BY <1>8, <2>1, <3>1, <3>2, <4>1 DEF ListFollowed
    <3> QED
      BY <2>1, <2>2, <2>3, <2>4, <3>1, <3>3, <3>4 DEF ListOf
  <2> QED
    BY <2>5, <2>6
<1>14. Pointed'
  <2>1. ListFollowed /\ PointsInto /\ LostOnlyIfGrown
    BY <1>3 DEF Pointed
  <2>2. \A o \in Objects : LaterChanged(o) => LaterChanged(o)'
    BY <1>5 DEF LaterChanged
  <2>3. ListFollowed' /\ PointsInto'
    BY <1>1, <1>10, <2>1, <2>2 DEF ListFollowed, PointsInto
  <2>4. LostOnlyIfGrown'
    <3> SUFFICES ASSUME NEW o \in lost' \ ({New} \union moved) PROVE LaterChanged(o)'
      BY <1>1 DEF LostOnlyIfGrown, LaterChanged
    <3>1. o \in Objects
      BY <1>9 DEF ObservationTypes
    <3>2. CASE o \in lost
      <4>1. LaterChanged(o)
        BY <2>1, <3>2 DEF LostOnlyIfGrown, LaterChanged
      <4> QED
        BY <2>2, <3>1, <4>1
    <3>3. CASE o \notin lost
      <4>1. activeLinkList.dangling /\ o = selected
        BY <1>1, <3>3
      <4>2. LaterChanged(o)
        BY <2>1, <3>1, <4>1 DEF PointsInto
      <4> QED
        BY <2>2, <3>1, <4>2
    <3> QED
      BY <3>2, <3>3
  <2> QED
    BY <2>3, <2>4 DEF Pointed
<1> QED
  BY <1>9, <1>12, <1>13, <1>14 DEF ObservationInd

(* Where only objects moved, less is said of what is told.                   *)
LEMMA MoreMoved ==
  ASSUME ObservationInd, moved \subseteq moved',
         UNCHANGED <<rollingBack, handler, selected, changed, erased, lost>>
  PROVE  Sorted' /\ OnlyErased' /\ Pointed' /\ Told'
<1>1. UNCHANGED <<observers, marked, size, activeLinkList, invalidated>>
  BY DEF handler
<1>2. Placed /\ Pointed /\ Told
  BY DEF ObservationInd
<1>3. ObjectsOf(observers)' = ObjectsOf(observers) /\ Observed' = Observed
  BY <1>1 DEF ObjectsOf, Observed
<1>4. Observed' \intersect moved' = {} => Observed \intersect moved = {}
  BY <1>3
<1>5. Sorted' /\ OnlyErased'
  BY <1>1, <1>2, <1>4 DEF Placed, Sorted, InOrder, OnlyErased
<1>6. Told'
  BY <1>1, <1>2, <1>3, <1>4 DEF Told, FieldsOf, ListOf
<1>7. Pointed'
  <2>1. ListFollowed /\ PointsInto /\ LostOnlyIfGrown
    BY <1>2 DEF Pointed
  <2>2. ListFollowed'
    BY <1>1, <1>3, <2>1 DEF ListFollowed
  <2>3. PointsInto'
    BY <1>1, <2>1 DEF PointsInto, LaterChanged
  <2>4. LostOnlyIfGrown'
    BY <2>1 DEF LostOnlyIfGrown
  <2> QED
    BY <2>2, <2>3, <2>4 DEF Pointed
<1> QED
  BY <1>5, <1>6, <1>7

LEMMA InsertEmptyRowsStep ==
  ASSUME ObservationInd, InsertEmptyRows
  PROVE  ObservationInd'
<1>1. /\ ~rollingBack
      /\ rows' = Append(rows, New)
      /\ UNCHANGED <<rollingBack, handler, logState, lost>>
  BY DEF InsertEmptyRows, Step
<1>2. UNCHANGED <<observers, marked, size, activeLinkList, invalidated,
                  selected, changed, erased, moved>>
  BY <1>1 DEF handler, logState
<1>3. ObservationTypes /\ Placed
  BY DEF ObservationInd
<1>4. PICK l \in Nat : l = Len(rows)
  BY <1>3, LenProperties DEF ObservationTypes
<1>5. /\ rows' \in Seq(Objects \union {New}) /\ Len(rows') = l + 1
      /\ rows'[l + 1] = New /\ \A j \in 1 .. l : rows'[j] = rows[j]
  BY <1>1, <1>3, <1>4, AppendProperties DEF ObservationTypes
<1>6. ObservationTypes'
  BY <1>1, <1>2, <1>3, <1>5 DEF ObservationTypes
<1>7. Sorted' /\ OnlyErased' /\ Pointed' /\ Told'
  BY <1>1, <1>2, MoreMoved
<1>8. OneRowEach'
  <2>1. New \notin erased
    BY <1>3, RealmObservationAssumption DEF ObservationTypes
  <2> QED
    BY <1>2, <1>3, <1>4, <1>5, <2>1 DEF Placed, OneRowEach
<1>9. InPlace'
  BY <1>2, <1>3, <1>4, <1>5 DEF Placed, InPlace
<1>10. RowsInside'
  BY <1>1 DEF RowsInside
<1> QED
  BY <1>6, <1>7, <1>8, <1>9, <1>10 DEF ObservationInd, Placed

(* A row that comes back is new, and what was there goes to the end. *)
LEMMA RowsWithOneBack ==
  ASSUME NEW S, New \in S, rows \in Seq(S), NEW i \in Nat, i <= Len(rows),
         rows' = IF i = Len(rows) THEN Append(rows, New)
                 ELSE Append([rows EXCEPT ![i + 1] = New], rows[i + 1])
  PROVE  /\ rows' \in Seq(S) /\ Len(rows') = Len(rows) + 1
         /\ rows'[i + 1] = New
         /\ \A j \in 1 .. Len(rows) : j # i + 1 => rows'[j] = rows[j]
         /\ i < Len(rows) => rows'[Len(rows) + 1] = rows[i + 1]
<1>1. PICK l \in Nat : l = Len(rows)
  BY LenProperties
<1>2. CASE i = l
  <2>1. rows' = Append(rows, New)
    BY <1>1, <1>2
  <2> QED
    BY <1>1, <1>2, <2>1, AppendProperties
<1>3. CASE i < l
  <2>1. PICK b : b = [rows EXCEPT ![i + 1] = New]
    OBVIOUS
  <2>2. i + 1 \in 1 .. l
    BY <1>3
  <2>3. b \in Seq(S) /\ Len(b) = l /\ \A j \in 1 .. l : b[j] = IF j = i + 1 THEN New ELSE rows[j]
    BY <1>1, <2>1, <2>2, ExceptSeq
  <2>4. PICK e \in S : e = rows[i + 1]
    BY <1>1, <2>2, ElementOfSeq
  <2>5. rows' = Append(b, e)
    BY <1>1, <1>3, <2>1, <2>4
  <2>6. /\ rows' \in Seq(S) /\ Len(rows') = l + 1 /\ rows'[l + 1] = e
        /\ \A j \in 1 .. l : rows'[j] = b[j]
    BY <2>3, <2>5, AppendProperties, SMTT(40)
  <2> QED
    BY <1>1, <2>2, <2>3, <2>4, <2>6, SMTT(40)
<1> QED
  BY <1>1, <1>2, <1>3

LEMMA InsertRowsBackStep ==
  ASSUME ObservationInd, NEW i \in Nat, InsertRowsBack(i)
  PROVE  ObservationInd'
<1>1. /\ rollingBack /\ i <= Len(rows)
      /\ rows' = IF i = Len(rows) THEN Append(rows, New)
                 ELSE Append([rows EXCEPT ![i + 1] = New], rows[i + 1])
      /\ moved' = IF i = Len(rows) THEN moved ELSE moved \union ({rows[i + 1]} \ {New})
      /\ UNCHANGED <<rollingBack, handler, selected, changed, erased, lost>>
  BY DEF InsertRowsBack, Step, RowCount, ObjectAt
<1>2. UNCHANGED <<observers, marked, size, activeLinkList, invalidated>>
  BY <1>1 DEF handler
<1>3. ObservationTypes /\ Placed
  BY DEF ObservationInd
<1>4. PICK l \in Nat : l = Len(rows)
  BY <1>3, LenProperties DEF ObservationTypes
<1>5. /\ rows' \in Seq(Objects \union {New}) /\ Len(rows') = l + 1
      /\ rows'[i + 1] = New
      /\ \A j \in 1 .. l : j # i + 1 => rows'[j] = rows[j]
      /\ i < l => rows'[l + 1] = rows[i + 1]
  BY <1>1, <1>3, <1>4, RowsWithOneBack DEF ObservationTypes
<1>6. i < l \/ i = l
  BY <1>1, <1>4
<1>7. PICK e : e = rows[i + 1]
  OBVIOUS
<1>8. i < l => e \in Objects \union {New} /\ moved' = moved \union ({e} \ {New})
  <2> HAVE i < l
  <2>1. i + 1 \in 1 .. l
    BY <1>4
  <2> QED
    BY <1>1, <1>3, <1>4, <1>7, <2>1, ElementOfSeq DEF ObservationTypes
<1>9. i = l => moved' = moved
  BY <1>1, <1>4
<1>10. moved' \in SUBSET Objects /\ moved \subseteq moved'
  BY <1>3, <1>6, <1>8, <1>9 DEF ObservationTypes
<1>11. ObservationTypes'
  BY <1>1, <1>2, <1>3, <1>5, <1>10 DEF ObservationTypes
<1>12. Sorted' /\ OnlyErased' /\ Pointed' /\ Told'
  BY <1>1, <1>10, MoreMoved
<1>13. New \notin erased /\ New \notin Objects
  BY <1>3, RealmObservationAssumption DEF ObservationTypes
<1>14. OneRowEach'
  <2>1. /\ \A a, b \in 1 .. l : rows[a] = rows[b] /\ rows[a] # New => a = b
        /\ \A a \in 1 .. l : rows[a] \notin erased
    BY <1>3, <1>4 DEF Placed, OneRowEach
  <2>2. CASE i = l
    <3>1. /\ \A j \in 1 .. l : rows'[j] = rows[j]
          /\ rows'[l + 1] = New
      BY <1>5, <2>2
    <3> QED
      BY <1>1, <1>4, <1>5, <1>13, <2>1, <3>1 DEF OneRowEach
  <2>3. CASE i < l
    <3>1. i + 1 \in 1 .. l
      BY <1>4, <2>3
    <3>2. \A j \in 1 .. l + 1 :
            rows'[j] = IF j = i + 1 THEN New ELSE IF j = l + 1 THEN rows[i + 1] ELSE rows[j]
      BY <1>4, <1>5, <2>3, <3>1
    <3>3. \A a, b \in 1 .. l + 1 : rows'[a] = rows'[b] /\ rows'[a] # New => a = b
      BY <1>4, <2>1, <3>1, <3>2
    <3>4. \A a \in 1 .. l + 1 : rows'[a] \notin erased
      BY <1>4, <1>13, <2>1, <3>1, <3>2
    <3> QED
      BY <1>1, <1>5, <3>3, <3>4 DEF OneRowEach
  <2> QED
    BY <1>6, <2>2, <2>3
<1>15. ASSUME NEW k \in 1 .. Len(observers), NEW r \in Nat, r = observers[k].row
       PROVE  /\ IF observers[k].object \in moved'
                 THEN r + 1 \in 1 .. l + 1 => rows'[r + 1] \in moved' \union {New}
                 ELSE r + 1 \in 1 .. l + 1 /\ rows'[r + 1] = observers[k].object
              /\ r + 1 \in 1 .. l
  <2>1. IF observers[k].object \in moved
        THEN r + 1 \in 1 .. l => rows[r + 1] \in moved \union {New}
        ELSE r + 1 \in 1 .. l /\ rows[r + 1] = observers[k].object
    BY <1>3, <1>4, <1>15 DEF Placed, InPlace
  <2>2. r + 1 \in 1 .. l
    BY <1>1, <1>3, <1>4, <1>15 DEF Placed, RowsInside
  <2>3. CASE r = i
    <3>1. rows'[r + 1] = New /\ i < l
      BY <1>5, <1>6, <2>2, <2>3
    <3>2. observers[k].object \notin moved => observers[k].object = e /\ e # New
      BY <1>3, <1>7, <2>1, <2>3, EachObserver
    <3>3. observers[k].object \in moved'
      BY <1>8, <1>10, <3>1, <3>2
    <3> QED
      BY <2>2, <3>1, <3>3
  <2>4. CASE r # i
    <3>1. rows'[r + 1] = rows[r + 1]
      BY <1>5, <2>2, <2>4
    <3>2. ASSUME observers[k].object \in moved', observers[k].object \notin moved
          PROVE  FALSE
      <4>1. i < l /\ observers[k].object = e
        BY <1>6, <1>8, <1>9, <3>2
      <4>2. i + 1 \in 1 .. l /\ rows[r + 1] = rows[i + 1] /\ rows[r + 1] # New
        BY <1>3, <1>4, <1>7, <2>1, <3>2, <4>1, EachObserver
      <4>3. r + 1 = i + 1
        BY <1>3, <1>4, <2>2, <4>2 DEF Placed, OneRowEach
      <4> QED
        BY <2>4, <4>3
    <3> QED
      BY <1>10, <2>1, <2>2, <3>1, <3>2
  <2> QED
    BY <2>3, <2>4
<1>16. InPlace' /\ RowsInside'
  <2>1. \A k \in 1 .. Len(observers) : observers[k].row \in Nat
    BY <1>3, EachObserver
  <2>2. InPlace'
    BY <1>2, <1>5, <1>15, <2>1 DEF InPlace
  <2>3. RowsInside'
    BY <1>2, <1>4, <1>5, <1>15, <2>1 DEF RowsInside
  <2> QED
    BY <2>2, <2>3
<1> QED
  BY <1>11, <1>12, <1>14, <1>16 DEF ObservationInd, Placed

(* Who stays when a row goes: the observers of other rows, in their order.   *)
LEMMA StayingAre ==
  ASSUME ObservationTypes, NEW row
  PROVE  /\ Staying(row) \in Seq(ObserverStates)
         /\ ObjectsOf(Staying(row)) =
              {observers[k].object : k \in {j \in 1 .. Len(observers) : observers[j].row # row}}
         /\ \A k \in 1 .. Len(Staying(row)) :
              \E j \in 1 .. Len(observers) : Staying(row)[k] = observers[j] /\ observers[j].row # row
         /\ \A a, b \in 1 .. Len(Staying(row)) : a < b =>
              \E i, j \in 1 .. Len(observers) :
                i < j /\ Staying(row)[a] = observers[i] /\ Staying(row)[b] = observers[j]
<1>1. PICK these : these = {o \in Range(observers) : o.row # row}
  OBVIOUS
<1>2. PICK v : v = Staying(row)
  OBVIOUS
<1>3. Keeps(v, ObserverStates, observers, these, Len(observers))
  <2>1. observers \in Seq(ObserverStates)
    BY DEF ObservationTypes
  <2>2. Keeps(Only(observers, these), ObserverStates, observers, these, Len(observers))
    BY <2>1, OnlyKeeps
  <2> QED
    BY <1>1, <1>2, <2>2 DEF Staying
<1>4. DOMAIN observers = 1 .. Len(observers)
  BY LenProperties DEF ObservationTypes
<1>5. v \in Seq(ObserverStates)
  BY <1>3 DEF Keeps
<1>6. DOMAIN v = 1 .. Len(v)
  BY <1>5, LenProperties
<1>7. \A j \in 1 .. Len(observers) : observers[j] \in these <=> observers[j].row # row
  BY <1>1, <1>4 DEF Range
<1>8. ASSUME NEW k \in 1 .. Len(v)
      PROVE  \E j \in 1 .. Len(observers) : v[k] = observers[j] /\ observers[j].row # row
  <2>1. PICK j \in 1 .. Len(observers) : v[k] = observers[j] /\ v[k] \in these
    BY <1>3 DEF Keeps
  <2> QED
    BY <1>7, <2>1
<1>9. ASSUME NEW j \in 1 .. Len(observers), observers[j].row # row
      PROVE  observers[j].object \in ObjectsOf(v)
  <2>1. \E k \in 1 .. Len(v) : v[k] = observers[j]
    BY <1>3, <1>7, <1>9 DEF Keeps
  <2> QED
    BY <1>6, <2>1 DEF ObjectsOf
<1>10. ObjectsOf(v) =
         {observers[k].object : k \in {j \in 1 .. Len(observers) : observers[j].row # row}}
  <2>1. \A o \in ObjectsOf(v) :
          \E j \in 1 .. Len(observers) : observers[j].row # row /\ o = observers[j].object
    <3> SUFFICES ASSUME NEW o \in ObjectsOf(v)
                 PROVE  \E j \in 1 .. Len(observers) : observers[j].row # row /\ o = observers[j].object
      OBVIOUS
    <3>1. PICK k \in 1 .. Len(v) : o = v[k].object
      BY <1>6 DEF ObjectsOf
    <3>2. PICK j \in 1 .. Len(observers) : v[k] = observers[j] /\ observers[j].row # row
      BY <1>8
    <3> QED
      BY <3>1, <3>2
  <2> QED
    BY <1>9, <2>1
<1>11. \A a, b \in 1 .. Len(v) : a < b =>
         \E i, j \in 1 .. Len(observers) : i < j /\ v[a] = observers[i] /\ v[b] = observers[j]
  BY <1>3 DEF Keeps
<1>12. \A k \in 1 .. Len(v) :
         \E j \in 1 .. Len(observers) : v[k] = observers[j] /\ observers[j].row # row
  BY <1>8
<1> QED
  BY <1>2, <1>5, <1>10, <1>11, <1>12

(* An observer keeps its object when it follows its row. *)
LEMMA FollowingKeepsObject ==
  ASSUME NEW o \in ObserverStates, NEW row \in Nat
  PROVE  Following(o, row) \in ObserverStates /\ Following(o, row).object = o.object
<1>1. o.row \in Nat
  BY DEF ObserverStates
<1>2. \/ Following(o, row) = [o EXCEPT !.row = row]
      \/ o.row > row /\ Following(o, row) = [o EXCEPT !.row = o.row - 1]
      \/ Following(o, row) = o
  BY DEF Following
<1>3. o.row > row => o.row - 1 \in Nat
  BY <1>1
<1> QED
  BY <1>2, <1>3 DEF ObserverStates

(* A row that goes leaves its place to the last one. *)
LEMMA RowsWithoutOne ==
  ASSUME NEW S, rows \in Seq(S), NEW i \in Nat, i < Len(rows),
         rows' = IF i = Len(rows) - 1 THEN Front(rows)
                 ELSE Front([rows EXCEPT ![i + 1] = Last(rows)])
  PROVE  /\ rows' \in Seq(S) /\ Len(rows') = Len(rows) - 1
         /\ \A j \in 1 .. Len(rows) - 1 :
              rows'[j] = IF j = i + 1 THEN rows[Len(rows)] ELSE rows[j]
<1>1. PICK l \in Nat : l = Len(rows)
  BY LenProperties
<1>2. l - 1 \in Nat /\ l \in 1 .. l /\ i + 1 \in 1 .. l
  BY <1>1
<1>3. PICK last \in S : last = Last(rows) /\ last = rows[l]
  BY <1>1, <1>2, ElementOfSeq DEF Last
<1>4. ASSUME NEW b \in Seq(S), Len(b) = l
      PROVE  /\ Front(b) \in Seq(S) /\ Len(Front(b)) = l - 1
             /\ \A j \in 1 .. l - 1 : Front(b)[j] = b[j]
  <2>1. \A j \in 1 .. l - 1 : b[j] \in S
    BY <1>4, ElementOfSeq
  <2>2. PICK n \in Nat : n = l - 1
    BY <1>2
  <2>3. /\ SubSeq(b, 1, n) \in Seq(S) /\ Len(SubSeq(b, 1, n)) = n
        /\ \A j \in 1 .. n : SubSeq(b, 1, n)[j] = b[j]
    BY <2>1, <2>2, SubSeqProperties
  <2> QED
    BY <1>4, <2>2, <2>3 DEF Front
<1>5. PICK b : b = [rows EXCEPT ![i + 1] = last]
  OBVIOUS
<1>6. /\ b \in Seq(S) /\ Len(b) = l
      /\ \A j \in 1 .. l : b[j] = IF j = i + 1 THEN last ELSE rows[j]
  BY <1>1, <1>2, <1>5, ExceptSeq
<1>7. CASE i = l - 1
  <2>1. rows' = Front(rows)
    BY <1>1, <1>7
  <2>2. /\ rows' \in Seq(S) /\ Len(rows') = l - 1
        /\ \A j \in 1 .. l - 1 : rows'[j] = rows[j]
    BY <1>1, <1>4, <2>1
  <2>3. \A j \in 1 .. l - 1 : j # i + 1
    BY <1>7
  <2> QED
    BY <1>1, <2>2, <2>3
<1>8. CASE i # l - 1
  <2>1. rows' = Front(b)
    BY <1>1, <1>3, <1>5, <1>8
  <2>2. /\ rows' \in Seq(S) /\ Len(rows') = l - 1
        /\ \A j \in 1 .. l - 1 : rows'[j] = b[j]
    <3>1. /\ Front(b) \in Seq(S) /\ Len(Front(b)) = l - 1
          /\ \A j \in 1 .. l - 1 : Front(b)[j] = b[j]
      BY <1>4, <1>6
    <3> QED
      BY <2>1, <3>1, Zenon
  <2>3. \A j \in 1 .. l - 1 : j \in 1 .. l
    OBVIOUS
  <2> QED
    BY <1>1, <1>3, <1>6, <2>2, <2>3
<1> QED
  BY <1>7, <1>8

(* What an erasure does to rows and observers, in the terms of the invariant. *)
LEMMA EraseRowsTypes ==
  ASSUME ObservationInd, NEW i \in Nat, EraseRows(i), NEW l \in Nat, l = Len(rows)
  PROVE  /\ i + 1 \in 1 .. l /\ (rollingBack => i = l - 1)
         /\ ObservationTypes' /\ Len(rows') = l - 1
         /\ \A j \in 1 .. l - 1 : rows'[j] = IF j = i + 1 THEN rows[l] ELSE rows[j]
         /\ erased' = erased \union ({rows[i + 1]} \ {New})
         /\ moved' = IF i = l - 1 THEN moved ELSE moved \union ({rows[l]} \ {New})
         /\ ObjectsOf(observers)' =
              {observers[k].object : k \in {j \in 1 .. Len(observers) : observers[j].row # i}}
         /\ Len(observers') = Len(Staying(i))
         /\ \A k \in 1 .. Len(Staying(i)) : observers'[k] = Following(Staying(i)[k], i)
<1>1. /\ i < Len(rows) /\ (rollingBack => i = Len(rows) - 1)
      /\ rows' = IF i = Len(rows) - 1 THEN Front(rows)
                 ELSE Front([rows EXCEPT ![i + 1] = Last(rows)])
      /\ erased' = erased \union ({rows[i + 1]} \ {New})
      /\ moved' = IF i = Len(rows) - 1 THEN moved ELSE moved \union ({Last(rows)} \ {New})
      /\ Deselected(rows[i + 1])
      /\ Freed(ObjectsOf(observers) \ ObjectsOf(Staying(i)))
      /\ observers' = [k \in DOMAIN Staying(i) |-> Following(Staying(i)[k], i)]
      /\ UNCHANGED <<rollingBack, marked, size, changed, lost>>
  BY DEF EraseRows, Step, RowCount, ObjectAt
<1>2. ObservationTypes
  BY DEF ObservationInd
<1>3. i + 1 \in 1 .. l /\ l \in 1 .. l
  BY <1>1
<1>4. /\ rows' \in Seq(Objects \union {New}) /\ Len(rows') = l - 1
      /\ \A j \in 1 .. l - 1 : rows'[j] = IF j = i + 1 THEN rows[l] ELSE rows[j]
  BY <1>1, <1>2, RowsWithoutOne DEF ObservationTypes
<1>5. rows[i + 1] \in Objects \union {New} /\ rows[l] \in Objects \union {New} /\ Last(rows) = rows[l]
  BY <1>2, <1>3, ElementOfSeq DEF ObservationTypes, Last
<1>6. PICK v \in Seq(ObserverStates) : v = Staying(i)
  BY <1>2, StayingAre
<1>7. PICK n \in Nat : n = Len(v)
  BY LenProperties
<1>8. DOMAIN v = 1 .. n /\ \A k \in 1 .. n : v[k] \in ObserverStates
  BY <1>7, LenProperties, ElementOfSeq
<1>9. observers' = [k \in 1 .. n |-> Following(v[k], i)]
  BY <1>1, <1>6, <1>8
<1>10. \A k \in 1 .. n : observers'[k] \in ObserverStates /\ observers'[k].object = v[k].object
  BY <1>8, <1>9, FollowingKeepsObject
<1>11. observers' \in Seq(ObserverStates) /\ Len(observers') = n /\ DOMAIN observers' = 1 .. n
  <2>1. observers' \in [1 .. n -> ObserverStates]
    BY <1>9, <1>10
  <2>2. observers' \in Seq(ObserverStates)
    BY <2>1, SeqDef
  <2> QED
    BY <1>9, <2>2, LenProperties
<1>12. ObjectsOf(observers)' = ObjectsOf(v)
  <2>1. ObjectsOf(observers') = ObjectsOf(v)
    BY <1>8, <1>10, <1>11 DEF ObjectsOf
  <2> QED
    BY <2>1 DEF ObjectsOf
<1>13. activeLinkList' \in [object : Objects \union {New}, dangling : BOOLEAN]
  <2>1. activeLinkList' = activeLinkList \/ activeLinkList' = [activeLinkList EXCEPT !.dangling = TRUE]
    BY <1>1 DEF Freed
  <2> QED
    BY <1>2, <2>1 DEF ObservationTypes
<1>14. selected' \in Objects \union {New, NoList}
  BY <1>1, <1>2 DEF Deselected, ObservationTypes
<1>15. ObservationTypes'
  <2>1. erased' \in SUBSET Objects /\ moved' \in SUBSET Objects
    BY <1>1, <1>2, <1>5 DEF ObservationTypes
  <2> QED
    BY <1>1, <1>2, <1>4, <1>11, <1>13, <1>14, <2>1 DEF ObservationTypes
<1>16. ObjectsOf(v) =
         {observers[k].object : k \in {j \in 1 .. Len(observers) : observers[j].row # i}}
  BY <1>2, <1>6, StayingAre
<1> QED
  BY <1>1, <1>3, <1>4, <1>5, <1>6, <1>7, <1>9, <1>11, <1>12, <1>15, <1>16

(* Who stays follows no other row, while he is in the row of his object; and *)
(* in a rollback nobody is behind the last row.                              *)
LEMMA FollowingNone ==
  ASSUME NEW o \in ObserverStates, NEW i \in Nat, o.row + 1 \in 1 .. Len(rows),
         rows \in Seq(Objects \union {New}), rollingBack => i = Len(rows) - 1
  PROVE  Following(o, i) = o
<1>1. PICK l \in Nat : l = Len(rows)
  BY LenProperties
<1>2. o.row # LastRowNdx
  BY <1>1 DEF LastRowNdx, RowCount, ObserverStates
<1>3. rollingBack => ~(o.row > i)
  BY <1>1 DEF ObserverStates
<1> QED
  BY <1>2, <1>3 DEF Following

LEMMA EraseRowsPlaces ==
  ASSUME ObservationInd, NEW i \in Nat, EraseRows(i)
  PROVE  OneRowEach' /\ InPlace' /\ RowsInside'
<1>1. ObservationTypes /\ Placed
  BY DEF ObservationInd
<1>2. PICK l \in Nat : l = Len(rows)
  BY <1>1, LenProperties DEF ObservationTypes
<1>3. /\ i + 1 \in 1 .. l /\ (rollingBack => i = l - 1)
      /\ Len(rows') = l - 1
      /\ \A j \in 1 .. l - 1 : rows'[j] = IF j = i + 1 THEN rows[l] ELSE rows[j]
      /\ erased' = erased \union ({rows[i + 1]} \ {New})
      /\ moved' = IF i = l - 1 THEN moved ELSE moved \union ({rows[l]} \ {New})
  BY <1>2, EraseRowsTypes
<1>4. /\ Len(observers') = Len(Staying(i))
      /\ \A k \in 1 .. Len(Staying(i)) : observers'[k] = Following(Staying(i)[k], i)
  BY <1>2, EraseRowsTypes
<1>5. /\ \A a, b \in 1 .. l : rows[a] = rows[b] /\ rows[a] # New => a = b
      /\ \A a \in 1 .. l : rows[a] \notin erased
  BY <1>1, <1>2 DEF Placed, OneRowEach
<1>6. New \notin Objects /\ New \notin erased
  BY <1>1, RealmObservationAssumption DEF ObservationTypes
<1>7. PICK from \in [1 .. l - 1 -> 1 .. l] :
        \A j \in 1 .. l - 1 : from[j] = IF j = i + 1 THEN l ELSE j
  <2>1. [j \in 1 .. l - 1 |-> IF j = i + 1 THEN l ELSE j] \in [1 .. l - 1 -> 1 .. l]
    BY <1>3
  <2> QED
    BY <2>1
<1>8. \A j \in 1 .. l - 1 : rows'[j] = rows[from[j]] /\ from[j] # i + 1
  BY <1>3, <1>7
<1>9. \A a, b \in 1 .. l - 1 : from[a] = from[b] => a = b
  BY <1>7
<1>10. OneRowEach'
  <2>1. ASSUME NEW a \in 1 .. l - 1, NEW b \in 1 .. l - 1, rows'[a] = rows'[b], rows'[a] # New
        PROVE  a = b
    <3>1. from[a] \in 1 .. l /\ from[b] \in 1 .. l
      BY <1>7
    <3>2. from[a] = from[b]
      BY <1>5, <1>8, <2>1, <3>1
    <3> QED
      BY <1>9, <3>2
  <2>2. ASSUME NEW a \in 1 .. l - 1 PROVE rows'[a] \notin erased'
    <3>1. from[a] \in 1 .. l /\ from[a] # i + 1 /\ rows'[a] = rows[from[a]]
      BY <1>7, <1>8
    <3>2. rows[from[a]] = rows[i + 1] => rows[i + 1] = New
      BY <1>3, <1>5, <3>1
    <3> QED
      BY <1>3, <1>5, <1>6, <3>1, <3>2
  <2> QED
    BY <1>3, <2>1, <2>2 DEF OneRowEach
<1>11. ASSUME NEW k \in 1 .. Len(observers')
       PROVE  /\ IF observers'[k].object \in moved'
                 THEN observers'[k].row + 1 \in 1 .. l - 1 =>
                        rows'[observers'[k].row + 1] \in moved' \union {New}
                 ELSE /\ observers'[k].row + 1 \in 1 .. l - 1
                      /\ rows'[observers'[k].row + 1] = observers'[k].object
              /\ rollingBack => observers'[k].row + 1 \in 1 .. l - 1
  <2>1. k \in 1 .. Len(Staying(i))
    BY <1>4
  <2>2. PICK j \in 1 .. Len(observers) : Staying(i)[k] = observers[j] /\ observers[j].row # i
    BY <1>1, <2>1, StayingAre
  <2>3. PICK o \in ObserverStates : o = observers[j] /\ o.row \in Nat /\ o.object \in Objects /\ o.object # New
    BY <1>1, EachObserver
  <2>4. observers'[k] = Following(o, i)
    BY <1>4, <2>1, <2>2, <2>3
  <2>5. PICK r \in Nat : r = o.row /\ r # i
    BY <2>2, <2>3
  <2>6. IF o.object \in moved
        THEN r + 1 \in 1 .. l => rows[r + 1] \in moved \union {New}
        ELSE r + 1 \in 1 .. l /\ rows[r + 1] = o.object
    BY <1>1, <1>2, <2>3, <2>5 DEF Placed, InPlace
  <2>7. rollingBack => r + 1 \in 1 .. l
    BY <1>1, <1>2, <2>3, <2>5 DEF Placed, RowsInside
  <2>8. CASE r + 1 \in 1 .. l
    <3>1. observers'[k] = o
      BY <1>1, <1>2, <1>3, <2>4, <2>5, <2>8, FollowingNone DEF ObservationTypes
    <3>2. CASE r + 1 = l
      <4>1. i # l - 1 /\ ~rollingBack /\ r + 1 \notin 1 .. l - 1
        BY <1>3, <2>5, <3>2
      <4>2. moved' = moved \union ({rows[l]} \ {New})
        BY <1>3, <4>1
      <4>3. o.object \in moved'
        BY <2>3, <2>6, <3>2, <4>2
      <4> QED
        BY <2>5, <3>1, <4>1, <4>3
    <3>3. CASE r + 1 # l
      <4>1. r + 1 \in 1 .. l - 1 /\ rows'[r + 1] = rows[r + 1]
        BY <1>3, <2>5, <2>8, <3>3, SMTT(30)
      <4>2. moved \subseteq moved'
        BY <1>3
      <4>3. o.object \in moved' /\ o.object \notin moved => FALSE
        <5>1. SUFFICES ASSUME o.object \in moved', o.object \notin moved PROVE FALSE
          OBVIOUS
        <5>2. o.object = rows[l]
          BY <1>3, <5>1
        <5>3. rows[r + 1] = rows[l] /\ rows[l] # New /\ l \in 1 .. l
          BY <1>3, <2>3, <2>6, <5>1, <5>2
        <5> QED
          BY <1>5, <2>8, <3>3, <5>3
      <4> QED
        BY <2>5, <2>6, <2>8, <3>1, <4>1, <4>2, <4>3
    <3> QED
      BY <3>2, <3>3
  <2>9. CASE r + 1 \notin 1 .. l
    <3>1. o.object \in moved /\ ~rollingBack /\ r >= l
      BY <2>6, <2>7, <2>9
    <3>2. o.object \in moved'
      BY <1>3, <3>1
    <3>3. CASE r = l
      <4>1. observers'[k] = [o EXCEPT !.row = i]
        BY <1>2, <2>4, <2>5, <3>1, <3>3 DEF Following, LastRowNdx, RowCount
      <4>2. observers'[k].row = i /\ observers'[k].object = o.object
        BY <4>1 DEF ObserverStates
      <4>3. ASSUME i + 1 \in 1 .. l - 1 PROVE rows'[i + 1] \in moved' \union {New}
        <5>1. rows'[i + 1] = rows[l] /\ i # l - 1
          BY <1>3, <4>3
        <5> QED
          BY <1>3, <5>1
      <4> QED
        BY <3>1, <3>2, <4>2, <4>3
    <3>4. CASE r # l
      <4>1. observers'[k] = o
        BY <1>2, <2>4, <2>5, <3>1, <3>4 DEF Following, LastRowNdx, RowCount
      <4>2. r + 1 \notin 1 .. l - 1
        BY <3>1
      <4> QED
        BY <2>5, <3>1, <3>2, <4>1, <4>2
    <3> QED
      BY <3>3, <3>4
  <2> QED
    BY <2>8, <2>9
<1>12. InPlace'
  BY <1>3, <1>11 DEF InPlace
<1>13. rollingBack' = rollingBack
  BY DEF EraseRows, Step
<1>14. RowsInside'
  BY <1>3, <1>11, <1>13 DEF RowsInside
<1> QED
  BY <1>10, <1>12, <1>14

LEMMA EraseRowsStep ==
  ASSUME ObservationInd, NEW i \in Nat, EraseRows(i)
  PROVE  ObservationInd'
<1>1. ObservationTypes /\ Placed /\ Pointed /\ Told
  BY DEF ObservationInd
<1>2. PICK l \in Nat : l = Len(rows)
  BY <1>1, LenProperties DEF ObservationTypes
<1>3. /\ i + 1 \in 1 .. l /\ (rollingBack => i = l - 1)
      /\ ObservationTypes'
      /\ erased' = erased \union ({rows[i + 1]} \ {New})
      /\ moved' = IF i = l - 1 THEN moved ELSE moved \union ({rows[l]} \ {New})
      /\ ObjectsOf(observers)' =
           {observers[k].object : k \in {j \in 1 .. Len(observers) : observers[j].row # i}}
  BY <1>2, EraseRowsTypes
<1>4. /\ Len(observers') = Len(Staying(i))
      /\ \A k \in 1 .. Len(Staying(i)) : observers'[k] = Following(Staying(i)[k], i)
  BY <1>2, EraseRowsTypes
<1>5. PICK gone : gone = ObjectsOf(observers) \ ObjectsOf(Staying(i))
  OBVIOUS
<1>6. /\ invalidated' = invalidated \union gone
      /\ Freed(gone) /\ Deselected(rows[i + 1])
      /\ UNCHANGED <<rollingBack, marked, size, changed, lost>>
  BY <1>5 DEF EraseRows, Step, ObjectAt
<1>7. OneRowEach' /\ InPlace' /\ RowsInside'
  BY EraseRowsPlaces
<1>8. /\ ObjectsOf(observers)' = ObjectsOf(observers) \ gone
      /\ gone = ObjectsOf(observers) \ ObjectsOf(observers)'
      /\ Observed' = Observed
  <2>1. ObjectsOf(observers)' = ObjectsOf(Staying(i))
    BY <1>1, <1>3, StayingAre
  <2>2. ObjectsOf(observers)' \subseteq ObjectsOf(observers)
    BY <1>1, <1>3, WhoIsObserved
  <2> QED
    BY <1>5, <1>6, <2>1, <2>2 DEF Observed
<1>9. moved \subseteq moved'
  BY <1>3
<1>10. \A o \in ObjectsOf(observers) : o \in Objects /\ o # New
  BY <1>1, WhoIsObserved, EachObserver
<1>11. \A o \in gone \ moved : o = rows[i + 1] /\ o \in erased'
  <2> TAKE o \in gone \ moved
  <2>1. PICK k \in 1 .. Len(observers) : o = observers[k].object
    BY <1>1, <1>8, WhoIsObserved
  <2>2. observers[k].row = i
    BY <1>3, <1>8, <2>1
  <2>3. o = rows[i + 1]
    BY <1>1, <1>2, <1>3, <2>1, <2>2, InItsRow DEF Placed, ObjectAt
  <2> QED
    BY <1>3, <1>8, <1>10, <2>3
<1>12. selected' # NoList => selected' = selected /\ (selected \in Objects => selected # rows[i + 1])
  <2>1. New \notin Objects
    BY RealmObservationAssumption
  <2> QED
    BY <1>6, <2>1 DEF Deselected
<1>13. Observed' \intersect moved' = {} => Observed \intersect moved = {}
  BY <1>8, <1>9
<1>14. Sorted'
  <2> SUFFICES ASSUME rollingBack \/ Observed \intersect moved = {},
                      NEW a \in 1 .. Len(observers'), NEW b \in 1 .. Len(observers'), a < b
               PROVE  observers'[a].row < observers'[b].row
    BY <1>6, <1>13 DEF Sorted, InOrder
  <2>1. PICK c \in 1 .. Len(observers), d \in 1 .. Len(observers) :
          c < d /\ Staying(i)[a] = observers[c] /\ Staying(i)[b] = observers[d]
    BY <1>1, <1>4, StayingAre
  <2>2. ASSUME NEW k \in 1 .. Len(observers) PROVE Following(observers[k], i) = observers[k]
    <3>1. observers[k] \in ObserverStates /\ observers[k].object \in ObjectsOf(observers)
      BY <1>1, EachObserver, WhoIsObserved
    <3>2. rollingBack \/ observers[k].object \notin moved
      BY <3>1 DEF Observed
    <3>3. observers[k].row + 1 \in 1 .. Len(rows)
      BY <1>1, <3>2 DEF Placed, InPlace, RowsInside
    <3> QED
      BY <1>1, <1>2, <1>3, <3>1, <3>3, FollowingNone DEF ObservationTypes
  <2>3. observers'[a] = observers[c] /\ observers'[b] = observers[d]
    BY <1>4, <2>1, <2>2
  <2>4. InOrder
    BY <1>1 DEF Placed, Sorted
  <2> QED
    BY <2>1, <2>3, <2>4 DEF InOrder
<1>15. OnlyErased'
  <2>1. OnlyErased
    BY <1>1 DEF Placed
  <2> QED
    BY <1>3, <1>6, <1>9, <1>11, <2>1 DEF OnlyErased
<1>16. Told'
  BY <1>1, <1>6, <1>8, <1>9, <1>13 DEF Told, FieldsOf, ListOf
<1>17. Pointed'
  <2>1. ListFollowed /\ PointsInto /\ LostOnlyIfGrown
    BY <1>1 DEF Pointed
  <2>2. activeLinkList' = IF activeLinkList.object \in gone
                          THEN [activeLinkList EXCEPT !.dangling = TRUE] ELSE activeLinkList
    BY <1>6 DEF Freed
  <2>3. /\ activeLinkList'.object = activeLinkList.object
        /\ activeLinkList'.dangling => activeLinkList.dangling \/ activeLinkList.object \in gone
        /\ activeLinkList.dangling => activeLinkList'.dangling
    BY <1>1, <2>2 DEF ObservationTypes
  <2>4. ASSUME selected' \in Objects \ moved'
        PROVE  /\ selected' = selected /\ selected \in Objects \ moved /\ selected \notin gone
    <3>1. NoList \notin Objects
      BY RealmObservationAssumption
    <3>2. selected' = selected /\ selected \in Objects \ moved /\ selected # rows[i + 1]
      BY <1>9, <1>12, <2>4, <3>1
    <3> QED
      BY <1>11, <3>2
  <2>5. ListFollowed'
    <3>1. ASSUME selected' \in Objects \ moved'
          PROVE  activeLinkList'.object = IF selected' \in ObjectsOf(observers)' THEN selected' ELSE New
      BY <1>8, <2>1, <2>3, <2>4, <3>1 DEF ListFollowed
    <3>2. ASSUME activeLinkList'.object \in ObjectsOf(observers)' \ moved', selected' # NoList
          PROVE  selected' = activeLinkList'.object
      BY <1>8, <1>9, <1>12, <2>1, <2>3, <3>2 DEF ListFollowed
    <3> QED
      BY <3>1, <3>2 DEF ListFollowed
  <2>6. PointsInto'
    <3>1. ASSUME activeLinkList'.object # New, ~activeLinkList'.dangling
          PROVE  size'[activeLinkList'.object] > List
      BY <1>6, <2>1, <2>3, <3>1 DEF PointsInto
    <3>2. ASSUME selected' \in Objects \ moved', activeLinkList'.dangling
          PROVE  LaterChanged(selected)'
      <4>1. activeLinkList.dangling
        BY <1>8, <1>10, <2>1, <2>3, <2>4, <3>2 DEF ListFollowed
      <4>2. LaterChanged(selected)
        BY <2>1, <2>4, <3>2, <4>1 DEF PointsInto
      <4> QED
        BY <1>6, <2>4, <3>2, <4>2 DEF LaterChanged
    <3> QED
      BY <3>1, <3>2 DEF PointsInto
  <2>7. LostOnlyIfGrown'
    BY <1>6, <1>9, <2>1 DEF LostOnlyIfGrown
  <2> QED
    BY <2>5, <2>6, <2>7 DEF Pointed
<1> QED
  BY <1>3, <1>7, <1>14, <1>15, <1>16, <1>17 DEF ObservationInd, Placed

LEMMA TableClearedStep ==
  ASSUME ObservationInd, TableCleared
  PROVE  ObservationInd'
<1>1. /\ ~rollingBack
      /\ rows' = <<>>
      /\ erased' = erased \union (Range(rows) \ {New})
      /\ selected' = NoList
      /\ invalidated' = invalidated \union ObjectsOf(observers)
      /\ Freed(ObjectsOf(observers))
      /\ observers' = <<>>
      /\ UNCHANGED <<rollingBack, marked, size, changed, moved, lost>>
  BY DEF TableCleared, Step
<1>2. ObservationTypes /\ Placed /\ Pointed /\ Told
  BY DEF ObservationInd
<1>3. Len(observers') = 0 /\ Len(rows') = 0 /\ ObjectsOf(observers)' = {}
  BY <1>1 DEF ObjectsOf
<1>4. DOMAIN rows = 1 .. Len(rows) /\ \A j \in 1 .. Len(rows) : rows[j] \in Objects \union {New}
  BY <1>2, LenProperties, ElementOfSeq DEF ObservationTypes
<1>5. \A o \in ObjectsOf(observers) \ moved : o \in erased'
  <2> TAKE o \in ObjectsOf(observers) \ moved
  <2>1. PICK k \in 1 .. Len(observers) : o = observers[k].object
    BY <1>2, WhoIsObserved
  <2>2. PICK place \in 1 .. Len(rows) : rows[place] = o
    BY <1>2, <2>1 DEF Placed, InPlace
  <2>3. o # New
    BY <1>2, <2>1, EachObserver
  <2> QED
    BY <1>1, <1>4, <2>2, <2>3 DEF Range
<1>6. activeLinkList'.object = activeLinkList.object
      /\ (~activeLinkList'.dangling => ~activeLinkList.dangling)
      /\ activeLinkList' \in [object : Objects \union {New}, dangling : BOOLEAN]
  BY <1>1, <1>2 DEF Freed, ObservationTypes
<1>7. ObservationTypes'
  <2>1. <<>> \in Seq(ObserverStates) /\ <<>> \in Seq(Objects \union {New})
    BY EmptySeq
  <2>2. erased' \in SUBSET Objects
    BY <1>1, <1>2, <1>4 DEF ObservationTypes, Range
  <2> QED
    BY <1>1, <1>2, <1>6, <2>1, <2>2 DEF ObservationTypes
<1>8. Placed'
  <2>1. OneRowEach' /\ Sorted' /\ InPlace' /\ RowsInside'
    BY <1>3 DEF OneRowEach, Sorted, InOrder, InPlace, RowsInside
  <2>2. OnlyErased'
    <3>1. OnlyErased
      BY <1>2 DEF Placed
    <3> QED
      BY <1>1, <1>5, <3>1 DEF OnlyErased
  <2> QED
    BY <2>1, <2>2 DEF Placed
<1>9. Pointed'
  <2>1. ListFollowed /\ PointsInto /\ LostOnlyIfGrown
    BY <1>2 DEF Pointed
  <2>2. NoList \notin Objects
    BY RealmObservationAssumption
  <2>3. ListFollowed'
    BY <1>1, <1>3, <2>2 DEF ListFollowed
  <2>4. PointsInto'
    BY <1>1, <1>6, <2>1, <2>2 DEF PointsInto
  <2>5. LostOnlyIfGrown'
    BY <1>1, <2>1 DEF LostOnlyIfGrown
  <2> QED
    BY <2>3, <2>4, <2>5 DEF Pointed
<1>10. Told'
  BY <1>3 DEF Told
<1> QED
  BY <1>7, <1>8, <1>9, <1>10 DEF ObservationInd

-----------------------------------------------------------------------------
LEMMA ObservationInitInd == ObservationInit => ObservationInd
<1> SUFFICES ASSUME ObservationInit PROVE ObservationInd
  OBVIOUS
<1>1. PICK l \in Nat : l = Cardinality(Objects)
  BY FS_CardinalityType, RealmObservationAssumption
<1>2. /\ rows \in [1 .. l -> Objects]
      /\ \A i, j \in 1 .. l : i # j => rows[i] # rows[j]
  BY <1>1 DEF ObservationInit, SetToSeqs
<1>3. DOMAIN rows = 1 .. l /\ Len(rows) = l /\ rows \in Seq(Objects \union {New})
  <2>1. rows \in Seq(Objects)
    BY <1>2, SeqDef
  <2> QED
    BY <1>2, <2>1
<1>4. PICK all : all = [k \in 1 .. l |-> [object |-> rows[k], row |-> k - 1]]
  OBVIOUS
<1>5. all \in Seq(ObserverStates) /\ Len(all) = l
      /\ \A k \in 1 .. l : all[k].object = rows[k] /\ all[k].row = k - 1
  <2>1. ASSUME NEW k \in 1 .. l PROVE [object |-> rows[k], row |-> k - 1] \in ObserverStates
    <3>1. k - 1 \in Nat /\ rows[k] \in Objects
      BY <1>2
    <3> QED
      BY <3>1 DEF ObserverStates
  <2>2. all \in [1 .. l -> ObserverStates]
    BY <1>4, <2>1
  <2>3. all \in Seq(ObserverStates)
    BY <2>2, SeqDef
  <2>4. \A k \in 1 .. l : all[k] = [object |-> rows[k], row |-> k - 1]
    BY <1>4
  <2> QED
    BY <2>2, <2>3, <2>4
<1>6. PICK these : observers = Only(all, these)
  <2>1. \E some \in SUBSET Objects \ {{}} : observers = Only(all, [object : some, row : Nat])
    BY <1>3, <1>4 DEF ObservationInit
  <2> QED
    BY <2>1
<1>7. Keeps(observers, ObserverStates, all, these, l)
  BY <1>5, <1>6, OnlyKeeps
<1>8. /\ erased = {} /\ moved = {} /\ lost = {} /\ invalidated = {}
      /\ selected = NoList /\ activeLinkList = Nothing
      /\ marked = [o \in Objects |-> {}] /\ changed = [o \in Objects |-> {}]
  BY DEF ObservationInit
<1>9. ObservationTypes
  <2>1. observers \in Seq(ObserverStates)
    BY <1>7 DEF Keeps
  <2> QED
    BY <1>3, <2>1 DEF ObservationInit, ObservationTypes, Nothing
<1>10. OneRowEach
  BY <1>2, <1>3, <1>8 DEF OneRowEach
<1>11. InOrder
  <2> SUFFICES ASSUME NEW a \in 1 .. Len(observers), NEW b \in 1 .. Len(observers), a < b
               PROVE  observers[a].row < observers[b].row
    BY DEF InOrder
  <2>1. PICK i \in 1 .. l, j \in 1 .. l : i < j /\ observers[a] = all[i] /\ observers[b] = all[j]
    BY <1>7 DEF Keeps
  <2>2. observers[a].row = i - 1 /\ observers[b].row = j - 1
    BY <1>5, <2>1
  <2> QED
    BY <2>1, <2>2
<1>12. \A k \in 1 .. Len(observers) :
         /\ observers[k].row + 1 \in 1 .. Len(rows)
         /\ rows[observers[k].row + 1] = observers[k].object
  <2> TAKE k \in 1 .. Len(observers)
  <2>1. PICK j \in 1 .. l : observers[k] = all[j]
    BY <1>7 DEF Keeps
  <2>2. observers[k].object = rows[j] /\ observers[k].row + 1 = j
    BY <1>5, <2>1
  <2> QED
    BY <1>3, <2>2
<1>13. Placed
  BY <1>8, <1>10, <1>11, <1>12 DEF Placed, Sorted, InPlace, RowsInside, OnlyErased
<1>14. New \notin Objects /\ NoList \notin Objects
  BY RealmObservationAssumption
<1>15. \A o \in ObjectsOf(observers) : o \in Objects
  BY <1>9, WhoIsObserved, EachObserver
<1>16. Pointed
  BY <1>8, <1>14, <1>15
     DEF Pointed, ListFollowed, PointsInto, LostOnlyIfGrown, Nothing
<1>17. Told
  BY <1>8, <1>15 DEF Told, FieldsOf, ListOf
<1> QED
  BY <1>9, <1>13, <1>16, <1>17 DEF ObservationInd

LEMMA ObservationNextInd == ObservationInd /\ [ObservationNext]_observationVars => ObservationInd'
<1> SUFFICES ASSUME ObservationInd, [ObservationNext]_observationVars PROVE ObservationInd'
  OBVIOUS
<1>1. \A i \in 0 .. Cardinality(Objects) + MaxInstructions : i \in Nat
  BY FS_CardinalityType, RealmObservationAssumption
<1>2. ASSUME NEW i \in Nat, NEW column \in Fields, SetField(i, column) PROVE ObservationInd'
  BY <1>2, SetFieldStep
<1>3. ASSUME NEW i \in Nat, InsertRowsBack(i) PROVE ObservationInd'
  BY <1>3, InsertRowsBackStep
<1>4. ASSUME NEW i \in Nat, EraseRows(i) PROVE ObservationInd'
  BY <1>4, EraseRowsStep
<1>5. ASSUME NEW i \in Nat, SelectLinkList(i) PROVE ObservationInd'
  BY <1>5, SelectLinkListStep
<1>6. ASSUME NEW i \in Nat, LinkListChange(i) PROVE ObservationInd'
  BY <1>6, LinkListChangeStep
<1>7. CASE InsertEmptyRows
  BY <1>7, InsertEmptyRowsStep
<1>8. CASE TableCleared
  BY <1>8, TableClearedStep
<1>9. CASE UNCHANGED observationVars
  <2>1. UNCHANGED <<rollingBack, rows, observers, marked, size, activeLinkList, invalidated,
                    selected, changed, erased, moved, lost>>
    BY <1>9 DEF observationVars, handler, logState
  <2>2. ObjectsOf(observers)' = ObjectsOf(observers) /\ Observed' = Observed
    BY <2>1 DEF ObjectsOf, Observed
  <2>3. ObservationTypes'
    BY <2>1 DEF ObservationInd, ObservationTypes
  <2>4. Placed'
    BY <2>1, <2>2 DEF ObservationInd, Placed, OneRowEach, Sorted, InOrder, InPlace, RowsInside,
                      OnlyErased
  <2>5. Pointed' /\ Told'
    BY <2>1, <2>2 DEF ObservationInd, Pointed, ListFollowed, PointsInto, LaterChanged,
                      LostOnlyIfGrown, Told, FieldsOf, ListOf
  <2> QED
    BY <2>3, <2>4, <2>5 DEF ObservationInd
<1> QED
  BY <1>1, <1>2, <1>3, <1>4, <1>5, <1>6, <1>7, <1>8, <1>9 DEF ObservationNext

(* What observers hear of a log (TransactLogHandler, RLMObservation.mm) of   *)
(* any length, of a rollback too, of the objects it leaves in their rows     *)
(* whatever it erases or inserts around them: that they are gone, exactly    *)
(* when they are erased; of their fields nothing that does not change, and   *)
(* all that does unless the log is not rolled back and moved another         *)
(* observed object; of their lists what changes, or a change was lost to     *)
(* freed memory, which happens only if a later column of the object changed. *)
THEOREM ObservedAreTold == ObservationSpec => []ObserversTold
<1>1. ObservationInd => ObserversTold
  <2> SUFFICES ASSUME ObservationInd
               PROVE  Invalidated /\ FieldsTold /\ ListsTold /\ LostOnlyIfGrown
    BY DEF ObserversTold
  <2>1. ObservationTypes /\ Placed /\ Pointed /\ Told
    BY DEF ObservationInd
  <2>2. FieldsTold /\ ListsTold
    BY <2>1 DEF Told, FieldsOf, ListOf, FieldsTold, ListsTold
  <2>3. LostOnlyIfGrown
    BY <2>1 DEF Pointed
  <2>4. Invalidated
    <3> SUFFICES ASSUME NEW o \in Observed, o \notin moved PROVE o \in invalidated <=> o \in erased
      BY DEF Invalidated
    <3>1. o \in invalidated => o \in erased
      BY <2>1 DEF Placed, OnlyErased
    <3>2. ASSUME o \in ObjectsOf(observers) PROVE o \notin erased
      <4>1. PICK k \in 1 .. Len(observers) : o = observers[k].object
        BY <2>1, <3>2, WhoIsObserved
      <4>2. PICK place \in 1 .. Len(rows) : rows[place] = o
        BY <2>1, <4>1 DEF Placed, InPlace
      <4> QED
        BY <2>1, <4>2 DEF Placed, OneRowEach
    <3> QED
      BY <3>1, <3>2 DEF Observed
  <2> QED
    BY <2>2, <2>3, <2>4
<1> QED
  BY <1>1, ObservationInitInd, ObservationNextInd, PTL DEF ObservationSpec

-----------------------------------------------------------------------------
(* Without, step by step: what is kept of the first n places. *)
Keep(kept, s, indexes, n) == IF n \in indexes THEN kept ELSE Append(kept, s[n])

KeepsOf(f, S, s, indexes) ==
  /\ f[0] = <<>>
  /\ \A n \in 1 .. Len(s) : f[n] = Keep(f[n - 1], s, indexes, n)
  /\ \A n \in 0 .. Len(s) : f[n] \in Seq(S)

HowWithout(S, s, indexes) ==
  \E f : KeepsOf(f, S, s, indexes) /\ Without(s, indexes) = f[Len(s)]

LEMMA WithoutBySteps ==
  ASSUME NEW S, NEW s \in Seq(S), NEW indexes
  PROVE  HowWithout(S, s, indexes)
<1> DEFINE N == Len(s)
           kept == CHOOSE f : f = [n \in 0 .. N |->
                     IF n = 0 THEN <<>>
                     ELSE IF n \in indexes THEN f[n - 1] ELSE Append(f[n - 1], s[n])]
<1>1. Without(s, indexes) = kept[N]
  BY DEF Without
<1>2. PICK k \in Nat : k = N
  OBVIOUS
<1>3. PICK step : step = [n \in 1 .. k |-> [t \in Seq(S) |-> Keep(t, s, indexes, n)]]
  OBVIOUS
<1>4. StaysIn(Seq(S), k, step)
  <2> SUFFICES ASSUME NEW n \in 1 .. k, NEW t \in Seq(S) PROVE Keep(t, s, indexes, n) \in Seq(S)
    BY <1>3 DEF StaysIn
  <2>1. s[n] \in S
    BY <1>2
  <2>2. Append(t, s[n]) \in Seq(S)
    BY <2>1, AppendProperties
  <2> QED
    BY <2>2 DEF Keep
<1>5. HasIteration(Seq(S), k, <<>>, step)
  <2>1. <<>> \in Seq(S)
    BY EmptySeq
  <2> QED
    BY <1>4, <2>1, Iterated
<1>6. PICK f \in [0 .. k -> Seq(S)] :
        f[0] = <<>> /\ \A n \in 1 .. k : f[n] = step[n][f[n - 1]]
  BY <1>5 DEF HasIteration
<1>7. \A n \in 1 .. k : f[n] = Keep(f[n - 1], s, indexes, n)
  <2> SUFFICES ASSUME NEW n \in 1 .. k PROVE f[n] = Keep(f[n - 1], s, indexes, n)
    OBVIOUS
  <2>1. n - 1 \in 0 .. k
    OBVIOUS
  <2>2. f[n - 1] \in Seq(S)
    BY <2>1
  <2> QED
    BY <1>3, <1>6, <2>2
<1>8. f = [n \in 0 .. N |->
             IF n = 0 THEN <<>>
             ELSE IF n \in indexes THEN f[n - 1] ELSE Append(f[n - 1], s[n])]
  <2>1. \A n \in 0 .. k : n # 0 => n \in 1 .. k
    OBVIOUS
  <2> QED
    BY <1>2, <1>6, <1>7, <2>1, ZenonT(30) DEF Keep
<1>9. kept = [n \in 0 .. N |->
                IF n = 0 THEN <<>>
                ELSE IF n \in indexes THEN kept[n - 1] ELSE Append(kept[n - 1], s[n])]
  BY <1>8, Zenon
<1>10. PICK h : h = kept
  OBVIOUS
<1> HIDE DEF kept, N
<1>11. h = [n \in 0 .. k |->
              IF n = 0 THEN <<>>
              ELSE IF n \in indexes THEN h[n - 1] ELSE Append(h[n - 1], s[n])]
  BY <1>2, <1>9, <1>10, ZenonT(30)
<1>12. h[0] = <<>> /\ \A n \in 1 .. k : h[n] = Keep(h[n - 1], s, indexes, n)
  <2>1. 0 \in 0 .. k /\ \A n \in 1 .. k : n \in 0 .. k /\ n # 0
    OBVIOUS
  <2> QED
    BY <1>11, <2>1 DEF Keep
<1>13. \A n \in 0 .. k : h[n] = f[n]
  <2>1. PICK K : K = {n \in Nat : n <= k => h[n] = f[n]}
    OBVIOUS
  <2>2. 0 \in K
    BY <1>6, <1>12, <2>1
  <2>3. ASSUME NEW n \in Nat, n \in K PROVE n + 1 \in K
    <3> SUFFICES ASSUME n + 1 <= k PROVE h[n + 1] = f[n + 1]
      BY <2>1
    <3>1. n + 1 \in 1 .. k /\ (n + 1) - 1 = n
      OBVIOUS
    <3>2. h[n] = f[n]
      BY <2>1, <2>3
    <3>3. h[n + 1] = Keep(h[n], s, indexes, n + 1) /\ f[n + 1] = Keep(f[n], s, indexes, n + 1)
      BY <1>7, <1>12, <3>1
    <3> QED
      BY <3>2, <3>3, Zenon
  <2>4. \A n \in Nat : n \in K
    BY <2>2, <2>3, SetInduction
  <2> QED
    BY <2>1, <2>4
<1>14. KeepsOf(f, S, s, indexes)
  BY <1>2, <1>6, <1>7 DEF KeepsOf, N
<1>15. Without(s, indexes) = f[k]
  BY <1>1, <1>2, <1>10, <1>13
<1> QED
  BY <1>2, <1>14, <1>15 DEF HowWithout, N

(* With no indexes, and with all; how many places are kept. *)
LEMMA WithoutNone ==
  ASSUME NEW S, NEW s \in Seq(S)
  PROVE  Without(s, {}) = s
<1>1. PICK f : KeepsOf(f, S, s, {}) /\ Without(s, {}) = f[Len(s)]
  BY WithoutBySteps DEF HowWithout
<1>2. PICK l \in Nat : l = Len(s)
  OBVIOUS
<1>3. PICK K : K = {n \in Nat : n <= l => Len(f[n]) = n /\ \A k \in 1 .. n : f[n][k] = s[k]}
  OBVIOUS
<1>4. 0 \in K
  BY <1>1, <1>3, EmptySeq DEF KeepsOf
<1>5. ASSUME NEW n \in Nat, n \in K PROVE n + 1 \in K
  <2> SUFFICES ASSUME n + 1 <= l
               PROVE  Len(f[n + 1]) = n + 1 /\ \A k \in 1 .. n + 1 : f[n + 1][k] = s[k]
    BY <1>3
  <2>1. n \in 0 .. l /\ n + 1 \in 1 .. l /\ (n + 1) - 1 = n
    OBVIOUS
  <2>2. PICK q : q = f[n]
    OBVIOUS
  <2>3. q \in Seq(S) /\ s[n + 1] \in S /\ f[n + 1] = Append(q, s[n + 1])
    BY <1>1, <1>2, <2>1, <2>2 DEF KeepsOf, Keep
  <2>4. Len(q) = n /\ \A k \in 1 .. n : q[k] = s[k]
    BY <1>3, <1>5, <2>2
  <2>5. /\ Len(Append(q, s[n + 1])) = n + 1 /\ Append(q, s[n + 1])[n + 1] = s[n + 1]
        /\ \A k \in 1 .. n : Append(q, s[n + 1])[k] = q[k]
    BY <2>3, <2>4, AppendProperties
  <2>6. \A k \in 1 .. n + 1 : k = n + 1 \/ k \in 1 .. n
    OBVIOUS
  <2> QED
    BY <2>3, <2>4, <2>5, <2>6
<1>6. \A n \in Nat : n \in K
  BY <1>4, <1>5, SetInduction
<1>7. f[l] \in Seq(S)
  BY <1>1, <1>2 DEF KeepsOf
<1>8. Len(f[l]) = l /\ \A k \in 1 .. l : f[l][k] = s[k]
  BY <1>3, <1>6
<1> QED
  BY <1>1, <1>2, <1>7, <1>8, SeqEqual

LEMMA WithoutAll ==
  ASSUME NEW S, NEW s \in Seq(S)
  PROVE  Without(s, 1 .. Len(s)) = <<>>
<1>1. PICK f : KeepsOf(f, S, s, 1 .. Len(s)) /\ Without(s, 1 .. Len(s)) = f[Len(s)]
  BY WithoutBySteps DEF HowWithout
<1>2. PICK l \in Nat : l = Len(s)
  OBVIOUS
<1>3. PICK K : K = {n \in Nat : n <= l => f[n] = <<>>}
  OBVIOUS
<1>4. 0 \in K
  BY <1>1, <1>3 DEF KeepsOf
<1>5. ASSUME NEW n \in Nat, n \in K PROVE n + 1 \in K
  <2> SUFFICES ASSUME n + 1 <= l PROVE f[n + 1] = <<>>
    BY <1>3
  <2>1. n + 1 \in 1 .. l /\ (n + 1) - 1 = n
    OBVIOUS
  <2>2. f[n + 1] = f[n]
    BY <1>1, <1>2, <2>1 DEF KeepsOf, Keep
  <2> QED
    BY <1>3, <1>5, <2>2
<1>6. \A n \in Nat : n \in K
  BY <1>4, <1>5, SetInduction
<1> QED
  BY <1>1, <1>2, <1>3, <1>6

LEMMA WithoutCounts ==
  ASSUME NEW S, NEW s \in Seq(S), NEW indexes \in SUBSET (1 .. Len(s))
  PROVE  Without(s, indexes) \in Seq(S)
         /\ Len(Without(s, indexes)) + Cardinality(indexes) = Len(s)
         /\ Cardinality(indexes) \in Nat
<1>1. PICK f : KeepsOf(f, S, s, indexes) /\ Without(s, indexes) = f[Len(s)]
  BY WithoutBySteps DEF HowWithout
<1>2. PICK l \in Nat : l = Len(s)
  OBVIOUS
<1>3. PICK count : count = [n \in Nat |-> Cardinality(indexes \cap (1 .. n))]
  OBVIOUS
<1>4. ASSUME NEW n \in Nat
      PROVE  IsFiniteSet(indexes \cap (1 .. n)) /\ count[n] \in Nat
  <2>1. IsFiniteSet(1 .. n)
    BY FS_Interval
  <2>2. IsFiniteSet(indexes \cap (1 .. n))
    BY <2>1, FS_Subset
  <2>3. Cardinality(indexes \cap (1 .. n)) \in Nat
    BY <2>2, FS_CardinalityType
  <2> QED
    BY <1>3, <2>2, <2>3
<1>5. count[0] = 0
  <2>1. indexes \cap (1 .. 0) = {}
    OBVIOUS
  <2>2. Cardinality(indexes \cap (1 .. 0)) = 0
    BY <2>1, FS_EmptySet
  <2> QED
    BY <1>3, <2>2
<1>6. ASSUME NEW n \in Nat
      PROVE  count[n + 1] = IF n + 1 \in indexes THEN count[n] + 1 ELSE count[n]
  <2>1. count[n] = Cardinality(indexes \cap (1 .. n))
        /\ count[n + 1] = Cardinality(indexes \cap (1 .. (n + 1)))
    BY <1>3
  <2>2. CASE n + 1 \in indexes
    <3>1. indexes \cap (1 .. (n + 1)) = (indexes \cap (1 .. n)) \union {n + 1}
          /\ n + 1 \notin indexes \cap (1 .. n)
      BY <2>2
    <3>2. Cardinality((indexes \cap (1 .. n)) \union {n + 1})
            = Cardinality(indexes \cap (1 .. n)) + 1
      BY <1>4, <3>1, FS_AddElement
    <3> QED
      BY <2>1, <2>2, <3>1, <3>2, Zenon
  <2>3. CASE n + 1 \notin indexes
    <3>1. indexes \cap (1 .. (n + 1)) = indexes \cap (1 .. n)
      BY <2>3
    <3> QED
      BY <2>1, <2>3, <3>1, Zenon
  <2> QED
    BY <2>2, <2>3
<1>7. count[l] = Cardinality(indexes)
  <2>1. indexes \cap (1 .. l) = indexes
    BY <1>2
  <2> QED
    BY <1>3, <2>1
<1> DEFINE Sum(n) == Len(f[n]) + count[n] = n
<1> HIDE DEF Sum
<1>8. PICK K : K = {n \in Nat : n <= l => Sum(n)}
  OBVIOUS
<1>9. 0 \in K
  <2>1. f[0] = <<>> /\ Len(<<>>) = 0
    BY <1>1 DEF KeepsOf
  <2>2. Len(f[0]) = 0
    BY <2>1, Zenon
  <2>3. Sum(0)
    BY <1>5, <2>2 DEF Sum
  <2> QED
    BY <1>8, <2>3
<1>10. ASSUME NEW n \in Nat, n \in K PROVE n + 1 \in K
  <2> SUFFICES ASSUME n + 1 <= l PROVE Sum(n + 1)
    BY <1>8
  <2>1. n \in 0 .. l /\ n + 1 \in 1 .. l /\ (n + 1) - 1 = n
    OBVIOUS
  <2>2. PICK q : q = f[n]
    OBVIOUS
  <2>3. q \in Seq(S) /\ s[n + 1] \in S /\ f[n + 1] = Keep(q, s, indexes, n + 1)
    BY <1>1, <1>2, <2>1, <2>2 DEF KeepsOf
  <2>10. Sum(n)
    BY <1>8, <1>10
  <2>4. Len(q) \in Nat /\ Len(q) + count[n] = n /\ count[n] \in Nat
    <3>1. Len(q) + count[n] = n
      BY <2>2, <2>10, Zenon DEF Sum
    <3>2. Len(q) \in Nat
      BY <2>3, LenProperties
    <3> QED
      BY <1>4, <3>1, <3>2
  <2>5. Len(Keep(q, s, indexes, n + 1)) = IF n + 1 \in indexes THEN Len(q) ELSE Len(q) + 1
    BY <2>3, AppendProperties DEF Keep
  <2>6. Len(f[n + 1]) = IF n + 1 \in indexes THEN Len(q) ELSE Len(q) + 1
    BY <2>3, <2>5, Zenon
  <2>7. PICK a \in Nat : a = Len(q)
    BY <2>4
  <2>8. PICK b \in Nat : b = count[n]
    BY <2>4
  <2>9. count[n + 1] = IF n + 1 \in indexes THEN b + 1 ELSE b
    BY <1>6, <2>8, Zenon
  <2>11. PICK x : x = Len(f[n + 1])
    OBVIOUS
  <2>12. PICK y : y = count[n + 1]
    OBVIOUS
  <2>13. a + b = n /\ x = (IF n + 1 \in indexes THEN a ELSE a + 1)
         /\ y = (IF n + 1 \in indexes THEN b + 1 ELSE b)
    BY <2>4, <2>6, <2>7, <2>8, <2>9, <2>11, <2>12, Zenon
  <2>14. x + y = n + 1
    BY <2>13
  <2> QED
    BY <2>11, <2>12, <2>14, Zenon DEF Sum
<1>11. \A n \in Nat : n \in K
  BY <1>9, <1>10, SetInduction
<1>12. f[l] \in Seq(S)
  BY <1>1, <1>2 DEF KeepsOf
<1>14. Sum(l)
  BY <1>8, <1>11
<1>13. Len(f[l]) + count[l] = l /\ count[l] \in Nat
  BY <1>4, <1>14 DEF Sum
<1> QED
  BY <1>1, <1>2, <1>7, <1>12, <1>13

-----------------------------------------------------------------------------
(* A link more in a list, among those added: without them it is the list    *)
(* that it was.                                                              *)
LEMMA PlacesInserted ==
  ASSUME NEW l \in Nat, NEW indexes \in SUBSET (1 .. l), NEW i \in 1 .. l + 1
  PROVE  /\ WithInserted(indexes, i) \in SUBSET (1 .. l + 1)
         /\ i \in WithInserted(indexes, i)
         /\ \A n \in 1 .. l :
              IF n < i THEN n \in WithInserted(indexes, i) <=> n \in indexes
              ELSE n + 1 \in WithInserted(indexes, i) <=> n \in indexes
<1>1. \A n \in indexes : n \in 1 .. l
  OBVIOUS
<1>2. WithInserted(indexes, i) = {n \in 1 .. l + 1 : n = i \/ (n < i /\ n \in indexes)
                                                       \/ (n > i /\ n - 1 \in indexes)}
  <2>1. ASSUME NEW n \in WithInserted(indexes, i)
        PROVE  n \in 1 .. l + 1 /\ (n = i \/ (n < i /\ n \in indexes) \/ (n > i /\ n - 1 \in indexes))
    <3>1. CASE n = i
      BY <3>1
    <3>2. CASE n # i
      <4>1. PICK k \in indexes : n = IF k >= i THEN k + 1 ELSE k
        BY <2>1, <3>2 DEF WithInserted
      <4>2. k \in 1 .. l
        BY <1>1
      <4> QED
        BY <4>1, <4>2
    <3> QED
      BY <3>1, <3>2
  <2>2. ASSUME NEW n \in 1 .. l + 1, n = i \/ (n < i /\ n \in indexes) \/ (n > i /\ n - 1 \in indexes)
        PROVE  n \in WithInserted(indexes, i)
    <3>1. CASE n = i
      BY <3>1 DEF WithInserted
    <3>2. CASE n < i /\ n \in indexes
      <4>1. n = IF n >= i THEN n + 1 ELSE n
        BY <3>2
      <4> QED
        BY <3>2, <4>1 DEF WithInserted
    <3>3. CASE n > i /\ n - 1 \in indexes
      <4>1. PICK k \in indexes : k = n - 1
        BY <3>3
      <4>2. k \in 1 .. l
        BY <1>1
      <4>3. n = IF k >= i THEN k + 1 ELSE k
        BY <3>3, <4>1, <4>2
      <4> QED
        BY <4>3 DEF WithInserted
    <3> QED
      BY <2>2, <3>1, <3>2, <3>3
  <2> QED
    BY <2>1, <2>2
<1> QED
  BY <1>2

LEMMA WithoutInserted ==
  ASSUME NEW S, NEW s \in Seq(S), NEW indexes \in SUBSET (1 .. Len(s)),
         NEW i \in 1 .. Len(s) + 1, NEW e \in S
  PROVE  Without(InsertAt(s, i, e), WithInserted(indexes, i)) = Without(s, indexes)
<1>1. PICK f : KeepsOf(f, S, s, indexes) /\ Without(s, indexes) = f[Len(s)]
  BY WithoutBySteps DEF HowWithout
<1>2. PICK l \in Nat : l = Len(s)
  OBVIOUS
<1>3. PICK more \in Seq(S) : more = InsertAt(s, i, e)
  BY OneMore
<1>4. HasOneMore(more, s, i, e)
  BY <1>3, OneMore
<1>5. PICK J : J = WithInserted(indexes, i)
  OBVIOUS
<1>6. PICK g : KeepsOf(g, S, more, J) /\ Without(more, J) = g[Len(more)]
  BY WithoutBySteps DEF HowWithout
<1>7. Len(more) = l + 1
      /\ \A n \in 1 .. l : IF n < i THEN more[n] = s[n] ELSE more[n + 1] = s[n]
  BY <1>2, <1>4 DEF HasOneMore
<1>8. i \in J /\ \A n \in 1 .. l : IF n < i THEN n \in J <=> n \in indexes
                                   ELSE n + 1 \in J <=> n \in indexes
  BY <1>2, <1>5, PlacesInserted
<1>9. f[0] = <<>> /\ \A n \in 1 .. l : f[n] = Keep(f[n - 1], s, indexes, n)
  BY <1>1, <1>2 DEF KeepsOf
<1>10. g[0] = <<>> /\ \A n \in 1 .. l + 1 : g[n] = Keep(g[n - 1], more, J, n)
  BY <1>6, <1>7 DEF KeepsOf
<1>11. g[i] = g[i - 1]
  <2>1. i \in 1 .. l + 1
    BY <1>2
  <2> QED
    BY <1>8, <1>10, <2>1 DEF Keep
<1> DEFINE Same(n) == (n < i => g[n] = f[n]) /\ (n >= i - 1 => g[n + 1] = f[n])
<1>12. PICK K : K = {n \in Nat : n <= l => Same(n)}
  OBVIOUS
<1>13. 0 \in K
  <2>1. 0 >= i - 1 => i = 1 /\ i - 1 = 0 /\ 0 + 1 = i
    BY <1>2
  <2>2. Same(0)
    BY <1>9, <1>10, <1>11, <2>1
  <2> QED
    BY <1>12, <2>2
<1>14. ASSUME NEW n \in Nat, n \in K PROVE n + 1 \in K
  <2> SUFFICES ASSUME n + 1 <= l PROVE Same(n + 1)
    BY <1>12
  <2>1. n + 1 \in 1 .. l /\ (n + 1) - 1 = n /\ n + 1 \in 1 .. l + 1 /\ n <= l
    OBVIOUS
  <2>2. Same(n)
    <3> HIDE DEF Same
    <3> QED
      BY <1>12, <1>14, <2>1
  <2>3. f[n + 1] = Keep(f[n], s, indexes, n + 1)
    BY <1>9, <2>1
  <2>4. CASE n + 1 < i
    <3>1. g[n] = f[n]
      BY <1>2, <2>2, <2>4
    <3>2. g[n + 1] = Keep(g[n], more, J, n + 1)
      BY <1>10, <2>1
    <3>3. more[n + 1] = s[n + 1] /\ (n + 1 \in J <=> n + 1 \in indexes)
      BY <1>7, <1>8, <2>1, <2>4
    <3>4. g[n + 1] = f[n + 1]
      BY <2>3, <3>1, <3>2, <3>3, Zenon DEF Keep
    <3>5. n + 1 >= i - 1 => n + 1 = i - 1 /\ (n + 1) + 1 = i
      BY <1>2, <2>4
    <3> QED
      BY <1>11, <3>4, <3>5
  <2>5. CASE ~(n + 1 < i)
    <3>1. n >= i - 1 /\ (n + 1) + 1 \in 1 .. l + 1 /\ ((n + 1) + 1) - 1 = n + 1
      BY <1>2, <2>5
    <3>2. g[n + 1] = f[n]
      BY <2>2, <3>1
    <3>3. g[(n + 1) + 1] = Keep(g[n + 1], more, J, (n + 1) + 1)
      BY <1>10, <3>1
    <3>4. more[(n + 1) + 1] = s[n + 1] /\ ((n + 1) + 1 \in J <=> n + 1 \in indexes)
      BY <1>7, <1>8, <2>1, <2>5
    <3>6. PICK m : m = (n + 1) + 1
      OBVIOUS
    <3>7. g[m] = Keep(g[n + 1], more, J, m) /\ more[m] = s[n + 1]
          /\ (m \in J <=> n + 1 \in indexes)
      BY <3>3, <3>4, <3>6, Zenon
    <3>8. Keep(f[n], more, J, m) = Keep(f[n], s, indexes, n + 1)
      BY <3>7 DEF Keep
    <3>5. g[(n + 1) + 1] = f[n + 1]
      BY <2>3, <3>2, <3>6, <3>7, <3>8, Zenon
    <3> QED
      BY <2>5, <3>5
  <2> QED
    BY <2>4, <2>5
<1>15. \A n \in Nat : n \in K
  BY <1>13, <1>14, SetInduction
<1>16. l >= i - 1
  BY <1>2
<1>17. g[l + 1] = f[l]
  BY <1>12, <1>15, <1>16
<1> QED
  BY <1>1, <1>2, <1>3, <1>5, <1>6, <1>7, <1>17

-----------------------------------------------------------------------------
(* A link less in a list, among those taken away before: the index goes past *)
(* the places already taken, and comes to the place the link had.            *)
Past(at, indexes, i) == at + (IF i \in indexes /\ i <= at THEN 1 ELSE 0)

HowPassed(indexes, index) ==
  \E p \in [0 .. MaxLength -> Nat] :
    /\ p[0] = index
    /\ \A i \in 1 .. MaxLength : p[i] = Past(p[i - 1], indexes, i)
    /\ WithRemoved(indexes, index) = indexes \union {p[MaxLength]}

LEMMA PassedBySteps ==
  ASSUME NEW indexes, NEW index \in Nat
  PROVE  HowPassed(indexes, index)
<1> DEFINE past == CHOOSE f : f = [i \in 0 .. MaxLength |->
                     IF i = 0 THEN index
                     ELSE f[i - 1] + (IF i \in indexes /\ i <= f[i - 1] THEN 1 ELSE 0)]
<1>1. WithRemoved(indexes, index) = indexes \union {past[MaxLength]}
  BY DEF WithRemoved
<1>2. PICK k \in Nat : k = MaxLength
  BY ListChangesAssumption
<1>3. PICK step : step = [n \in 1 .. k |-> [at \in Nat |-> Past(at, indexes, n)]]
  OBVIOUS
<1>4. StaysIn(Nat, k, step)
  BY <1>3 DEF StaysIn, Past
<1>5. HasIteration(Nat, k, index, step)
  BY <1>4, Iterated
<1>6. PICK f \in [0 .. k -> Nat] :
        f[0] = index /\ \A n \in 1 .. k : f[n] = step[n][f[n - 1]]
  BY <1>5 DEF HasIteration
<1>7. \A n \in 1 .. k : f[n] = Past(f[n - 1], indexes, n)
  <2> SUFFICES ASSUME NEW n \in 1 .. k PROVE f[n] = Past(f[n - 1], indexes, n)
    OBVIOUS
  <2>1. n - 1 \in 0 .. k
    OBVIOUS
  <2>2. f[n - 1] \in Nat
    BY <2>1
  <2> QED
    BY <1>3, <1>6, <2>2
<1>8. f = [n \in 0 .. MaxLength |->
             IF n = 0 THEN index
             ELSE f[n - 1] + (IF n \in indexes /\ n <= f[n - 1] THEN 1 ELSE 0)]
  <2>1. \A n \in 0 .. k : n # 0 => n \in 1 .. k
    OBVIOUS
  <2> QED
    BY <1>2, <1>6, <1>7, <2>1 DEF Past
<1>9. past = [n \in 0 .. MaxLength |->
                IF n = 0 THEN index
                ELSE past[n - 1] + (IF n \in indexes /\ n <= past[n - 1] THEN 1 ELSE 0)]
  BY <1>8
<1>10. PICK h : h = past
  OBVIOUS
<1>11. h = [n \in 0 .. k |->
              IF n = 0 THEN index
              ELSE h[n - 1] + (IF n \in indexes /\ n <= h[n - 1] THEN 1 ELSE 0)]
  BY <1>2, <1>9, <1>10
<1> HIDE DEF past
<1>12. h[0] = index /\ \A n \in 1 .. k : h[n] = Past(h[n - 1], indexes, n)
  <2>1. 0 \in 0 .. k /\ \A n \in 1 .. k : n \in 0 .. k /\ n # 0
    OBVIOUS
  <2> QED
    BY <1>11, <2>1 DEF Past
<1>13. \A n \in 0 .. k : h[n] = f[n]
  <2>1. PICK K : K = {n \in Nat : n <= k => h[n] = f[n]}
    OBVIOUS
  <2>2. 0 \in K
    BY <1>6, <1>12, <2>1
  <2>3. ASSUME NEW n \in Nat, n \in K PROVE n + 1 \in K
    <3> SUFFICES ASSUME n + 1 <= k PROVE h[n + 1] = f[n + 1]
      BY <2>1
    <3>1. n + 1 \in 1 .. k /\ (n + 1) - 1 = n
      OBVIOUS
    <3>2. h[n] = f[n]
      BY <2>1, <2>3
    <3>3. h[n + 1] = Past(h[n], indexes, n + 1) /\ f[n + 1] = Past(f[n], indexes, n + 1)
      BY <1>7, <1>12, <3>1
    <3> QED
      BY <3>2, <3>3, Zenon
  <2>4. \A n \in Nat : n \in K
    BY <2>2, <2>3, SetInduction
  <2> QED
    BY <2>1, <2>4
<1>14. past[MaxLength] = f[k]
  BY <1>2, <1>10, <1>13
<1> QED
  BY <1>1, <1>2, <1>6, <1>7, <1>14 DEF HowPassed

(* While the index is ahead of the places looked at, it is ahead by as many  *)
(* kept links as there are still to come; then it stands at the index-th.    *)
Passing(f, indexes, j, at, n) ==
  IF at > n THEN at + Len(f[n]) = n + j
  ELSE at \in 1 .. n /\ at \notin indexes /\ Len(f[at]) = j

LEMMA OnePassed ==
  ASSUME NEW S, NEW s \in Seq(S), NEW indexes, NEW f, KeepsOf(f, S, s, indexes),
         NEW j \in Nat, NEW n \in Nat, n + 1 <= Len(s), NEW at \in Nat,
         Passing(f, indexes, j, at, n)
  PROVE  Passing(f, indexes, j, Past(at, indexes, n + 1), n + 1)
<1>1. PICK l \in Nat : l = Len(s)
  OBVIOUS
<1>2. n \in 0 .. l /\ n + 1 \in 1 .. l /\ (n + 1) - 1 = n
  BY <1>1
<1>3. PICK q : q = f[n]
  OBVIOUS
<1>4. q \in Seq(S) /\ s[n + 1] \in S /\ f[n + 1] = Keep(q, s, indexes, n + 1)
  BY <1>1, <1>2, <1>3 DEF KeepsOf
<1>5. PICK a \in Nat : a = Len(q)
  BY <1>4, LenProperties
<1>6. Len(f[n + 1]) = IF n + 1 \in indexes THEN a ELSE a + 1
  <2>1. Len(Keep(q, s, indexes, n + 1)) = IF n + 1 \in indexes THEN a ELSE a + 1
    BY <1>4, <1>5, AppendProperties DEF Keep
  <2> QED
    BY <1>4, <2>1, Zenon
<1>7. CASE at > n
  <2>1. at + a = n + j
    BY <1>3, <1>5, <1>7 DEF Passing
  <2>2. CASE n + 1 \in indexes
    <3>1. Past(at, indexes, n + 1) = at + 1 /\ at + 1 > n + 1
      BY <1>7, <2>2 DEF Past
    <3>2. Len(f[n + 1]) = a
      BY <1>6, <2>2
    <3> QED
      BY <2>1, <3>1, <3>2 DEF Passing
  <2>3. CASE n + 1 \notin indexes
    <3>1. Past(at, indexes, n + 1) = at
      BY <2>3 DEF Past
    <3>2. Len(f[n + 1]) = a + 1
      BY <1>6, <2>3
    <3>3. CASE at > n + 1
      BY <2>1, <3>1, <3>2, <3>3 DEF Passing
    <3>4. CASE at = n + 1
      <4>1. a + 1 = j
        BY <2>1, <3>4
      <4> QED
        BY <2>3, <3>1, <3>2, <3>4, <4>1 DEF Passing
    <3> QED
      BY <1>7, <3>3, <3>4
  <2> QED
    BY <2>2, <2>3
<1>8. CASE ~(at > n)
  <2>1. Past(at, indexes, n + 1) = at /\ at \in 1 .. n + 1 /\ ~(at > n + 1)
    BY <1>8 DEF Past, Passing
  <2> QED
    BY <1>8, <2>1 DEF Passing
<1> QED
  BY <1>7, <1>8

LEMMA PassedTo ==
  ASSUME NEW S, NEW s \in Seq(S), Len(s) <= MaxLength,
         NEW indexes \in SUBSET (1 .. Len(s)), NEW f, KeepsOf(f, S, s, indexes),
         NEW j \in 1 .. Len(f[Len(s)])
  PROVE  \E at \in 1 .. Len(s) :
           at \notin indexes /\ Len(f[at]) = j /\ WithRemoved(indexes, j) = indexes \union {at}
<1>1. PICK l \in Nat : l = Len(s)
  OBVIOUS
<1>2. PICK m \in Nat : m = MaxLength
  BY ListChangesAssumption
<1>3. l <= m
  BY <1>1, <1>2
<1>4. PICK a \in Nat : a = Len(f[l])
  BY <1>1, LenProperties DEF KeepsOf
<1>5. j \in 1 .. a
  BY <1>1, <1>4
<1>6. PICK p \in [0 .. m -> Nat] :
        /\ p[0] = j
        /\ \A i \in 1 .. m : p[i] = Past(p[i - 1], indexes, i)
        /\ WithRemoved(indexes, j) = indexes \union {p[m]}
  <2>1. j \in Nat
    BY <1>5
  <2>2. HowPassed(indexes, j)
    BY <2>1, PassedBySteps
  <2> QED
    BY <1>2, <2>2 DEF HowPassed
<1>7. PICK K : K = {n \in Nat : n <= l => Passing(f, indexes, j, p[n], n)}
  OBVIOUS
<1>8. 0 \in K
  <2>1. f[0] = <<>> /\ Len(<<>>) = 0
    BY DEF KeepsOf
  <2>2. Len(f[0]) = 0
    BY <2>1, Zenon
  <2>3. PICK z \in Nat : z = Len(f[0])
    BY <2>2
  <2>4. j + z = 0 + j /\ j > 0
    BY <1>5, <2>2, <2>3
  <2>5. Passing(f, indexes, j, j, 0)
    BY <2>3, <2>4 DEF Passing
  <2> QED
    BY <1>6, <1>7, <2>5
<1>9. ASSUME NEW n \in Nat, n \in K PROVE n + 1 \in K
  <2> SUFFICES ASSUME n + 1 <= l PROVE Passing(f, indexes, j, p[n + 1], n + 1)
    BY <1>7
  <2>1. n + 1 \in 1 .. m /\ (n + 1) - 1 = n /\ n \in 0 .. m
    BY <1>3
  <2>2. PICK at \in Nat : at = p[n]
    BY <2>1
  <2>3. Passing(f, indexes, j, at, n)
    BY <1>7, <1>9, <2>2
  <2>4. Passing(f, indexes, j, Past(at, indexes, n + 1), n + 1)
    BY <1>1, <1>5, <2>3, OnePassed
  <2>5. p[n + 1] = Past(at, indexes, n + 1)
    BY <1>6, <2>1, <2>2
  <2> QED
    BY <2>4, <2>5, Zenon
<1>10. \A n \in Nat : n \in K
  BY <1>8, <1>9, SetInduction
<1>11. Passing(f, indexes, j, p[l], l)
  BY <1>7, <1>10
<1>12. PICK at \in Nat : at = p[l]
  BY <1>3
<1>13. at \in 1 .. l /\ at \notin indexes /\ Len(f[at]) = j
  <2>1. CASE at > l
    <3>1. at + a = l + j
      BY <1>4, <1>11, <1>12, <2>1 DEF Passing
    <3> QED
      BY <1>5, <2>1, <3>1
  <2>2. CASE ~(at > l)
    BY <1>11, <1>12, <2>2 DEF Passing
  <2> QED
    BY <2>1, <2>2
<1>14. PICK M : M = {n \in Nat : l + n <= m => p[l + n] = at}
  OBVIOUS
<1>15. 0 \in M
  BY <1>12, <1>14
<1>16. ASSUME NEW n \in Nat, n \in M PROVE n + 1 \in M
  <2> SUFFICES ASSUME l + (n + 1) <= m PROVE p[l + (n + 1)] = at
    BY <1>14
  <2>1. l + (n + 1) \in 1 .. m /\ (l + (n + 1)) - 1 = l + n /\ l + n <= m
    OBVIOUS
  <2>2. p[l + n] = at
    BY <1>14, <1>16, <2>1
  <2>3. p[l + (n + 1)] = Past(at, indexes, l + (n + 1))
    BY <1>6, <2>1, <2>2
  <2>4. ~(l + (n + 1) <= at)
    BY <1>13
  <2> QED
    BY <2>3, <2>4 DEF Past
<1>17. \A n \in Nat : n \in M
  BY <1>15, <1>16, SetInduction
<1>18. m - l \in Nat /\ l + (m - l) = m
  BY <1>3
<1>19. p[m] = at
  <2>1. m - l \in M
    BY <1>17, <1>18
  <2> QED
    BY <1>14, <1>18, <2>1
<1> QED
  BY <1>1, <1>6, <1>13, <1>19

LEMMA WithoutRemoved ==
  ASSUME NEW S, NEW s \in Seq(S), Len(s) <= MaxLength,
         NEW indexes \in SUBSET (1 .. Len(s)), NEW j \in 1 .. Len(Without(s, indexes))
  PROVE  /\ WithRemoved(indexes, j) \in SUBSET (1 .. Len(s))
         /\ Without(s, WithRemoved(indexes, j)) = RemoveAt(Without(s, indexes), j)
<1>1. PICK f : KeepsOf(f, S, s, indexes) /\ Without(s, indexes) = f[Len(s)]
  BY WithoutBySteps DEF HowWithout
<1>2. PICK l \in Nat : l = Len(s)
  OBVIOUS
<1>20. j \in Nat
  BY <1>1, <1>2, LenProperties DEF KeepsOf
<1>3. PICK at \in 1 .. Len(s) :
        at \notin indexes /\ Len(f[at]) = j /\ WithRemoved(indexes, j) = indexes \union {at}
  BY <1>1, PassedTo
<1>4. PICK J : J = indexes \union {at}
  OBVIOUS
<1>5. PICK g : KeepsOf(g, S, s, J) /\ Without(s, J) = g[Len(s)]
  BY WithoutBySteps DEF HowWithout
<1>6. /\ f[0] = <<>> /\ \A n \in 1 .. l : f[n] = Keep(f[n - 1], s, indexes, n)
      /\ \A n \in 0 .. l : f[n] \in Seq(S)
  BY <1>1, <1>2 DEF KeepsOf
<1>7. /\ g[0] = <<>> /\ \A n \in 1 .. l : g[n] = Keep(g[n - 1], s, J, n)
      /\ \A n \in 0 .. l : g[n] \in Seq(S)
  BY <1>2, <1>5 DEF KeepsOf
<1> DEFINE Less(n) == Len(f[n]) >= j /\ HasOneLess(g[n], f[n], j)
           Same(n) == IF n < at THEN g[n] = f[n] ELSE Less(n)
<1>8. PICK K : K = {n \in Nat : n <= l => Same(n)}
  OBVIOUS
<1>9. 0 \in K
  BY <1>2, <1>3, <1>6, <1>7, <1>8
<1>10. ASSUME NEW n \in Nat, n \in K PROVE n + 1 \in K
  <2> HIDE DEF Less
  <2> SUFFICES ASSUME n + 1 <= l PROVE Same(n + 1)
    BY <1>8
  <2>1. n + 1 \in 1 .. l /\ (n + 1) - 1 = n /\ n \in 0 .. l /\ n + 1 \in 0 .. l
    OBVIOUS
  <2>2. Same(n)
    <3> HIDE DEF Same
    <3> QED
      BY <1>8, <1>10, <2>1
  <2>3. f[n + 1] = Keep(f[n], s, indexes, n + 1) /\ g[n + 1] = Keep(g[n], s, J, n + 1)
    BY <1>6, <1>7, <2>1
  <2>4. CASE n + 1 < at
    <3>1. g[n] = f[n]
      BY <1>2, <1>3, <2>2, <2>4
    <3>2. n + 1 \in J <=> n + 1 \in indexes
      BY <1>2, <1>3, <1>4, <2>4
    <3>4. Keep(f[n], s, J, n + 1) = Keep(f[n], s, indexes, n + 1)
      BY <3>2 DEF Keep
    <3>3. g[n + 1] = f[n + 1]
      BY <2>3, <3>1, <3>4, Zenon
    <3> QED
      BY <2>4, <3>3
  <2>5. CASE n + 1 = at
    <3>1. g[n] = f[n]
      BY <1>2, <1>3, <2>2, <2>5
    <3>2. n + 1 \in J /\ n + 1 \notin indexes
      BY <1>3, <1>4, <2>5
    <3>3. PICK q \in Seq(S) : q = f[n]
      BY <1>6, <2>1
    <3>4. g[n + 1] = q /\ f[n + 1] = Append(q, s[n + 1])
      BY <2>3, <3>1, <3>2, <3>3 DEF Keep
    <3>5. PICK w \in Seq(S) : w = Append(q, s[n + 1])
      BY <1>6, <2>1, <3>4
    <3>6. s[n + 1] \in S
      BY <1>2, <2>1
    <3>7. Len(w) = Len(q) + 1 /\ \A k \in 1 .. Len(q) : w[k] = q[k]
      BY <3>3, <3>5, <3>6, AppendProperties
    <3>8. Len(w) = j
      BY <1>3, <2>5, <3>4, <3>5
    <3>9. HasOneLess(q, w, j)
      BY <1>20, <3>3, <3>7, <3>8, SMTT(30) DEF HasOneLess
    <3>10. Less(n + 1)
      BY <1>20, <3>4, <3>5, <3>8, <3>9 DEF Less
    <3>11. ~(n + 1 < at)
      BY <2>5
    <3> QED
      BY <3>10, <3>11
  <2>6. CASE n + 1 > at
    <3>1. Less(n)
      BY <1>2, <1>3, <2>2, <2>6
    <3>2. n + 1 \in J <=> n + 1 \in indexes
      BY <1>2, <1>3, <1>4, <2>6
    <3>3. PICK q \in Seq(S) : q = f[n]
      BY <1>6, <2>1
    <3>4. PICK r \in Seq(S) : r = g[n]
      BY <1>7, <2>1
    <3>5. Len(q) >= j /\ HasOneLess(r, q, j)
      BY <3>1, <3>3, <3>4 DEF Less
    <3>6. s[n + 1] \in S
      BY <1>2, <2>1
    <3>7. CASE n + 1 \in indexes
      <4>1. f[n + 1] = f[n] /\ g[n + 1] = g[n]
        BY <2>3, <3>2, <3>7 DEF Keep
      <4> QED
        BY <2>6, <1>2, <1>3, <3>1, <4>1 DEF Less
    <3>8. CASE n + 1 \notin indexes
      <4>1. f[n + 1] = Append(q, s[n + 1]) /\ g[n + 1] = Append(r, s[n + 1])
        BY <2>3, <3>2, <3>3, <3>4, <3>8 DEF Keep
      <4>2. PICK w \in Seq(S) : w = Append(q, s[n + 1])
        BY <1>6, <2>1, <4>1
      <4>3. PICK v \in Seq(S) : v = Append(r, s[n + 1])
        BY <1>7, <2>1, <4>1
      <4>4. /\ Len(w) = Len(q) + 1 /\ w[Len(q) + 1] = s[n + 1]
            /\ \A k \in 1 .. Len(q) : w[k] = q[k]
        BY <3>6, <4>2, AppendProperties
      <4>5. /\ Len(v) = Len(r) + 1 /\ v[Len(r) + 1] = s[n + 1]
            /\ \A k \in 1 .. Len(r) : v[k] = r[k]
        BY <3>6, <4>3, AppendProperties
      <4>6. HasOneLess(v, w, j)
        <5>1. Len(r) + 1 = Len(q) /\ \A k \in 1 .. Len(r) : r[k] = IF k < j THEN q[k] ELSE q[k + 1]
          BY <3>5 DEF HasOneLess
        <5>2. Len(v) + 1 = Len(w)
          BY <4>4, <4>5, <5>1
        <5>3. ASSUME NEW k \in 1 .. Len(v) PROVE v[k] = IF k < j THEN w[k] ELSE w[k + 1]
          <6>1. CASE k = Len(v)
            <7>1. k = Len(q) /\ k = Len(r) + 1 /\ ~(k < j)
              BY <1>20, <3>5, <4>5, <5>1, <6>1
            <7> QED
              BY <4>4, <4>5, <7>1
          <6>2. CASE k # Len(v)
            <7>1. k \in 1 .. Len(r) /\ k \in 1 .. Len(q) /\ k + 1 \in 1 .. Len(q)
              BY <4>5, <5>1, <6>2
            <7> QED
              BY <4>4, <4>5, <5>1, <7>1
          <6> QED
            BY <6>1, <6>2
        <5> QED
          BY <5>2, <5>3 DEF HasOneLess
      <4>7. Len(w) >= j
        BY <1>20, <3>5, <4>4
      <4>8. Less(n + 1)
        BY <4>1, <4>2, <4>3, <4>6, <4>7 DEF Less
      <4>9. ~(n + 1 < at)
        BY <1>2, <1>3, <2>6
      <4> QED
        BY <4>8, <4>9
    <3> QED
      BY <3>7, <3>8
  <2> QED
    BY <1>2, <1>3, <2>4, <2>5, <2>6
<1>11. \A n \in Nat : n \in K
  BY <1>9, <1>10, SetInduction
<1>12. HasOneLess(g[l], f[l], j)
  <2>1. ~(l < at)
    BY <1>2, <1>3
  <2> QED
    BY <1>8, <1>11, <2>1
<1>13. PICK t \in Seq(S) : t = f[l]
  BY <1>6
<1>14. PICK u \in Seq(S) : u = g[l]
  BY <1>7
<1>15. j \in 1 .. Len(t)
  BY <1>1, <1>2, <1>13
<1>16. PICK v \in Seq(S) : v = RemoveAt(t, j)
  BY <1>15, OneLess
<1>17. HasOneLess(v, t, j) /\ HasOneLess(u, t, j)
  BY <1>12, <1>13, <1>14, <1>15, <1>16, OneLess
<1>18. u = v
  <2>1. Len(u) = Len(v)
    BY <1>17, LenProperties DEF HasOneLess
  <2>2. \A k \in 1 .. Len(u) : u[k] = v[k]
    BY <1>17, <2>1 DEF HasOneLess
  <2> QED
    BY <2>1, <2>2, SeqEqual
<1>19. WithRemoved(indexes, j) \in SUBSET (1 .. Len(s))
  BY <1>3
<1> QED
  BY <1>1, <1>2, <1>3, <1>4, <1>5, <1>13, <1>14, <1>16, <1>18, <1>19

-----------------------------------------------------------------------------
(* What each kind of change says of the list before and the list after.      *)
Kinds == {"Removal", "Insertion", "Replacement"}

ChangeRecords == [changed : BOOLEAN, multiple : BOOLEAN, kind : Kinds \union {"Setting"},
            given : BOOLEAN, indexes : SUBSET Nat]

Takes(longer, shorter, indexes) ==
  indexes \in SUBSET (1 .. Len(longer)) /\ Without(longer, indexes) = shorter

Replaced(s, t, indexes) ==
  Len(t) = Len(s) /\ \A i \in 1 .. Len(s) : i \notin indexes => t[i] = s[i]

Explained(s, t, kind, indexes) ==
  /\ indexes \in SUBSET Nat
  /\ kind = "Removal" => Takes(s, t, indexes)
  /\ kind = "Insertion" => Takes(t, s, indexes)
  /\ kind = "Replacement" => Replaced(s, t, indexes)

Untouched(s, t, c) == ~c.changed /\ ~c.given /\ ~c.multiple /\ t = s

GivenUp(c) == c.changed /\ ~c.given /\ c.multiple

OfOneKind(s, t, c) ==
  c.changed /\ c.given /\ ~c.multiple /\ c.kind \in Kinds /\ Explained(s, t, c.kind, c.indexes)

Tells(s, t, c) ==
  c \in ChangeRecords /\ (Untouched(s, t, c) \/ GivenUp(c) \/ OfOneKind(s, t, c))

LEMMA FirstRemoved ==
  ASSUME NEW j \in Nat
  PROVE  WithRemoved({}, j) = {j}
<1>1. PICK m \in Nat : m = MaxLength
  BY ListChangesAssumption
<1>2. HowPassed({}, j)
  BY PassedBySteps
<1>3. PICK p \in [0 .. m -> Nat] :
        /\ p[0] = j
        /\ \A i \in 1 .. m : p[i] = Past(p[i - 1], {}, i)
        /\ WithRemoved({}, j) = {} \union {p[m]}
  BY <1>1, <1>2 DEF HowPassed
<1>4. PICK K : K = {n \in Nat : n <= m => p[n] = j}
  OBVIOUS
<1>5. 0 \in K
  BY <1>3, <1>4
<1>6. ASSUME NEW n \in Nat, n \in K PROVE n + 1 \in K
  <2> SUFFICES ASSUME n + 1 <= m PROVE p[n + 1] = j
    BY <1>4
  <2>1. n + 1 \in 1 .. m /\ (n + 1) - 1 = n
    OBVIOUS
  <2>2. p[n] = j
    BY <1>4, <1>6
  <2>3. p[n + 1] = Past(j, {}, n + 1)
    BY <1>3, <2>1, <2>2
  <2> QED
    BY <2>3 DEF Past
<1>7. \A n \in Nat : n \in K
  BY <1>5, <1>6, SetInduction
<1>8. p[m] = j
  BY <1>4, <1>7
<1> QED
  BY <1>3, <1>8

LEMMA RemovalExplained ==
  ASSUME NEW S, NEW s \in Seq(S), Len(s) <= MaxLength, NEW t \in Seq(S),
         NEW j \in 1 .. Len(t), NEW indexes, Takes(s, t, indexes)
  PROVE  Takes(s, RemoveAt(t, j), WithRemoved(indexes, j))
  BY WithoutRemoved DEF Takes

LEMMA InsertionExplained ==
  ASSUME NEW S, NEW s \in Seq(S), NEW t \in Seq(S), NEW i \in 1 .. Len(t) + 1, NEW e \in S,
         NEW indexes, Takes(t, s, indexes)
  PROVE  Takes(InsertAt(t, i, e), s, WithInserted(indexes, i))
<1>1. PICK l \in Nat : l = Len(t)
  OBVIOUS
<1>2. Len(InsertAt(t, i, e)) = l + 1
  <2>1. HasOneMore(InsertAt(t, i, e), t, i, e)
    BY OneMore
  <2> QED
    BY <1>1, <2>1 DEF HasOneMore
<1>3. indexes \in SUBSET (1 .. l)
  BY <1>1 DEF Takes
<1>4. WithInserted(indexes, i) \in SUBSET (1 .. l + 1)
  BY <1>1, <1>3, PlacesInserted
<1>5. Without(InsertAt(t, i, e), WithInserted(indexes, i)) = Without(t, indexes)
  BY <1>1, <1>3, WithoutInserted
<1> QED
  BY <1>2, <1>4, <1>5 DEF Takes

LEMMA NothingTaken ==
  ASSUME NEW S, NEW s \in Seq(S)
  PROVE  Takes(s, s, {})
  BY WithoutNone DEF Takes

LEMMA ReplacementExplained ==
  ASSUME NEW s, NEW t, NEW u, NEW before, NEW now, Replaced(s, t, before), Replaced(t, u, now)
  PROVE  Replaced(s, u, before \union now)
  BY DEF Replaced

LEMMA NothingReplaced ==
  ASSUME NEW s
  PROVE  Replaced(s, s, {})
  BY DEF Replaced

-----------------------------------------------------------------------------
(* What is added to a change. *)
LEMMA AddTells ==
  ASSUME NEW s, NEW t, NEW u, NEW c, Tells(s, t, c), NEW kind \in Kinds, NEW i \in Nat,
         t = s => Explained(s, u, kind, {i}),
         Explained(s, t, kind, c.indexes) => Explained(s, u, kind, Together(kind, c.indexes, i))
  PROVE  Tells(s, u, Add(c, kind, i))
<1>1. c \in ChangeRecords
  BY DEF Tells
<1>2. CASE Untouched(s, t, c)
  <2>1. Add(c, kind, i) = [c EXCEPT !.changed = TRUE, !.given = TRUE, !.kind = kind, !.indexes = {i}]
    BY <1>2 DEF Untouched, Add
  <2>2. PICK d : d = [c EXCEPT !.changed = TRUE, !.given = TRUE, !.kind = kind, !.indexes = {i}]
    OBVIOUS
  <2>3. d \in ChangeRecords /\ d.changed /\ d.given /\ ~d.multiple /\ d.kind = kind /\ d.indexes = {i}
    BY <1>1, <1>2, <2>2 DEF ChangeRecords, Untouched, Kinds
  <2>4. Explained(s, u, kind, {i})
    BY <1>2 DEF Untouched
  <2>5. OfOneKind(s, u, d)
    BY <2>3, <2>4, Zenon DEF OfOneKind
  <2> QED
    BY <2>1, <2>2, <2>3, <2>5, Zenon DEF Tells
<1>3. CASE GivenUp(c)
  <2>1. Add(c, kind, i) = c
    BY <1>3 DEF GivenUp, Add
  <2> QED
    BY <1>1, <1>3, <2>1, Zenon DEF Tells
<1>4. CASE OfOneKind(s, t, c) /\ c.kind = kind
  <2>1. Explained(s, t, kind, c.indexes)
    BY <1>4, Zenon DEF OfOneKind
  <2>2. PICK I : I = Together(kind, c.indexes, i)
    OBVIOUS
  <2>3. Explained(s, u, kind, I)
    BY <2>1, <2>2
  <2>4. I \in SUBSET Nat
    BY <2>3 DEF Explained
  <2>5. Add(c, kind, i) = [c EXCEPT !.indexes = I]
    BY <1>1, <1>4, <2>2 DEF OfOneKind, Add, ChangeRecords
  <2>6. PICK d : d = [c EXCEPT !.indexes = I]
    OBVIOUS
  <2>7. d \in ChangeRecords /\ d.changed /\ d.given /\ ~d.multiple /\ d.kind = kind /\ d.indexes = I
    BY <1>1, <1>4, <2>4, <2>6 DEF ChangeRecords, OfOneKind, Kinds
  <2>8. OfOneKind(s, u, d)
    BY <2>3, <2>7, Zenon DEF OfOneKind
  <2> QED
    BY <2>5, <2>6, <2>7, <2>8, Zenon DEF Tells
<1>5. CASE OfOneKind(s, t, c) /\ c.kind # kind
  <2>1. Add(c, kind, i) = Several(c)
    BY <1>5 DEF OfOneKind, Add
  <2>2. Several(c) \in ChangeRecords /\ GivenUp(Several(c))
    BY <1>1, <1>5 DEF ChangeRecords, OfOneKind, Several, GivenUp
  <2> QED
    BY <2>1, <2>2, Zenon DEF Tells
<1> QED
  BY <1>2, <1>3, <1>4, <1>5 DEF Tells

LEMMA MoveTells ==
  ASSUME NEW s, NEW t, NEW u, NEW c, Tells(s, t, c), NEW from \in Nat, NEW to \in Nat,
         Replaced(t, u, from .. to)
  PROVE  Tells(s, u, MovedBetween(c, from, to))
<1>1. c \in ChangeRecords
  BY DEF Tells
<1>6. PICK between \in SUBSET Nat : between = from .. to
  OBVIOUS
<1>2. CASE Untouched(s, t, c)
  <2>1. PICK d : d = [c EXCEPT !.changed = TRUE, !.given = TRUE, !.kind = "Replacement",
                             !.indexes = from .. to]
    OBVIOUS
  <2>2. MovedBetween(c, from, to) = d
    BY <1>2, <2>1 DEF Untouched, MovedBetween
  <2>3. d \in ChangeRecords /\ d.changed /\ d.given /\ ~d.multiple /\ d.kind = "Replacement"
        /\ d.indexes = from .. to
    <3>1. d = [c EXCEPT !.changed = TRUE, !.given = TRUE, !.kind = "Replacement",
                        !.indexes = between]
      BY <1>6, <2>1
    <3> QED
      BY <1>1, <1>2, <1>6, <3>1 DEF ChangeRecords, Untouched, Kinds
  <2>4. Explained(s, u, "Replacement", from .. to)
    BY <1>2 DEF Untouched, Explained
  <2>5. OfOneKind(s, u, d)
    BY <2>3, <2>4 DEF OfOneKind, Kinds
  <2> QED
    BY <2>2, <2>3, <2>5, Zenon DEF Tells
<1>3. CASE GivenUp(c)
  <2>1. MovedBetween(c, from, to) = c
    BY <1>3 DEF GivenUp, MovedBetween
  <2> QED
    BY <1>1, <1>3, <2>1, Zenon DEF Tells
<1>4. CASE OfOneKind(s, t, c) /\ c.kind = "Replacement"
  <2>1. Explained(s, t, "Replacement", c.indexes)
    BY <1>4, Zenon DEF OfOneKind
  <2>2. PICK I \in SUBSET Nat : I = c.indexes \union from .. to
    BY <1>1, <1>6 DEF ChangeRecords
  <2>3. Replaced(s, u, I)
    BY <2>1, <2>2, ReplacementExplained DEF Explained
  <2>4. Explained(s, u, "Replacement", I)
    BY <2>3 DEF Explained
  <2>5. MovedBetween(c, from, to) = [c EXCEPT !.indexes = I]
    BY <1>1, <1>4, <2>2 DEF OfOneKind, MovedBetween, ChangeRecords
  <2>6. PICK d : d = [c EXCEPT !.indexes = I]
    OBVIOUS
  <2>7. d \in ChangeRecords /\ d.changed /\ d.given /\ ~d.multiple /\ d.kind = "Replacement"
        /\ d.indexes = I
    BY <1>1, <1>4, <2>6 DEF ChangeRecords, OfOneKind, Kinds
  <2>8. OfOneKind(s, u, d)
    BY <2>4, <2>7 DEF OfOneKind, Kinds
  <2> QED
    BY <2>5, <2>6, <2>7, <2>8, Zenon DEF Tells
<1>5. CASE OfOneKind(s, t, c) /\ c.kind # "Replacement"
  <2>1. MovedBetween(c, from, to) = Several(c)
    BY <1>5 DEF OfOneKind, MovedBetween
  <2>2. Several(c) \in ChangeRecords /\ GivenUp(Several(c))
    BY <1>1, <1>5 DEF ChangeRecords, OfOneKind, Several, GivenUp
  <2> QED
    BY <2>1, <2>2, Zenon DEF Tells
<1> QED
  BY <1>2, <1>3, <1>4, <1>5 DEF Tells

LEMMA ClearTells ==
  ASSUME NEW S, NEW s \in Seq(S), NEW t \in Seq(S), NEW c, Tells(s, t, c)
  PROVE  Tells(s, <<>>, Cleared(c, Len(t)))
<1>1. c \in ChangeRecords
  BY DEF Tells
<1>2. CASE GivenUp(c)
  <2>1. Cleared(c, Len(t)) = c
    BY <1>2 DEF GivenUp, Cleared
  <2> QED
    BY <1>1, <1>2, <2>1, Zenon DEF Tells
<1>3. CASE ~GivenUp(c)
  <2>1. ~c.multiple
    BY <1>3 DEF Tells, Untouched, OfOneKind
  <2>2. PICK l \in Nat : l = Len(s)
    OBVIOUS
  <2>3. PICK n \in Nat : n = Len(t)
    OBVIOUS
  <2> DEFINE Removal == c.given /\ c.kind = "Removal"
             Insertion == c.given /\ c.kind = "Insertion"
             before == IF Removal THEN n + Cardinality(c.indexes)
                       ELSE IF Insertion THEN n - Cardinality(c.indexes) ELSE n
  <2>4. before = l
    <3>1. CASE Removal
      <4>1. Takes(s, t, c.indexes)
        BY <1>3, <2>1, <3>1 DEF Tells, Untouched, OfOneKind, Explained
      <4>2. n + Cardinality(c.indexes) = l
        BY <2>2, <2>3, <4>1, WithoutCounts DEF Takes
      <4> QED
        BY <3>1, <4>2
    <3>2. CASE Insertion
      <4>1. Takes(t, s, c.indexes)
        BY <1>3, <2>1, <3>2 DEF Tells, Untouched, OfOneKind, Explained
      <4>2. l + Cardinality(c.indexes) = n /\ Cardinality(c.indexes) \in Nat
        BY <2>2, <2>3, <4>1, WithoutCounts DEF Takes
      <4> QED
        BY <3>2, <4>2
    <3>3. CASE ~Removal /\ ~Insertion
      <4>1. n = l
        BY <1>3, <2>1, <2>2, <2>3, <3>3
           DEF Tells, Untouched, OfOneKind, Explained, Replaced, Kinds
      <4> QED
        BY <3>3, <4>1
    <3> QED
      BY <3>1, <3>2, <3>3
  <2>5. PICK I : I = (IF Removal THEN c.indexes ELSE {}) \union 1 .. l
    OBVIOUS
  <2>6. I = 1 .. l
    <3>1. Removal => c.indexes \in SUBSET (1 .. l)
      BY <1>3, <2>1, <2>2 DEF Tells, Untouched, OfOneKind, Explained, Takes
    <3> QED
      BY <2>5, <3>1
  <2>7. PICK d : d = [c EXCEPT !.changed = TRUE, !.given = TRUE, !.kind = "Removal", !.indexes = I]
    OBVIOUS
  <2>8. Cleared(c, n) = d
    <3>1. PICK b : b = before
      OBVIOUS
    <3>2. b = l
      BY <2>4, <3>1
    <3>3. b = CASE c.given /\ c.kind = "Removal" -> n + Cardinality(c.indexes)
                [] c.given /\ c.kind = "Insertion" -> n - Cardinality(c.indexes)
                [] OTHER -> n
      BY <3>1
    <3>4. Cleared(c, n)
            = [c EXCEPT !.changed = TRUE, !.given = TRUE, !.kind = "Removal",
                        !.indexes = (IF c.given /\ c.kind = "Removal" THEN @ ELSE {})
                                    \union 1 .. b]
      BY <2>1, <3>3, Zenon DEF Cleared
    <3> QED
      BY <1>1, <2>5, <2>7, <3>2, <3>4 DEF ChangeRecords
  <2>9. d \in ChangeRecords /\ d.changed /\ d.given /\ ~d.multiple /\ d.kind = "Removal"
        /\ d.indexes = 1 .. l
    <3>1. I \in SUBSET Nat
      BY <2>6
    <3> QED
      BY <1>1, <2>1, <2>6, <2>7, <3>1 DEF ChangeRecords, Kinds
  <2>10. Takes(s, <<>>, 1 .. l)
    BY <2>2, WithoutAll DEF Takes
  <2>11. Explained(s, <<>>, "Removal", 1 .. l)
    BY <2>10 DEF Explained
  <2>12. OfOneKind(s, <<>>, d)
    BY <2>9, <2>11 DEF OfOneKind, Kinds
  <2> QED
    BY <2>3, <2>8, <2>9, <2>12, Zenon DEF Tells
<1> QED
  BY <1>2, <1>3

-----------------------------------------------------------------------------
(* The instructions. *)
ChangeInd ==
  /\ old \in Seq(Targets) /\ Len(old) <= MaxLength /\ list \in Seq(Targets)
  /\ Tells(old, list, change)

LEMMA LinkSet ==
  ASSUME NEW t \in Seq(Targets), NEW i \in 1 .. Len(t), NEW link \in Targets
  PROVE  [t EXCEPT ![i] = link] \in Seq(Targets) /\ Replaced(t, [t EXCEPT ![i] = link], {i})
  BY ExceptSeq DEF Replaced

LEMMA SetTells ==
  ASSUME NEW s, NEW t \in Seq(Targets), NEW c, Tells(s, t, c),
         NEW i \in 1 .. Len(t), NEW link \in Targets
  PROVE  Tells(s, [t EXCEPT ![i] = link], Add(c, "Replacement", i))
<1>1. PICK u : u = [t EXCEPT ![i] = link]
  OBVIOUS
<1>2. Replaced(t, u, {i})
  BY <1>1, LinkSet
<1>3. i \in Nat /\ {i} \in SUBSET Nat /\ "Replacement" \in Kinds
  BY DEF Kinds
<1>4. t = s => Explained(s, u, "Replacement", {i})
  BY <1>2, <1>3 DEF Explained
<1>5. ASSUME Explained(s, t, "Replacement", c.indexes)
      PROVE  Explained(s, u, "Replacement", Together("Replacement", c.indexes, i))
  <2>1. Together("Replacement", c.indexes, i) = c.indexes \union {i}
    BY DEF Together
  <2>2. Replaced(s, u, c.indexes \union {i})
    BY <1>2, <1>5, ReplacementExplained DEF Explained
  <2>3. c.indexes \union {i} \in SUBSET Nat
    BY <1>3, <1>5 DEF Explained
  <2> QED
    BY <2>1, <2>2, <2>3 DEF Explained
<1> QED
  BY <1>1, <1>3, <1>4, <1>5, AddTells

LEMMA SetInd ==
  ASSUME ChangeInd, NEW i, NEW link \in Targets, LinkListSet(i, link)
  PROVE  ChangeInd'
<1>1. i \in 1 .. Len(list)
  BY DEF ChangeInd, LinkListSet
<1>2. [list EXCEPT ![i] = link] \in Seq(Targets)
  BY <1>1, LinkSet DEF ChangeInd
<1>3. Tells(old, [list EXCEPT ![i] = link], Add(change, "Replacement", i))
  BY <1>1, SetTells DEF ChangeInd
<1>4. list' = [list EXCEPT ![i] = link] /\ change' = Add(change, "Replacement", i) /\ old' = old
  BY DEF LinkListSet, ListStep
<1> QED
  BY <1>2, <1>3, <1>4 DEF ChangeInd

LEMMA InsertInd ==
  ASSUME ChangeInd, NEW i, NEW link \in Targets, LinkListInsert(i, link)
  PROVE  ChangeInd'
<1>1. i \in 1 .. Len(list) + 1 /\ i \in Nat
  BY DEF ChangeInd, LinkListInsert
<1>2. PICK u : u = InsertAt(list, i, link)
  OBVIOUS
<1>3. u \in Seq(Targets) /\ list \in Seq(Targets) /\ old \in Seq(Targets)
  BY <1>1, <1>2, OneMore DEF ChangeInd
<1>4. ASSUME NEW indexes, Takes(list, old, indexes)
      PROVE  Explained(old, u, "Insertion", WithInserted(indexes, i))
  <2>1. Takes(u, old, WithInserted(indexes, i))
    BY <1>1, <1>2, <1>3, <1>4, InsertionExplained
  <2>2. WithInserted(indexes, i) \in SUBSET Nat
    BY <1>3, <2>1, LenProperties DEF Takes
  <2> QED
    BY <2>1, <2>2 DEF Explained
<1>5. list = old => Explained(old, u, "Insertion", {i})
  <2>1. WithInserted({}, i) = {i}
    BY DEF WithInserted
  <2>2. list = old => Takes(list, old, {})
    BY <1>3, NothingTaken
  <2> QED
    BY <1>4, <2>1, <2>2
<1>6. ASSUME Explained(old, list, "Insertion", change.indexes)
      PROVE  Explained(old, u, "Insertion", Together("Insertion", change.indexes, i))
  <2>1. Together("Insertion", change.indexes, i) = WithInserted(change.indexes, i)
    BY DEF Together
  <2>2. Takes(list, old, change.indexes)
    BY <1>6 DEF Explained
  <2>3. Explained(old, u, "Insertion", WithInserted(change.indexes, i))
    BY <1>4, <2>2
  <2> QED
    BY <2>1, <2>3, Zenon
<1>7. "Insertion" \in Kinds /\ Tells(old, list, change)
  BY DEF Kinds, ChangeInd
<1>8. Tells(old, u, Add(change, "Insertion", i))
  BY <1>1, <1>5, <1>6, <1>7, AddTells
<1>9. list' = u /\ change' = Add(change, "Insertion", i) /\ old' = old
  BY <1>2 DEF LinkListInsert, ListStep
<1> QED
  BY <1>3, <1>8, <1>9 DEF ChangeInd

LEMMA EraseInd ==
  ASSUME ChangeInd, NEW i, LinkListErase(i)
  PROVE  ChangeInd'
<1>1. i \in 1 .. Len(list) /\ i \in Nat
  BY DEF ChangeInd, LinkListErase
<1>2. PICK u : u = RemoveAt(list, i)
  OBVIOUS
<1>3. u \in Seq(Targets) /\ list \in Seq(Targets) /\ old \in Seq(Targets) /\ Len(old) <= MaxLength
  BY <1>1, <1>2, OneLess DEF ChangeInd
<1>4. ASSUME NEW indexes, Takes(old, list, indexes)
      PROVE  Explained(old, u, "Removal", WithRemoved(indexes, i))
  <2>1. Takes(old, u, WithRemoved(indexes, i))
    BY <1>1, <1>2, <1>3, <1>4, RemovalExplained
  <2>2. WithRemoved(indexes, i) \in SUBSET Nat
    BY <1>3, <2>1, LenProperties DEF Takes
  <2> QED
    BY <2>1, <2>2 DEF Explained
<1>5. list = old => Explained(old, u, "Removal", {i})
  <2>1. WithRemoved({}, i) = {i}
    BY <1>1, FirstRemoved
  <2>2. list = old => Takes(old, list, {})
    BY <1>3, NothingTaken
  <2> QED
    BY <1>4, <2>1, <2>2
<1>6. ASSUME Explained(old, list, "Removal", change.indexes)
      PROVE  Explained(old, u, "Removal", Together("Removal", change.indexes, i))
  <2>1. Together("Removal", change.indexes, i) = WithRemoved(change.indexes, i)
    BY DEF Together
  <2>2. Takes(old, list, change.indexes)
    BY <1>6 DEF Explained
  <2>3. Explained(old, u, "Removal", WithRemoved(change.indexes, i))
    BY <1>4, <2>2
  <2> QED
    BY <2>1, <2>3, Zenon
<1>7. "Removal" \in Kinds /\ Tells(old, list, change)
  BY DEF Kinds, ChangeInd
<1>8. Tells(old, u, Add(change, "Removal", i))
  BY <1>1, <1>5, <1>6, <1>7, AddTells
<1>9. list' = u /\ change' = Add(change, "Removal", i) /\ old' = old
  BY <1>2 DEF LinkListErase, ListStep
<1> QED
  BY <1>3, <1>8, <1>9 DEF ChangeInd

LEMMA SwapInd ==
  ASSUME ChangeInd, NEW i, NEW j, LinkListSwap(i, j)
  PROVE  ChangeInd'
<1>1. i \in 1 .. Len(list) /\ j \in 1 .. Len(list) /\ list \in Seq(Targets)
  BY DEF ChangeInd, LinkListSwap
<1>2. list[i] \in Targets /\ list[j] \in Targets
  BY <1>1
<1>3. PICK m : m = [list EXCEPT ![i] = list[j]]
  OBVIOUS
<1>4. m \in Seq(Targets) /\ Len(m) = Len(list)
  BY <1>1, <1>2, <1>3, ExceptSeq
<1>5. Tells(old, m, Add(change, "Replacement", i))
  BY <1>1, <1>2, <1>3, SetTells DEF ChangeInd
<1>6. PICK u : u = [m EXCEPT ![j] = list[i]]
  OBVIOUS
<1>7. u \in Seq(Targets)
  BY <1>1, <1>2, <1>4, <1>6, ExceptSeq
<1>8. Tells(old, u, Add(Add(change, "Replacement", i), "Replacement", j))
  BY <1>1, <1>2, <1>4, <1>5, <1>6, SetTells
<1>9. list' = u /\ old' = old /\ change' = Add(Add(change, "Replacement", i), "Replacement", j)
  BY <1>3, <1>6 DEF LinkListSwap, ListStep
<1> QED
  BY <1>7, <1>8, <1>9 DEF ChangeInd

(* A link moved: only what is between the two places is another one.        *)
LEMMA MovedWithin ==
  ASSUME NEW t \in Seq(Targets), NEW from \in 1 .. Len(t), NEW to \in 1 .. Len(t), NEW u,
         u = InsertAt(RemoveAt(t, from), to, t[from]), NEW low \in {from, to},
         NEW high \in {from, to}, low <= from, low <= to, from <= high, to <= high
  PROVE  u \in Seq(Targets) /\ Replaced(t, u, low .. high)
<1>1. PICK n \in Nat : n = Len(t)
  OBVIOUS
<1>2. PICK less \in Seq(Targets) : less = RemoveAt(t, from)
  BY OneLess
<1>3. HasOneLess(less, t, from)
  BY <1>2, OneLess
<1>4. Len(less) = n - 1 /\ \A k \in 1 .. n - 1 : less[k] = IF k < from THEN t[k] ELSE t[k + 1]
  BY <1>1, <1>2, <1>3, LenProperties DEF HasOneLess
<1>5. to \in 1 .. Len(less) + 1 /\ t[from] \in Targets
  BY <1>1, <1>4
<1>6. u \in Seq(Targets) /\ HasOneMore(u, less, to, t[from])
  BY <1>2, <1>5, OneMore
<1>7. /\ Len(u) = n
      /\ \A k \in 1 .. n : u[k] = IF k < to THEN less[k] ELSE IF k = to THEN t[from] ELSE less[k - 1]
  <2>1. Len(less) + 1 = n
    BY <1>1, <1>4
  <2> QED
    BY <1>6, <2>1 DEF HasOneMore
<1>8. ASSUME NEW k \in 1 .. n, k \notin low .. high PROVE u[k] = t[k]
  <2>1. CASE k < low
    <3>1. k < to /\ k < from /\ k \in 1 .. n - 1
      BY <1>1, <2>1
    <3> QED
      BY <1>4, <1>7, <3>1
  <2>2. CASE k > high
    <3>1. ~(k < to) /\ k # to /\ k - 1 \in 1 .. n - 1 /\ ~(k - 1 < from) /\ (k - 1) + 1 = k
      BY <1>1, <2>2
    <3> QED
      BY <1>4, <1>7, <3>1
  <2> QED
    BY <1>1, <1>8, <2>1, <2>2
<1> QED
  BY <1>1, <1>6, <1>7, <1>8 DEF Replaced

LEMMA MoveInd ==
  ASSUME ChangeInd, NEW from, NEW to, LinkListMove(from, to)
  PROVE  ChangeInd'
<1>1. /\ from \in 1 .. Len(list) /\ to \in 1 .. Len(list) /\ list \in Seq(Targets)
      /\ from \in Nat /\ to \in Nat
  BY DEF ChangeInd, LinkListMove
<1>2. PICK u : u = InsertAt(RemoveAt(list, from), to, list[from])
  OBVIOUS
<1>3. PICK c : c = IF from > to THEN MovedBetween(change, to, from)
                   ELSE MovedBetween(change, from, to)
  OBVIOUS
<1>4. u \in Seq(Targets) /\ Tells(old, u, c)
  <2>1. CASE from > to
    <3>3. to \in {from, to} /\ from \in {from, to} /\ to <= from /\ to <= to /\ from <= from
      BY <1>1, <2>1
    <3>1. u \in Seq(Targets) /\ Replaced(list, u, to .. from)
      BY <1>1, <1>2, <3>3, MovedWithin, Zenon
    <3>2. Tells(old, u, MovedBetween(change, to, from))
      BY <1>1, <3>1, MoveTells DEF ChangeInd
    <3> QED
      BY <1>3, <2>1, <3>1, <3>2, Zenon
  <2>2. CASE ~(from > to)
    <3>3. from \in {from, to} /\ to \in {from, to} /\ from <= to /\ from <= from /\ to <= to
      BY <1>1, <2>2
    <3>1. u \in Seq(Targets) /\ Replaced(list, u, from .. to)
      BY <1>1, <1>2, <3>3, MovedWithin, Zenon
    <3>2. Tells(old, u, MovedBetween(change, from, to))
      BY <1>1, <3>1, MoveTells DEF ChangeInd
    <3> QED
      BY <1>3, <2>2, <3>1, <3>2, Zenon
  <2> QED
    BY <2>1, <2>2
<1>5. list' = u /\ change' = c /\ old' = old
  BY <1>2, <1>3 DEF LinkListMove, ListStep
<1> QED
  BY <1>4, <1>5 DEF ChangeInd

LEMMA ClearInd ==
  ASSUME ChangeInd, LinkListClear
  PROVE  ChangeInd'
<1>1. Tells(old, <<>>, Cleared(change, Len(list)))
  BY ClearTells DEF ChangeInd
<1>2. list' = <<>> /\ change' = Cleared(change, Len(list)) /\ old' = old
  BY DEF LinkListClear, ListStep
<1>3. <<>> \in Seq(Targets)
  BY EmptySeq
<1> QED
  BY <1>1, <1>2, <1>3 DEF ChangeInd

LEMMA ListInitInd == ListInit => ChangeInd
<1> SUFFICES ASSUME ListInit PROVE ChangeInd
  OBVIOUS
<1>1. PICK m \in 0 .. MaxLength : old \in [1 .. m -> Targets]
  BY DEF ListInit, BoundedSeq, SeqOf
<1>2. m \in Nat /\ m <= MaxLength
  BY <1>1, ListChangesAssumption
<1>3. old \in Seq(Targets)
  BY <1>1, <1>2, SeqDef
<1>4. Len(old) = m
  BY <1>1, <1>2, <1>3, LenProperties
<1>5. change \in ChangeRecords /\ ~change.changed /\ ~change.given /\ ~change.multiple
  BY DEF ListInit, ChangeRecords, Kinds
<1>6. Tells(old, list, change)
  BY <1>5 DEF ListInit, Tells, Untouched
<1> QED
  BY <1>2, <1>3, <1>4, <1>6 DEF ListInit, ChangeInd

LEMMA ListNextInd == ChangeInd /\ [ListNext]_listVars => ChangeInd'
<1> SUFFICES ASSUME ChangeInd, [ListNext]_listVars PROVE ChangeInd'
  OBVIOUS
<1>1. CASE UNCHANGED listVars
  BY <1>1 DEF listVars, ChangeInd
<1>2. CASE ListNext
  <2>1. CASE LinkListClear
    BY <2>1, ClearInd
  <2>2. CASE ~LinkListClear
    <3>1. PICK i \in 1 .. MaxLength + 1 :
            \/ \E link \in Targets : LinkListSet(i, link) \/ LinkListInsert(i, link)
            \/ LinkListErase(i)
            \/ \E j \in 1 .. MaxLength : LinkListSwap(i, j) \/ LinkListMove(i, j)
      BY <1>2, <2>2 DEF ListNext
    <3> QED
      BY <3>1, SetInd, InsertInd, EraseInd, SwapInd, MoveInd
  <2> QED
    BY <2>1, <2>2
<1> QED
  BY <1>1, <1>2

LEMMA IndExplains == ChangeInd => TheChangeExplainsTheList
<1> SUFFICES ASSUME ChangeInd PROVE TheChangeExplainsTheList
  OBVIOUS
<1>1. CASE Untouched(old, list, change)
  BY <1>1 DEF Untouched, TheChangeExplainsTheList
<1>2. CASE GivenUp(change)
  BY <1>2 DEF GivenUp, TheChangeExplainsTheList
<1>3. CASE OfOneKind(old, list, change)
  <2>1. DOMAIN old = 1 .. Len(old) /\ DOMAIN list = 1 .. Len(list)
    BY DEF ChangeInd
  <2>2. CASE change.kind = "Removal"
    BY <1>3, <2>1, <2>2 DEF OfOneKind, Explained, Takes, TheChangeExplainsTheList
  <2>3. CASE change.kind = "Insertion"
    BY <1>3, <2>1, <2>3 DEF OfOneKind, Explained, Takes, TheChangeExplainsTheList
  <2>4. CASE change.kind = "Replacement"
    BY <1>3, <2>1, <2>4 DEF OfOneKind, Explained, Replaced, TheChangeExplainsTheList
  <2> QED
    BY <1>3, <2>2, <2>3, <2>4 DEF OfOneKind, Kinds
<1> QED
  BY <1>1, <1>2, <1>3 DEF ChangeInd, Tells

(* The changes of one list: the kind and the indexes that the observers are  *)
(* told lead from the list before the transactions to the list after them,   *)
(* whatever the instructions in the log and in whatever order.               *)
THEOREM ChangeExplainsTheList == ListSpec => []TheChangeExplainsTheList
<1>1. ListInit => ChangeInd
  BY ListInitInd
<1>2. ChangeInd /\ [ListNext]_listVars => ChangeInd'
  BY ListNextInd
<1>3. ChangeInd => TheChangeExplainsTheList
  BY IndExplains
<1> QED
  BY <1>1, <1>2, <1>3, PTL DEF ListSpec

=============================================================================
