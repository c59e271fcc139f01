-------------------------- MODULE BadgeKeeperProofs --------------------------
(***************************************************************************)
(* The facade proved: its network layer, its safety properties, and that   *)
(* it implements the outbox, for every number of users, keys, values,      *)
(* requests and launches.                                                  *)
(*                                                                         *)
(* The facade drives the network layer and nothing else, so that layer's   *)
(* invariant (ServiceInd) holds of it.  What the facade needs beside it is *)
(* where a pair can be: Owned and SentInOrder are inductive once it is     *)
(* known that tasks are created in order and carry nothing before (Fresh). *)
(* The rewards follow from where each handler is in its answer.            *)
(***************************************************************************)
EXTENDS BadgeKeeperOutbox, BKSampleController, TLAPS

-----------------------------------------------------------------------------
(* The network layer, for every number of tasks and every set of results. *)

(* The success block of a task was called before anything of it runs: what  *)
(* OneBlockPerTask needs to know of a handler that a crash cuts short.      *)
HandlingCalledSuccess ==
  \A t \in Tasks : task[t] = "handling" => called[t] = <<"json">>

ServiceInd ==
  /\ ServiceTypeOK
  /\ OneBlockPerTask
  /\ HandlingCalledSuccess
  /\ HandlersSerial
  /\ AnswersAreReal

(* The first element makes a sequence of one. *)
LEMMA AppendToEmpty == ASSUME NEW x PROVE Append(<<>>, x) = <<x>>
  OBVIOUS

(* Different blocks make different sequences of one. *)
LEMMA SingletonInjective == ASSUME NEW x, NEW y, <<x>> = <<y>> PROVE x = y
<1>1. <<x>>[1] = x /\ <<y>>[1] = y
  OBVIOUS
<1> QED
  BY <1>1

(* The inductive invariant holds when nothing was sent (BKApiService.m:27). *)
LEMMA ServiceInitInd == ServiceInit => ServiceInd
<1> SUFFICES ASSUME ServiceInit PROVE ServiceInd
  OBVIOUS
<1> USE DEF ServiceInit
<1>1. ServiceTypeOK
  BY DEF ServiceTypeOK, TaskStates, Replies
<1>2. OneBlockPerTask
  BY DEF OneBlockPerTask
<1>3. HandlingCalledSuccess /\ HandlersSerial
  BY DEF HandlingCalledSuccess, HandlersSerial, Tasks, NoTask
<1>4. AnswersAreReal
  BY DEF AnswersAreReal, NoReply
<1> QED
  BY <1>1, <1>2, <1>3, <1>4 DEF ServiceInd

(* Creating a task (BKApiService.m:87). *)
LEMMA SendRequestInd ==
  ASSUME ServiceInd, NEW t \in Tasks, SendRequest(t)
  PROVE  ServiceInd'
<1> USE DEF ServiceInd, SendRequest
<1>1. ServiceTypeOK'
  BY DEF ServiceTypeOK, TaskStates
<1>2. OneBlockPerTask'
  BY DEF OneBlockPerTask, ServiceTypeOK
<1>3. HandlingCalledSuccess' /\ HandlersSerial'
  BY DEF HandlingCalledSuccess, HandlersSerial, ServiceTypeOK
<1>4. AnswersAreReal'
  BY DEF AnswersAreReal, ServiceTypeOK
<1> QED
  BY <1>1, <1>2, <1>3, <1>4

(* The server carries a request out (external). *)
LEMMA ServerAcceptsInd ==
  ASSUME ServiceInd, NEW t \in Tasks, NEW rs \in Results, ServerAccepts(t, rs)
  PROVE  ServiceInd'
<1> USE DEF ServiceInd, ServerAccepts, Reaches
<1>1. ServiceTypeOK'
  BY DEF ServiceTypeOK, Replies
<1>2. OneBlockPerTask' /\ HandlingCalledSuccess' /\ HandlersSerial'
  BY DEF OneBlockPerTask, HandlingCalledSuccess, HandlersSerial
<1>3. AnswersAreReal'
  <2> USE DEF AnswersAreReal, ServiceTypeOK
  <2>0. /\ Len(applied) \in Nat
        /\ DOMAIN applied = 1 .. Len(applied)
        /\ DOMAIN applied' = 1 .. Len(applied) + 1
        /\ \A i \in 1 .. Len(applied) : applied'[i] = applied[i]
        /\ applied'[Len(applied) + 1] = t
    OBVIOUS
  <2>1. \A i \in DOMAIN applied : applied[i] # t
    <3>1. reply[t].status # "accepted"
      BY DEF NoReply
    <3> QED
      BY <3>1
  <2>2. \A i, j \in DOMAIN applied' : applied'[i] = applied'[j] => i = j
    BY <2>0, <2>1
  <2>3. ASSUME NEW s \in Tasks
        PROVE  (\E i \in DOMAIN applied' : applied'[i] = s) <=> reply'[s].status = "accepted"
    <3>1. CASE s = t
      <4>1. applied'[Len(applied) + 1] = t /\ Len(applied) + 1 \in DOMAIN applied'
        BY <2>0
      <4>2. reply'[t].status = "accepted"
        BY DEF Acceptance
      <4> QED
        BY <3>1, <4>1, <4>2
    <3>2. CASE s # t
      <4>1. (\E i \in DOMAIN applied' : applied'[i] = s) <=> (\E i \in DOMAIN applied : applied[i] = s)
        BY <2>0, <3>2
      <4>2. reply'[s] = reply[s]
        BY <3>2
      <4> QED
        BY <4>1, <4>2
    <3> QED
      BY <3>1, <3>2
  <2>4. \A s \in Tasks : /\ reply'[s] # NoReply => task'[s] # "new"
                         /\ called'[s] = <<"json">> => reply'[s] # NoReply
    BY DEF NoReply, Acceptance
  <2> QED
    BY <2>2, <2>3, <2>4
<1> QED
  BY <1>1, <1>2, <1>3

(* The server refuses a request (external). *)
LEMMA ServerRejectsInd ==
  ASSUME ServiceInd, NEW t \in Tasks, ServerRejects(t)
  PROVE  ServiceInd'
<1> USE DEF ServiceInd, ServerRejects, Reaches
<1>1. ServiceTypeOK'
  BY DEF ServiceTypeOK, Replies
<1>2. OneBlockPerTask' /\ HandlingCalledSuccess' /\ HandlersSerial'
  BY DEF OneBlockPerTask, HandlingCalledSuccess, HandlersSerial
<1>3. AnswersAreReal'
  BY DEF AnswersAreReal, ServiceTypeOK, NoReply, Rejection
<1> QED
  BY <1>1, <1>2, <1>3

(* The handler leaves through failure (BKApiService.m:64-68, 75-79). *)
LEMMA HandlerFailsInd ==
  ASSUME ServiceInd, NEW t \in Tasks,
         NEW code \in {INTERNAL_SERVER_ERROR, PARSING_JSON_ERROR},
         HandlerFails(t, code)
  PROVE  ServiceInd'
<1> USE DEF ServiceInd, HandlerFails, Ended
<1>1. called[t] = <<>> /\ called'[t] = <<code>>
  <2>1. called[t] = <<>>
    BY DEF OneBlockPerTask
  <2>2. called'[t] = Append(called[t], code)
    BY DEF ServiceTypeOK
  <2> QED
    BY <2>1, <2>2, AppendToEmpty
<1>2. code # "json" /\ code \in ServiceBlocks
  BY DEF INTERNAL_SERVER_ERROR, PARSING_JSON_ERROR, ServiceBlocks
<1>3. ServiceTypeOK'
  BY <1>2 DEF ServiceTypeOK, TaskStates
<1>4. OneBlockPerTask'
  BY <1>1 DEF OneBlockPerTask, ServiceTypeOK
<1>5. HandlingCalledSuccess' /\ HandlersSerial'
  BY DEF HandlingCalledSuccess, HandlersSerial, ServiceTypeOK, NoTask, Tasks
<1>6. AnswersAreReal'
  <2>1. called'[t] # <<"json">>
    BY <1>1, <1>2, SingletonInjective
  <2> QED
    BY <2>1 DEF AnswersAreReal, ServiceTypeOK
<1> QED
  BY <1>3, <1>4, <1>5, <1>6

(* The handler calls success (BKApiService.m:81). *)
LEMMA HandlerCallsSuccessInd ==
  ASSUME ServiceInd, NEW t \in Tasks, HandlerCallsSuccess(t)
  PROVE  ServiceInd'
<1> USE DEF ServiceInd, HandlerCallsSuccess, CallSuccess, HasDocument
<1>1. called[t] = <<>> /\ called'[t] = <<"json">>
  <2>1. called[t] = <<>>
    BY DEF OneBlockPerTask
  <2>2. called'[t] = Append(called[t], "json")
    BY DEF ServiceTypeOK
  <2> QED
    BY <2>1, <2>2, AppendToEmpty
<1>2. ServiceTypeOK'
  BY DEF ServiceTypeOK, TaskStates, ServiceBlocks
<1>3. OneBlockPerTask'
  BY <1>1 DEF OneBlockPerTask, ServiceTypeOK
<1>4. HandlingCalledSuccess' /\ HandlersSerial'
  BY <1>1 DEF HandlingCalledSuccess, HandlersSerial, ServiceTypeOK, NoTask, Tasks
<1>5. AnswersAreReal'
  BY <1>1 DEF AnswersAreReal, ServiceTypeOK
<1> QED
  BY <1>2, <1>3, <1>4, <1>5

(* The handler returns (BKApiService.m:84). *)
LEMMA HandlerReturnsInd ==
  ASSUME ServiceInd, NEW t \in Tasks, HandlerReturns(t)
  PROVE  ServiceInd'
<1> USE DEF ServiceInd, HandlerReturns, NextHandler
<1>1. task[t] = "handling" /\ called[t] = <<"json">>
  BY DEF HandlersSerial, HandlingCalledSuccess
<1>2. ServiceTypeOK'
  BY DEF ServiceTypeOK, TaskStates
<1>3. OneBlockPerTask'
  BY <1>1 DEF OneBlockPerTask, ServiceTypeOK
<1>4. HandlingCalledSuccess' /\ HandlersSerial'
  BY <1>1 DEF HandlingCalledSuccess, HandlersSerial, ServiceTypeOK, NoTask, Tasks
<1>5. AnswersAreReal'
  BY <1>1 DEF AnswersAreReal, ServiceTypeOK
<1> QED
  BY <1>2, <1>3, <1>4, <1>5

(* The process ends between any two steps. *)
LEMMA ServiceCrashInd ==
  ASSUME ServiceInd, ServiceCrash
  PROVE  ServiceInd'
<1> USE DEF ServiceInd, ServiceCrash
<1>1. ServiceTypeOK'
  BY DEF ServiceTypeOK, TaskStates
<1>2. OneBlockPerTask'
  BY DEF OneBlockPerTask, HandlingCalledSuccess, ServiceTypeOK
<1>3. HandlingCalledSuccess' /\ HandlersSerial'
  BY DEF HandlingCalledSuccess, HandlersSerial, ServiceTypeOK, NoTask, Tasks
<1>4. AnswersAreReal'
  BY DEF AnswersAreReal, ServiceTypeOK
<1> QED
  BY <1>1, <1>2, <1>3, <1>4

(* Every step of the network layer keeps the inductive invariant. *)
LEMMA ServiceNextInd == ServiceInd /\ [ServiceNext]_serviceVars => ServiceInd'
<1> SUFFICES ASSUME ServiceInd, [ServiceNext]_serviceVars
             PROVE  ServiceInd'
  OBVIOUS
<1>1. CASE ServiceCrash
  BY <1>1, ServiceCrashInd
<1>2. ASSUME NEW t \in Tasks, SendRequest(t)
      PROVE  ServiceInd'
  BY <1>2, SendRequestInd
<1>3. ASSUME NEW t \in Tasks, ServerStep(t)
      PROVE  ServiceInd'
  BY <1>3, ServerAcceptsInd, ServerRejectsInd DEF ServerStep
<1>4. ASSUME NEW t \in Tasks, HandlerStep(t)
      PROVE  ServiceInd'
  BY <1>4, HandlerFailsInd, HandlerCallsSuccessInd, HandlerReturnsInd
     DEF HandlerStep, HandlerTransportError, HandlerParsingError
<1>5. CASE UNCHANGED serviceVars
  BY <1>5 DEF serviceVars, ServiceInd, ServiceTypeOK, OneBlockPerTask,
              HandlingCalledSuccess, HandlersSerial, AnswersAreReal
<1> QED
  BY <1>1, <1>2, <1>3, <1>4, <1>5 DEF ServiceNext

(* The type invariant, that one block is called once for a request, that    *)
(* handlers are serial and that answers are what the server did             *)
(* (BKApiService.m:63-84), in every state of every behaviour.               *)
THEOREM ServiceSafe ==
  ServiceSpec => [](ServiceTypeOK /\ ServiceSound)
<1>1. ServiceSpec => []ServiceInd
  BY ServiceInitInd, ServiceNextInd, PTL DEF ServiceSpec
<1>2. ServiceInd => ServiceTypeOK /\ ServiceSound
  BY DEF ServiceInd, ServiceSound
<1> QED
  BY <1>1, <1>2, PTL

-----------------------------------------------------------------------------
(* The facade. *)

(* Tasks are created in the order of their numbers and carry a request from *)
(* then on.                                                                *)
Fresh ==
  /\ \A t \in Tasks : task[t] = "new" => packet[t] = NoPacket
  /\ \A s, t \in Tasks : s < t /\ task[s] = "new" => task[t] = "new"

(* Values are only sent for a user.                                         *)
ValuesHaveUser == \A t \in Tasks : packet[t].kind \in Kinds => packet[t].user \in Users

(* No pair is of a later launch than this one.                              *)
MadeByNow == \A p \in DOMAIN pair : pair[p].launch <= launch

(* What the application was told follows the answer the server gave.        *)
ToldTheReply ==
  \A t \in Tasks :
    /\ task[t] = "done" <=> Len(callback[t]) = 1
    /\ task[t] # "done" => callback[t] = <<>>
    /\ callback[t] = <<"success">> => reply[t].status = "accepted"
    /\ callback[t] = <<"ApiError">> => reply[t].status = "rejected"

Placed == Fresh /\ ValuesHaveUser /\ MadeByNow /\ Owned /\ SentInOrder /\ NothingMislaid

Ind == ServiceInd /\ TypeOK /\ Placed /\ ToldTheReply

-----------------------------------------------------------------------------
(* The facade uses the network layer only through its operations.          *)

(* Every step of the facade is a step of the network layer or leaves it     *)
(* alone: nothing else touches tasks and handlers (BadgeKeeper.m:262).      *)
LEMMA FacadeStepIsServiceStep == [Next]_vars => [ServiceNext]_serviceVars
<1> SUFFICES ASSUME [Next]_vars PROVE [ServiceNext]_serviceVars
  OBVIOUS
<1>1. ASSUME NEW t \in Tasks, Call(t) PROVE ServiceNext
  <2>1. SendRequest(t)
    BY <1>1 DEF Call, SendPreparedValues, SendPreparedValuesForUserId,
                GetProjectAchievements, GetUserAchievements, SendPacket
  <2> QED
    BY <2>1 DEF ServiceNext
<1>2. ASSUME NEW t \in Tasks, ServerAnswers(t) PROVE ServiceNext
  <2>1. ServerStep(t)
    BY <1>2 DEF ServerAnswers, ServerStep
  <2> QED
    BY <2>1 DEF ServiceNext
<1>3. ASSUME NEW t \in Tasks, Handler(t) PROVE [ServiceNext]_serviceVars
  <2>1. HandlerStep(t) \/ UNCHANGED serviceVars
    BY <1>3 DEF Handler, TransportFailure, ParsingFailure, ReceiveJSON, ApiFailure,
                SaveReward, DeliverSuccess, HandlerStep
  <2> QED
    BY <2>1 DEF ServiceNext
<1>4. ASSUME NEW u, SetUserId(u) \/ SetProjectId(u) PROVE UNCHANGED serviceVars
  BY <1>4 DEF SetUserId, SetProjectId
<1>5. ASSUME NEW kind, NEW k, PrepareValue(kind, k) PROVE UNCHANGED serviceVars
  BY <1>5 DEF PrepareValue
<1>6. ASSUME NEW kind, NEW u, SendPreparedValuesIgnored(kind, u) PROVE UNCHANGED serviceVars
  BY <1>6 DEF SendPreparedValuesIgnored, vars
<1>7. CASE Crash
  BY <1>7 DEF Crash, ServiceNext
<1>8. CASE UNCHANGED vars
  BY <1>8 DEF vars
<1> QED
  BY <1>1, <1>2, <1>3, <1>4, <1>5, <1>6, <1>7, <1>8 DEF Next

(* BadgeKeeper implements the specification of the network layer it is      *)
(* built on, whatever the bounds: composing them adds no behaviour to it.   *)
THEOREM FacadeImplementsService == Spec => ServiceSpec
<1>1. Init => ServiceInit
  BY DEF Init
<1> QED
  BY <1>1, FacadeStepIsServiceStep, PTL DEF Spec, ServiceSpec

-----------------------------------------------------------------------------
(* The initial state. *)

(* Nothing is prepared, sent or told when the singleton is made             *)
(* (BadgeKeeper.m:59-67).                                                   *)
LEMMA InitInd == Init => Ind
<1> SUFFICES ASSUME Init PROVE Ind
  OBVIOUS
<1> USE DEF Init
<1>1. ServiceInd
  BY ServiceInitInd
<1>2. TypeOK
  BY <1>1, BadgeKeeperAssumption DEF ServiceInd, TypeOK, Empty
<1>3. Fresh /\ ValuesHaveUser /\ MadeByNow /\ NothingMislaid
  BY DEF ServiceInit, Fresh, ValuesHaveUser, MadeByNow, NothingMislaid, NoPacket, Kinds
<1>4. Owned /\ SentInOrder
  BY DEF Owned, SentInOrder, Increasing, AllBefore, SameQueue, NoPacket, Empty
<1>5. ToldTheReply
  BY DEF ServiceInit, ToldTheReply
<1> QED
  BY <1>1, <1>2, <1>3, <1>4, <1>5 DEF Ind, Placed

-----------------------------------------------------------------------------
(* Steps that leave the pairs where they are. *)

(* A step that neither moves a pair nor creates a task keeps every pair     *)
(* where it was.                                                           *)
LEMMA QuietPlaced ==
  ASSUME Placed, UNCHANGED <<prepared, packet, pair, launch>>,
         \A t \in Tasks : task'[t] = "new" <=> task[t] = "new"
  PROVE  Placed'
<1>1. Fresh' /\ ValuesHaveUser' /\ MadeByNow' /\ NothingMislaid'
  BY DEF Placed, Fresh, ValuesHaveUser, MadeByNow, NothingMislaid
<1>2. Owned' /\ SentInOrder'
  BY DEF Placed, Owned, MadeFor, SentInOrder, SameQueue, Increasing, AllBefore
<1> QED
  BY <1>1, <1>2 DEF Placed

(* A step that tells the application nothing and ends no handler keeps what *)
(* it was told in line with the replies.                                   *)
LEMMA QuietTold ==
  ASSUME ToldTheReply, UNCHANGED callback,
         \A t \in Tasks : task'[t] = "done" <=> task[t] = "done",
         \A t \in Tasks : reply[t].status # "none" => reply'[t] = reply[t]
  PROVE  ToldTheReply'
  BY DEF ToldTheReply

(* The application sets a property (BadgeKeeper.h:42-48).                   *)
LEMMA SetPropertyInd ==
  ASSUME Ind,
         \/ \E u \in Users \cup {Nil} : SetUserId(u)
         \/ \E p \in Projects \cup {Nil} : SetProjectId(p)
  PROVE  TypeOK' /\ Placed' /\ ToldTheReply'
<1>1. TypeOK'
  BY DEF Ind, TypeOK, ServiceTypeOK, SetUserId, SetProjectId, serviceVars
<1>2. UNCHANGED <<serviceVars, prepared, packet, callback, pair, launch>>
  BY DEF SetUserId, SetProjectId
<1>3. Placed' /\ ToldTheReply'
  BY <1>2, QuietPlaced, QuietTold DEF Ind, serviceVars
<1> QED
  BY <1>1, <1>3

(* The server answers (external).                                          *)
LEMMA ServerAnswersInd ==
  ASSUME Ind, ServiceInd', NEW t \in Tasks, ServerAnswers(t)
  PROVE  TypeOK' /\ Placed' /\ ToldTheReply'
<1>1. /\ UNCHANGED <<task, facadeVars>>
      /\ \A s \in Tasks : reply[s].status # "none" => reply'[s] = reply[s]
  BY DEF ServerAnswers, ServerAccepts, ServerRejects, Reaches, NoReply, Ind, TypeOK, ServiceTypeOK
<1>2. TypeOK'
  BY <1>1 DEF Ind, ServiceInd, TypeOK, facadeVars
<1>3. Placed' /\ ToldTheReply'
  BY <1>1, QuietPlaced, QuietTold DEF Ind, facadeVars
<1> QED
  BY <1>2, <1>3

-----------------------------------------------------------------------------
(* Steps of the session's queue. *)

(* The handler of t ends and the application's block is called: the failure *)
(* blocks and the success block (BadgeKeeper.m:262-272).                    *)
LEMMA NotifyInd ==
  ASSUME Ind, ServiceInd', NEW t \in Tasks, NEW what \in Callbacks,
         Notify(t, what),
         task[t] \in {"resumed", "handling"},
         task' = [task EXCEPT ![t] = "done"],
         what = "success" => reply[t].status = "accepted",
         what = "ApiError" => reply[t].status = "rejected",
         saved' \in Nat,
         UNCHANGED <<reply, clientVars, packet, rewards, pair, launch>>
  PROVE  TypeOK' /\ Placed' /\ ToldTheReply'
<1>1. callback[t] = <<>> /\ callback' = [callback EXCEPT ![t] = <<what>>]
  <2>1. callback[t] = <<>>
    BY DEF Ind, ToldTheReply
  <2>2. Append(callback[t], what) = <<what>>
    BY <2>1, AppendToEmpty
  <2> QED
    BY <2>1, <2>2 DEF Notify
<1>2. TypeOK'
  BY <1>1 DEF Ind, ServiceInd, TypeOK, clientVars
<1>3. Placed'
  <2>1. \A s \in Tasks : task'[s] = "new" <=> task[s] = "new"
    BY DEF Ind, TypeOK, ServiceTypeOK
  <2> QED
    BY <2>1, QuietPlaced DEF Ind, clientVars
<1>4. ToldTheReply'
  <2>1. /\ callback'[t] = <<what>>
        /\ Len(callback'[t]) = 1
        /\ \A s \in Tasks \ {t} : callback'[s] = callback[s]
    BY <1>1 DEF Ind, TypeOK
  <2>2. \A y : <<what>> = <<y>> => what = y
    BY SingletonInjective
  <2>3. task'[t] = "done" /\ \A s \in Tasks \ {t} : task'[s] = task[s]
    BY DEF Ind, TypeOK, ServiceTypeOK
  <2>4. /\ callback'[t] = <<"success">> => reply'[t].status = "accepted"
        /\ callback'[t] = <<"ApiError">> => reply'[t].status = "rejected"
    BY <2>1, <2>2
  <2>5. ASSUME NEW s \in Tasks \ {t}
        PROVE  /\ task'[s] = "done" <=> Len(callback'[s]) = 1
               /\ task'[s] # "done" => callback'[s] = <<>>
               /\ callback'[s] = <<"success">> => reply'[s].status = "accepted"
               /\ callback'[s] = <<"ApiError">> => reply'[s].status = "rejected"
    BY <2>1, <2>3 DEF Ind, ToldTheReply
  <2> QED
    BY <2>1, <2>3, <2>4, <2>5 DEF ToldTheReply
<1> QED
  BY <1>2, <1>3, <1>4

(* A step of the queue on which the application's block is not called yet.  *)
LEMMA ReceiveJSONInd ==
  ASSUME Ind, ServiceInd', NEW t \in Tasks, ReceiveJSON(t)
  PROVE  TypeOK' /\ Placed' /\ ToldTheReply'
<1>1. /\ UNCHANGED <<reply, facadeVars>>
      /\ task[t] = "resumed"
      /\ task' = [task EXCEPT ![t] = "handling"]
  BY DEF ReceiveJSON, HandlerCallsSuccess, CallSuccess
<1>2. TypeOK'
  BY <1>1 DEF Ind, ServiceInd, TypeOK, facadeVars
<1>3. \A s \in Tasks : /\ task'[s] = "new" <=> task[s] = "new"
                       /\ task'[s] = "done" <=> task[s] = "done"
  BY <1>1 DEF Ind, TypeOK, ServiceTypeOK
<1> QED
  BY <1>1, <1>2, <1>3, QuietPlaced, QuietTold DEF Ind, facadeVars

(* A reward is stored (BadgeKeeper.m:217-221): its row is one of the        *)
(* table's, because only requests for a user have rewards to save.          *)
LEMMA SaveRewardInd ==
  ASSUME Ind, NEW t \in Tasks, SaveReward(t)
  PROVE  TypeOK' /\ Placed' /\ ToldTheReply'
<1>1. UNCHANGED <<serviceVars, clientVars, packet, callback, pair, launch>>
  BY DEF SaveReward
<1>2. packet[t].kind \in Kinds /\ saved < Len(reply[t].rewards)
  <2>1. saved \in Nat
    BY DEF Ind, TypeOK
  <2> QED
    BY <2>1 DEF SaveReward, ToSave, Granted
<1>3. reply[t].rewards \in Seq(RewardNames)
  <2>1. reply[t] \in Replies
    BY DEF Ind, TypeOK, ServiceTypeOK
  <2>2. NoReply.rewards \in Results /\ Rejection.rewards \in Results
    BY ServiceAssumption DEF NoReply, Rejection
  <2>3. \A rs \in Results : Acceptance(rs).rewards \in Results
    BY DEF Acceptance
  <2>4. reply[t].rewards \in Results
    BY <2>1, <2>2, <2>3 DEF Replies
  <2> QED
    BY <2>4, ServiceAssumption
<1>4. NextRow(t) \in Row
  <2>1. saved \in Nat /\ saved + 1 \in 1 .. Len(reply[t].rewards)
    BY <1>2, <1>3 DEF Ind, TypeOK
  <2>2. reply[t].rewards[saved + 1] \in RewardNames
    BY <1>3, <2>1
  <2>3. packet[t].user \in Users
    BY <1>2 DEF Ind, Placed, ValuesHaveUser
  <2> QED
    BY <2>1, <2>2, <2>3 DEF NextRow, RowOf, Row
<1>5. TypeOK'
  BY <1>1, <1>4 DEF SaveReward, Ind, TypeOK, ServiceTypeOK, serviceVars, clientVars
<1> QED
  BY <1>1, <1>5, QuietPlaced, QuietTold DEF Ind, serviceVars, clientVars

(* Every step of the session's queue. *)
LEMMA HandlerInd ==
  ASSUME Ind, ServiceInd', NEW t \in Tasks, Handler(t)
  PROVE  TypeOK' /\ Placed' /\ ToldTheReply'
<1>1. saved \in Nat /\ 0 \in Nat
  BY DEF Ind, TypeOK
<1>2. CASE TransportFailure(t) \/ ParsingFailure(t)
  BY <1>1, <1>2, NotifyInd
     DEF TransportFailure, ParsingFailure, HandlerTransportError, HandlerParsingError,
         HandlerFails, Ended, Callbacks, INTERNAL_SERVER_ERROR, PARSING_JSON_ERROR
<1>3. CASE ApiFailure(t) \/ DeliverSuccess(t)
  <2>1. task[t] = "handling"
    BY <1>3 DEF ApiFailure, DeliverSuccess, HandlerReturns, Ind, ServiceInd, HandlersSerial
  <2> QED
    BY <1>1, <1>3, <2>1, NotifyInd
       DEF ApiFailure, DeliverSuccess, HandlerReturns, NoError, Callbacks
<1>4. CASE ReceiveJSON(t)
  BY <1>4, ReceiveJSONInd
<1>5. CASE SaveReward(t)
  BY <1>5, SaveRewardInd
<1> QED
  BY <1>2, <1>3, <1>4, <1>5 DEF Handler

-----------------------------------------------------------------------------
(* Steps that move pairs. *)

(* The place of a pair, as facts about numbers: what waits and what was     *)
(* sent was made before.                                                   *)
LEMMA PlacedPairs ==
  ASSUME Ind
  PROVE  /\ Len(pair) \in Nat /\ DOMAIN pair = 1 .. Len(pair)
         /\ \A kind \in Kinds, u \in Users : \A i \in DOMAIN prepared[kind][u] :
              prepared[kind][u][i] \in 1 .. Len(pair)
         /\ \A t \in Tasks : \A i \in DOMAIN packet[t].pairs :
              packet[t].pairs[i] \in 1 .. Len(pair)
<1>1. Len(pair) \in Nat /\ DOMAIN pair = 1 .. Len(pair)
  BY DEF Ind, TypeOK
<1> QED
  BY <1>1 DEF Ind, Placed, Owned, MadeFor

(* A value is prepared (BadgeKeeper.m:124-132): the new pair is younger     *)
(* than all others and joins the array of the active user.                  *)
LEMMA PrepareValueInd ==
  ASSUME Ind, NEW kind \in Kinds, NEW key \in Keys, PrepareValue(kind, key)
  PROVE  TypeOK' /\ Placed' /\ ToldTheReply'
<1> DEFINE n == Len(pair) + 1
           new == [kind |-> kind, user |-> userId, key |-> key, launch |-> launch]
           old == prepared[kind][userId]
<1>1. /\ userId \in Users
      /\ n \in Pairs
      /\ pair \in Seq(PairRecord)
      /\ new \in PairRecord
      /\ old \in Seq(Pairs)
  <2>1. userId \in Users /\ Len(pair) < MaxPairs /\ pair \in Seq(PairRecord)
    BY DEF Ind, TypeOK, PrepareValue
  <2>2. n \in Pairs
    BY <2>1, BadgeKeeperAssumption DEF Pairs
  <2>3. new \in PairRecord
    BY <2>1 DEF Ind, TypeOK, PairRecord
  <2>4. old \in Seq(Pairs)
    BY <2>1 DEF Ind, TypeOK
  <2> QED
    BY <2>1, <2>2, <2>3, <2>4
<1>2. /\ pair' = Append(pair, new)
      /\ prepared' = [prepared EXCEPT ![kind][userId] = Append(old, n)]
      /\ UNCHANGED <<serviceVars, userId, projectId, packet, rewards, saved, callback, launch>>
  BY DEF PrepareValue, AddObject
<1>3. /\ pair' \in Seq(PairRecord)
      /\ DOMAIN pair' = 1 .. n
      /\ pair'[n] = new
      /\ \A p \in 1 .. Len(pair) : pair'[p] = pair[p]
  BY <1>1, <1>2
<1>4. /\ prepared'[kind][userId] = Append(old, n)
      /\ Append(old, n) \in Seq(Pairs)
      /\ \A k \in Kinds, u \in Users :
           <<k, u>> # <<kind, userId>> => prepared'[k][u] = prepared[k][u]
      /\ prepared' \in [Kinds -> [Users -> Seq(Pairs)]]
  BY <1>1, <1>2 DEF Ind, TypeOK
<1>5. /\ Len(old) \in Nat
      /\ DOMAIN old = 1 .. Len(old)
      /\ DOMAIN Append(old, n) = 1 .. Len(old) + 1
      /\ \A i \in 1 .. Len(old) : Append(old, n)[i] = old[i]
      /\ Append(old, n)[Len(old) + 1] = n
  BY <1>1
<1>6. TypeOK'
  BY <1>2, <1>3, <1>4 DEF Ind, TypeOK, ServiceTypeOK, serviceVars
<1>7. Fresh' /\ ValuesHaveUser' /\ ToldTheReply'
  BY <1>2 DEF Ind, Placed, Fresh, ValuesHaveUser, ToldTheReply, serviceVars
<1>8. MadeByNow'
  <2>1. launch <= launch
    BY DEF Ind, TypeOK
  <2> QED
    BY <1>2, <1>3, <2>1, PlacedPairs DEF Ind, Placed, MadeByNow
<1>9. Owned'
  <2>1. ASSUME NEW k \in Kinds, NEW u \in Users, NEW i \in DOMAIN prepared'[k][u]
        PROVE  (/\ MadeFor(prepared[k][u][i], k, u)
                /\ pair[prepared[k][u][i]].launch = launch)'
    <3>0. ASSUME NEW p \in 1 .. Len(pair), MadeFor(p, k, u), pair[p].launch = launch
          PROVE  (MadeFor(p, k, u) /\ pair[p].launch = launch)'
      BY <1>2, <1>3, <3>0, PlacedPairs DEF MadeFor
    <3>1. CASE <<k, u>> # <<kind, userId>>
      <4>1. prepared'[k][u] = prepared[k][u] /\ i \in DOMAIN prepared[k][u]
        BY <1>4, <3>1
      <4>2. /\ prepared[k][u][i] \in 1 .. Len(pair)
            /\ MadeFor(prepared[k][u][i], k, u)
            /\ pair[prepared[k][u][i]].launch = launch
        BY <4>1, PlacedPairs DEF Ind, Placed, Owned
      <4> QED
        BY <3>0, <4>1, <4>2
    <3>2. CASE k = kind /\ u = userId /\ i \in 1 .. Len(old)
      <4>1. i \in DOMAIN prepared[k][u] /\ prepared'[k][u][i] = prepared[k][u][i]
        BY <1>4, <1>5, <3>2
      <4>2. /\ prepared[k][u][i] \in 1 .. Len(pair)
            /\ MadeFor(prepared[k][u][i], k, u)
            /\ pair[prepared[k][u][i]].launch = launch
        BY <4>1, PlacedPairs DEF Ind, Placed, Owned
      <4> QED
        BY <3>0, <4>1, <4>2
    <3>3. CASE k = kind /\ u = userId /\ i = Len(old) + 1
      BY <1>1, <1>2, <1>3, <1>4, <1>5, <3>3, PlacedPairs DEF MadeFor
    <3> QED
      BY <1>4, <1>5, <2>1, <3>1, <3>2, <3>3
  <2>2. ASSUME NEW t \in Tasks, NEW i \in DOMAIN packet'[t].pairs
        PROVE  MadeFor(packet[t].pairs[i], packet[t].kind, packet[t].user)'
    BY <1>2, <1>3, <2>2, PlacedPairs DEF Ind, Placed, Owned, MadeFor
  <2> QED
    BY <2>1, <2>2 DEF Owned
<1>10. SentInOrder'
  <2>1. ASSUME NEW k \in Kinds, NEW u \in Users
        PROVE  Increasing(prepared'[k][u])
    <3>1. CASE <<k, u>> # <<kind, userId>>
      BY <1>4, <3>1 DEF Ind, Placed, SentInOrder
    <3>2. CASE k = kind /\ u = userId
      <4>1. Increasing(old)
        BY <1>1 DEF Ind, Placed, SentInOrder
      <4>2. \A i \in 1 .. Len(old) : old[i] \in Nat /\ old[i] < n
        BY <1>1, <1>5, PlacedPairs
      <4>3. ASSUME NEW i \in 1 .. Len(old) + 1, NEW j \in 1 .. Len(old) + 1, i < j
            PROVE  Append(old, n)[i] < Append(old, n)[j]
        <5>1. i \in 1 .. Len(old) /\ (j \in 1 .. Len(old) \/ j = Len(old) + 1)
          BY <1>5, <4>3
        <5>2. CASE j \in 1 .. Len(old)
          BY <1>5, <4>1, <4>3, <5>1, <5>2 DEF Increasing
        <5>3. CASE j = Len(old) + 1
          BY <1>5, <4>2, <5>1, <5>3
        <5> QED
          BY <5>1, <5>2, <5>3
      <4>4. Increasing(Append(old, n))
        BY <1>5, <4>3 DEF Increasing
      <4> QED
        BY <1>4, <3>2, <4>4
    <3> QED
      BY <3>1, <3>2
  <2>2. /\ \A t \in Tasks : Increasing(packet'[t].pairs)
        /\ \A s, t \in Tasks : s < t /\ SameQueue(s, t)' => AllBefore(packet'[s].pairs, packet'[t].pairs)
    BY <1>2 DEF Ind, Placed, SentInOrder, SameQueue
  <2>3. ASSUME NEW t \in Tasks, NEW k \in Kinds, NEW u \in Users,
               packet'[t].kind = k /\ packet'[t].user = u
        PROVE  AllBefore(packet'[t].pairs, prepared'[k][u])
    <3>1. AllBefore(packet[t].pairs, prepared[k][u]) /\ packet' = packet
      BY <1>2, <2>3 DEF Ind, Placed, SentInOrder
    <3>2. CASE <<k, u>> # <<kind, userId>>
      BY <1>4, <3>1, <3>2
    <3>3. CASE k = kind /\ u = userId
      <4>1. \A i \in DOMAIN packet[t].pairs : packet[t].pairs[i] < n
        BY PlacedPairs
      <4>2. AllBefore(packet[t].pairs, Append(old, n))
        BY <1>5, <3>1, <3>3, <4>1 DEF AllBefore
      <4> QED
        BY <1>4, <3>1, <3>3, <4>2
    <3> QED
      BY <3>2, <3>3
  <2> QED
    BY <2>1, <2>2, <2>3 DEF SentInOrder
<1>11. NothingMislaid'
  <2> SUFFICES ASSUME NEW p \in DOMAIN pair', pair'[p].launch = launch'
               PROVE  \/ \E i \in DOMAIN prepared'[pair'[p].kind][pair'[p].user] :
                           prepared'[pair'[p].kind][pair'[p].user][i] = p
                      \/ \E t \in Tasks : \E i \in DOMAIN packet'[t].pairs :
                           packet'[t].pairs[i] = p /\ task'[t] # "new"
    BY DEF NothingMislaid
  <2>1. CASE p = n
    <3>1. Len(old) + 1 \in DOMAIN prepared'[kind][userId] /\ prepared'[kind][userId][Len(old) + 1] = n
      BY <1>4, <1>5
    <3> QED
      BY <1>3, <2>1, <3>1
  <2>2. CASE p \in 1 .. Len(pair)
    <3>1. /\ pair'[p] = pair[p] /\ p \in DOMAIN pair /\ pair[p].launch = launch
          /\ pair[p].kind \in Kinds /\ pair[p].user \in Users
      <4>1. p \in DOMAIN pair /\ pair[p] \in PairRecord
        BY <1>1, <2>2, PlacedPairs
      <4>2. pair'[p] = pair[p] /\ launch' = launch
        BY <1>2, <1>3, <2>2
      <4> QED
        BY <4>1, <4>2 DEF PairRecord
    <3>2. CASE \E i \in DOMAIN prepared[pair[p].kind][pair[p].user] :
                 prepared[pair[p].kind][pair[p].user][i] = p
      <4>1. PICK i \in DOMAIN prepared[pair[p].kind][pair[p].user] :
                   prepared[pair[p].kind][pair[p].user][i] = p
        BY <3>2
      <4>2. i \in DOMAIN prepared'[pair[p].kind][pair[p].user]
            /\ prepared'[pair[p].kind][pair[p].user][i] = p
        <5>1. CASE <<pair[p].kind, pair[p].user>> # <<kind, userId>>
          BY <1>4, <3>1, <4>1, <5>1
        <5>2. CASE pair[p].kind = kind /\ pair[p].user = userId
          <6>1. i \in DOMAIN old /\ old[i] = p
            BY <4>1, <5>2
          <6>2. i \in DOMAIN Append(old, n) /\ Append(old, n)[i] = p
            BY <1>5, <6>1
          <6> QED
            BY <1>4, <5>2, <6>2
        <5> QED
          BY <5>1, <5>2
      <4> QED
        BY <3>1, <4>2
    <3>3. CASE \E t \in Tasks : \E i \in DOMAIN packet[t].pairs :
                 packet[t].pairs[i] = p /\ task[t] # "new"
      BY <1>2, <3>1, <3>3 DEF serviceVars
    <3> QED
      BY <3>1, <3>2, <3>3 DEF Ind, Placed, NothingMislaid
  <2> QED
    BY <1>3, <2>1, <2>2, PlacedPairs
<1> QED
  BY <1>6, <1>7, <1>8, <1>9, <1>10, <1>11 DEF Placed

(* A request is handed to the session (BadgeKeeper.m:258-273): no other     *)
(* task changes, the later ones carry nothing yet, and it is told nothing.  *)
LEMMA SendPacketFacts ==
  ASSUME Ind, NEW t \in Tasks, NEW p \in Packet, SendPacket(t, p), UNCHANGED callback
  PROVE  /\ packet'[t] = p /\ task'[t] = "resumed"
         /\ \A s \in Tasks \ {t} : packet'[s] = packet[s] /\ task'[s] = task[s]
         /\ packet' \in [Tasks -> Packet \cup {NoPacket}]
         /\ packet[t] = NoPacket
         /\ \A s \in Tasks : t < s => packet[s] = NoPacket
         /\ Fresh'
         /\ ToldTheReply'
<1>1. /\ packet \in [Tasks -> Packet \cup {NoPacket}]
      /\ task \in [Tasks -> TaskStates]
  BY DEF Ind, TypeOK, ServiceTypeOK
<1>2. /\ packet' = [packet EXCEPT ![t] = p]
      /\ task' = [task EXCEPT ![t] = "resumed"]
      /\ UNCHANGED reply
      /\ task[t] = "new"
      /\ \A s \in Tasks : s < t => task[s] # "new"
  BY DEF SendPacket, SendRequest
<1>3. /\ packet[t] = NoPacket
      /\ \A s \in Tasks : t < s => task[s] = "new" /\ packet[s] = NoPacket
  BY <1>2 DEF Ind, Placed, Fresh
<1>4. Fresh'
  <2>1. \A s \in Tasks : task'[s] = "new" => packet'[s] = NoPacket
    BY <1>1, <1>2 DEF Ind, Placed, Fresh
  <2>2. \A r, s \in Tasks : r < s /\ task'[r] = "new" => task'[s] = "new"
    BY <1>1, <1>2 DEF Ind, Placed, Fresh
  <2> QED
    BY <2>1, <2>2 DEF Fresh
<1>5. ToldTheReply'
  BY <1>1, <1>2, QuietTold DEF Ind
<1> QED
  BY <1>1, <1>2, <1>3, <1>4, <1>5

(* A query is sent (BadgeKeeper.m:81-114): it carries no pairs.             *)
LEMMA QueryInd ==
  ASSUME Ind, ServiceInd', NEW t \in Tasks, GetProjectAchievements(t) \/ GetUserAchievements(t)
  PROVE  TypeOK' /\ Placed' /\ ToldTheReply'
<1>1. PICK kind \in Queries, u \in Users \cup {Nil} :
        /\ SendPacket(t, [kind |-> kind, project |-> projectId, user |-> u, pairs |-> <<>>])
        /\ UNCHANGED <<userId, projectId, prepared, rewards, saved, callback, pair, launch>>
  BY DEF GetProjectAchievements, GetUserAchievements, Queries, Ind, TypeOK
<1> DEFINE p == [kind |-> kind, project |-> projectId, user |-> u, pairs |-> <<>>]
<1>2. p \in Packet /\ p.kind \notin Kinds /\ p.pairs = <<>>
  BY DEF Packet, Queries, Kinds, Ind, TypeOK
<1>3. SendPacket(t, p) /\ UNCHANGED callback
  BY <1>1
<1> HIDE DEF p
<1>4. /\ packet'[t] = p /\ task'[t] = "resumed"
      /\ \A s \in Tasks \ {t} : packet'[s] = packet[s] /\ task'[s] = task[s]
      /\ packet' \in [Tasks -> Packet \cup {NoPacket}]
      /\ packet[t] = NoPacket
      /\ Fresh'
      /\ ToldTheReply'
  BY <1>2, <1>3, SendPacketFacts
<1>5. TypeOK'
  BY <1>1, <1>4 DEF Ind, ServiceInd, TypeOK
<1>6. ValuesHaveUser' /\ MadeByNow'
  BY <1>1, <1>2, <1>4 DEF Ind, Placed, ValuesHaveUser, MadeByNow
<1>7. Owned'
  BY <1>1, <1>2, <1>4 DEF Ind, Placed, Owned, MadeFor
<1>8. SentInOrder'
  <2>1. \A s \in Tasks : packet'[s].pairs = packet[s].pairs
    BY <1>2, <1>4 DEF NoPacket
  <2>2. \A s \in Tasks : packet'[s].pairs = <<>> \/ packet'[s] = packet[s]
    BY <1>2, <1>4
  <2>3. /\ \A k \in Kinds, v \in Users : Increasing(prepared'[k][v])
        /\ \A s \in Tasks : Increasing(packet'[s].pairs)
    BY <1>1, <2>1 DEF Ind, Placed, SentInOrder
  <2>4. \A r, s \in Tasks : r < s /\ SameQueue(r, s)' => AllBefore(packet'[r].pairs, packet'[s].pairs)
    BY <2>2 DEF Ind, Placed, SentInOrder, SameQueue, AllBefore
  <2>5. \A s \in Tasks, k \in Kinds, v \in Users :
          packet'[s].kind = k /\ packet'[s].user = v => AllBefore(packet'[s].pairs, prepared'[k][v])
    <3> SUFFICES ASSUME NEW s \in Tasks, NEW k \in Kinds, NEW v \in Users,
                        packet'[s].kind = k, packet'[s].user = v
                 PROVE  AllBefore(packet'[s].pairs, prepared'[k][v])
      OBVIOUS
    <3>1. CASE packet'[s].pairs = <<>>
      BY <3>1 DEF AllBefore
    <3>2. CASE packet'[s] = packet[s]
      BY <1>1, <3>2 DEF Ind, Placed, SentInOrder
    <3> QED
      BY <2>2, <3>1, <3>2
  <2> QED
    BY <2>3, <2>4, <2>5 DEF SentInOrder
<1>9. NothingMislaid'
  <2>1. \A s \in Tasks : packet'[s].pairs = packet[s].pairs /\ (task[s] # "new" => task'[s] # "new")
    BY <1>2, <1>4 DEF NoPacket
  <2> QED
    BY <1>1, <2>1 DEF Ind, Placed, NothingMislaid
<1> QED
  BY <1>4, <1>5, <1>6, <1>7, <1>8, <1>9 DEF Placed

(* The prepared values of a user are sent (BadgeKeeper.m:141-169, 178-206): *)
(* all of them move from the dictionary into one request.                  *)
LEMMA SendPreparedValuesInd ==
  ASSUME Ind, ServiceInd', NEW t \in Tasks, NEW kind \in Kinds, NEW u,
         SendPreparedValuesForUserId(kind, u, t)
  PROVE  TypeOK' /\ Placed' /\ ToldTheReply'
<1> DEFINE p == ValuesRequest(kind, u)
           old == prepared[kind][u]
<1>1. /\ u \in Users
      /\ SendPacket(t, p)
      /\ prepared' = [prepared EXCEPT ![kind][u] = <<>>]
      /\ UNCHANGED <<userId, projectId, rewards, saved, callback, pair, launch>>
  BY DEF SendPreparedValuesForUserId, HasPrepared, Removed
<1>2. /\ p \in Packet
      /\ p.kind = kind /\ p.user = u /\ p.pairs = old
  BY <1>1 DEF Packet, ValuesRequest, Ind, TypeOK
<1>3. /\ prepared' \in [Kinds -> [Users -> Seq(Pairs)]]
      /\ prepared'[kind][u] = <<>>
      /\ \A k \in Kinds, v \in Users : <<k, v>> # <<kind, u>> => prepared'[k][v] = prepared[k][v]
  BY <1>1 DEF Ind, TypeOK
<1> HIDE DEF p
<1>4. /\ packet'[t] = p /\ task'[t] = "resumed"
      /\ \A s \in Tasks \ {t} : packet'[s] = packet[s] /\ task'[s] = task[s]
      /\ packet' \in [Tasks -> Packet \cup {NoPacket}]
      /\ packet[t] = NoPacket
      /\ \A s \in Tasks : t < s => packet[s] = NoPacket
      /\ Fresh'
      /\ ToldTheReply'
  BY <1>1, <1>2, SendPacketFacts
<1>5. TypeOK'
  BY <1>1, <1>3, <1>4 DEF Ind, ServiceInd, TypeOK
<1>6. ValuesHaveUser' /\ MadeByNow'
  BY <1>1, <1>2, <1>4 DEF Ind, Placed, ValuesHaveUser, MadeByNow
<1>7. Owned'
  <2>1. ASSUME NEW k \in Kinds, NEW v \in Users, NEW i \in DOMAIN prepared'[k][v]
        PROVE  (/\ MadeFor(prepared[k][v][i], k, v)
                /\ pair[prepared[k][v][i]].launch = launch)'
    <3>1. prepared'[k][v] = prepared[k][v]
      BY <1>3, <2>1
    <3> QED
      BY <1>1, <2>1, <3>1 DEF Ind, Placed, Owned, MadeFor
  <2>2. ASSUME NEW s \in Tasks, NEW i \in DOMAIN packet'[s].pairs
        PROVE  MadeFor(packet[s].pairs[i], packet[s].kind, packet[s].user)'
    <3>1. CASE s = t
      BY <1>1, <1>2, <1>4, <2>2, <3>1 DEF Ind, Placed, Owned, MadeFor
    <3>2. CASE s # t
      BY <1>1, <1>4, <2>2, <3>2 DEF Ind, Placed, Owned, MadeFor
    <3> QED
      BY <3>1, <3>2
  <2> QED
    BY <2>1, <2>2 DEF Owned
<1>8. SentInOrder'
  <2>1. \A k \in Kinds, v \in Users : Increasing(prepared'[k][v])
    <3> SUFFICES ASSUME NEW k \in Kinds, NEW v \in Users PROVE Increasing(prepared'[k][v])
      OBVIOUS
    <3>1. CASE <<k, v>> = <<kind, u>>
      BY <1>3, <3>1 DEF Increasing
    <3>2. CASE <<k, v>> # <<kind, u>>
      BY <1>3, <3>2 DEF Ind, Placed, SentInOrder
    <3> QED
      BY <3>1, <3>2
  <2>2. \A s \in Tasks : Increasing(packet'[s].pairs)
    BY <1>1, <1>2, <1>4 DEF Ind, Placed, SentInOrder
  <2>3. ASSUME NEW r \in Tasks, NEW s \in Tasks, r < s, SameQueue(r, s)'
        PROVE  AllBefore(packet'[r].pairs, packet'[s].pairs)
    <3>1. CASE s = t
      <4>1. r # t /\ packet'[r] = packet[r] /\ packet[r].kind = kind /\ packet[r].user = u
        BY <1>2, <1>4, <2>3, <3>1 DEF Tasks, SameQueue
      <4> QED
        BY <1>1, <1>2, <1>4, <3>1, <4>1 DEF Ind, Placed, SentInOrder
    <3>2. CASE s # t /\ r = t
      <4>1. packet'[s].pairs = <<>>
        BY <1>4, <2>3, <3>2 DEF NoPacket
      <4> QED
        BY <4>1 DEF AllBefore
    <3>3. CASE s # t /\ r # t
      BY <1>4, <2>3, <3>3 DEF Ind, Placed, SentInOrder, SameQueue
    <3> QED
      BY <3>1, <3>2, <3>3
  <2>4. ASSUME NEW s \in Tasks, NEW k \in Kinds, NEW v \in Users,
               packet'[s].kind = k /\ packet'[s].user = v
        PROVE  AllBefore(packet'[s].pairs, prepared'[k][v])
    <3>1. CASE k = kind /\ v = u
      BY <1>3, <3>1 DEF AllBefore
    <3>2. CASE <<k, v>> # <<kind, u>>
      <4>1. s # t
        BY <1>2, <1>4, <2>4, <3>2
      <4> QED
        BY <1>3, <1>4, <2>4, <3>2, <4>1, ZenonT(40) DEF Ind, Placed, SentInOrder
    <3> QED
      BY <3>1, <3>2
  <2> QED
    BY <2>1, <2>2, <2>3, <2>4 DEF SentInOrder
<1>9. NothingMislaid'
  <2> SUFFICES ASSUME NEW q \in DOMAIN pair, pair[q].launch = launch
               PROVE  (\/ \E i \in DOMAIN prepared[pair[q].kind][pair[q].user] :
                            prepared[pair[q].kind][pair[q].user][i] = q
                       \/ \E s \in Tasks : \E i \in DOMAIN packet[s].pairs :
                            packet[s].pairs[i] = q /\ task[s] # "new")'
    BY <1>1 DEF NothingMislaid
  <2>1. pair[q].kind \in Kinds /\ pair[q].user \in Users
    <3>1. pair[q] \in PairRecord
      BY PlacedPairs DEF Ind, TypeOK
    <3> QED
      BY <3>1 DEF PairRecord
  <2>2. CASE \E i \in DOMAIN prepared[pair[q].kind][pair[q].user] :
               prepared[pair[q].kind][pair[q].user][i] = q
    <3>1. CASE <<pair[q].kind, pair[q].user>> = <<kind, u>>
      BY <1>2, <1>4, <2>2, <3>1
    <3>2. CASE <<pair[q].kind, pair[q].user>> # <<kind, u>>
      BY <1>1, <1>3, <2>1, <2>2, <3>2
    <3> QED
      BY <3>1, <3>2
  <2>3. CASE \E s \in Tasks : \E i \in DOMAIN packet[s].pairs :
               packet[s].pairs[i] = q /\ task[s] # "new"
    <3>1. PICK s \in Tasks : \E i \in DOMAIN packet[s].pairs :
                 packet[s].pairs[i] = q /\ task[s] # "new"
      BY <2>3
    <3>2. s # t
      BY <3>1 DEF SendPacket, SendRequest, SendPreparedValuesForUserId
    <3> QED
      BY <1>4, <3>1, <3>2
  <2> QED
    BY <2>2, <2>3 DEF Ind, Placed, NothingMislaid
<1> QED
  BY <1>4, <1>5, <1>6, <1>7, <1>8, <1>9 DEF Placed

(* The process ends (BadgeKeeper.m:35-39 holds the pairs in memory only):   *)
(* what waited goes, what was sent keeps its place.                        *)
LEMMA CrashInd ==
  ASSUME Ind, ServiceInd', Crash
  PROVE  TypeOK' /\ Placed' /\ ToldTheReply'
<1>1. /\ UNCHANGED <<reply, packet, rewards, callback, pair>>
      /\ prepared' = Empty /\ userId' = Nil /\ projectId' = Nil /\ saved' = 0
      /\ launch' = launch + 1 /\ launch' \in 1 .. MaxLaunches
  BY BadgeKeeperAssumption DEF Crash, ServiceCrash, Ind, TypeOK
<1>2. /\ \A t \in Tasks : task'[t] = "new" <=> task[t] = "new"
      /\ \A t \in Tasks : task'[t] = "done" <=> task[t] = "done"
  BY DEF Crash, ServiceCrash
<1>3. TypeOK'
  BY <1>1 DEF Ind, ServiceInd, TypeOK, Empty
<1>4. ToldTheReply'
  BY <1>1, <1>2, QuietTold DEF Ind
<1>5. Fresh' /\ ValuesHaveUser'
  BY <1>1, <1>2 DEF Ind, Placed, Fresh, ValuesHaveUser
<1>6. \A q \in DOMAIN pair : pair[q].launch <= launch /\ pair[q].launch \in Nat
  <2> SUFFICES ASSUME NEW q \in DOMAIN pair
               PROVE  pair[q].launch <= launch /\ pair[q].launch \in Nat
    OBVIOUS
  <2>1. pair[q] \in PairRecord
    BY PlacedPairs DEF Ind, TypeOK
  <2>2. pair[q].launch \in Nat
    BY <2>1, BadgeKeeperAssumption DEF PairRecord
  <2> QED
    BY <2>2 DEF Ind, Placed, MadeByNow
<1>7. MadeByNow' /\ NothingMislaid'
  BY <1>1, <1>6 DEF MadeByNow, NothingMislaid, Ind, TypeOK
<1>8. Owned' /\ SentInOrder'
  <2>1. \A k \in Kinds, v \in Users : prepared'[k][v] = <<>>
    BY <1>1 DEF Empty
  <2>2. Owned'
    BY <1>1, <2>1 DEF Ind, Placed, Owned, MadeFor
  <2>3. SentInOrder'
    BY <1>1, <2>1 DEF Ind, Placed, SentInOrder, SameQueue, Increasing, AllBefore
  <2> QED
    BY <2>2, <2>3
<1> QED
  BY <1>3, <1>4, <1>5, <1>7, <1>8 DEF Placed

-----------------------------------------------------------------------------
(* The invariant and the theorems. *)

(* Every step keeps the inductive invariant. *)
LEMMA NextInd == Ind /\ [Next]_vars => Ind'
<1> SUFFICES ASSUME Ind, [Next]_vars PROVE Ind'
  OBVIOUS
<1>1. ServiceInd'
  BY FacadeStepIsServiceStep, ServiceNextInd DEF Ind
<1>2. SUFFICES TypeOK' /\ Placed' /\ ToldTheReply'
  BY <1>1 DEF Ind
<1>3. ASSUME NEW t \in Tasks, Call(t) PROVE TypeOK' /\ Placed' /\ ToldTheReply'
  BY <1>1, <1>3, SendPreparedValuesInd, QueryInd DEF Call, SendPreparedValues
<1>4. ASSUME NEW t \in Tasks, ServerAnswers(t) PROVE TypeOK' /\ Placed' /\ ToldTheReply'
  BY <1>1, <1>4, ServerAnswersInd
<1>5. ASSUME NEW t \in Tasks, Handler(t) PROVE TypeOK' /\ Placed' /\ ToldTheReply'
  BY <1>1, <1>5, HandlerInd
<1>6. CASE \/ \E u \in Users \cup {Nil} : SetUserId(u)
           \/ \E p \in Projects \cup {Nil} : SetProjectId(p)
  BY <1>6, SetPropertyInd
<1>7. ASSUME NEW kind \in Kinds, NEW key \in Keys, PrepareValue(kind, key)
      PROVE  TypeOK' /\ Placed' /\ ToldTheReply'
  BY <1>7, PrepareValueInd
<1>8. CASE Crash
  BY <1>1, <1>8, CrashInd
<1>9. CASE UNCHANGED vars
  BY <1>9, QuietPlaced, QuietTold
     DEF vars, serviceVars, facadeVars, Ind, TypeOK, ServiceTypeOK
<1>10. ASSUME NEW kind \in Kinds, NEW u \in Users \cup {Nil}, SendPreparedValuesIgnored(kind, u)
       PROVE  TypeOK' /\ Placed' /\ ToldTheReply'
  BY <1>9, <1>10 DEF SendPreparedValuesIgnored
<1>11. CASE Next
  BY <1>11, <1>3, <1>4, <1>5, <1>6, <1>7, <1>8, <1>10 DEF Next
<1> QED
  BY <1>9, <1>11

(* The inductive invariant always holds. *)
LEMMA Invariant == Spec => []Ind
  BY InitInd, NextInd, PTL DEF Spec

(* Every variable keeps its type, for every number of users, keys, values,  *)
(* requests and launches.                                                  *)
THEOREM TypeCorrect == Spec => []TypeOK
<1>1. Ind => TypeOK
  BY DEF Ind
<1> QED
  BY <1>1, Invariant, PTL

(* Every value stays with the user and dictionary it was prepared for       *)
(* (BadgeKeeper.m:124-151, 182-188).                                        *)
THEOREM ValuesOwned == Spec => []Owned
<1>1. Ind => Owned
  BY DEF Ind, Placed
<1> QED
  BY <1>1, Invariant, PTL

(* The values of one user and kind leave in the order they were prepared    *)
(* (BadgeKeeper.m:131, 151-154).                                            *)
THEOREM ValuesSentInOrder == Spec => []SentInOrder
<1>1. Ind => SentInOrder
  BY DEF Ind, Placed
<1> QED
  BY <1>1, Invariant, PTL

(* No value of the running process is lost between the dictionary and the   *)
(* network (BadgeKeeper.m:145-167, 182-204).                                *)
THEOREM NoValueMislaid == Spec => []NothingMislaid
<1>1. Ind => NothingMislaid
  BY DEF Ind, Placed
<1> QED
  BY <1>1, Invariant, PTL

(* The server is never told the same value twice (BadgeKeeper.m:153-154,    *)
(* 190-191): a pair that two requests carry would be of the same user and   *)
(* kind in both, and younger in one than in the other.                      *)
THEOREM AtMostOnce == Spec => []NeverAppliedTwice
<1>1. ASSUME Ind PROVE NeverAppliedTwice
  <2> SUFFICES ASSUME NEW m \in DOMAIN applied, NEW n \in DOMAIN applied,
                      NEW i \in DOMAIN packet[applied[m]].pairs,
                      NEW j \in DOMAIN packet[applied[n]].pairs,
                      packet[applied[m]].pairs[i] = packet[applied[n]].pairs[j]
               PROVE  m = n /\ i = j
    BY DEF NeverAppliedTwice
  <2> DEFINE s == applied[m]
             t == applied[n]
             p == packet[s].pairs[i]
  <2>1. s \in Tasks /\ t \in Tasks /\ (s = t => m = n)
    BY <1>1 DEF Ind, ServiceInd, TypeOK, ServiceTypeOK, AnswersAreReal
  <2>2. p \in Nat
    BY <1>1, <2>1, PlacedPairs
  <2>3. SameQueue(s, t) /\ SameQueue(t, s)
    BY <1>1, <2>1 DEF Ind, Placed, Owned, MadeFor, SameQueue
  <2>4. s = t
    <3>1. s < t => p < p
      BY <1>1, <2>1, <2>3 DEF Ind, Placed, SentInOrder, AllBefore
    <3>2. t < s => p < p
      BY <1>1, <2>1, <2>3 DEF Ind, Placed, SentInOrder, AllBefore
    <3> QED
      BY <2>1, <2>2, <3>1, <3>2 DEF Tasks
  <2>5. i = j
    <3>1. Increasing(packet[s].pairs)
      BY <1>1, <2>1 DEF Ind, Placed, SentInOrder
    <3>2. packet[s].pairs \in Seq(Pairs)
      BY <1>1, <2>1 DEF Ind, TypeOK, Packet, NoPacket
    <3>3. i < j => p < p
      BY <2>4, <3>1 DEF Increasing
    <3>4. j < i => p < p
      BY <2>4, <3>1 DEF Increasing
    <3> QED
      BY <2>2, <2>4, <3>2, <3>3, <3>4
  <2> QED
    BY <2>1, <2>4, <2>5
<1> QED
  BY <1>1, Invariant, PTL

(* The application is told of every request exactly once, and truly         *)
(* (BadgeKeeper.m:262-272).                                                 *)
THEOREM ToldOnce == Spec => []ToldOnceAndTruly
<1>1. Ind => ToldOnceAndTruly
  BY DEF Ind, ServiceInd, ToldTheReply, ToldOnceAndTruly, AnswersAreReal
<1> QED
  BY <1>1, Invariant, PTL

-----------------------------------------------------------------------------
(* The rewards.  RewardsStoredFaithfully does not say how far the loop of   *)
(* BadgeKeeper.m:216-222 is; the rows of the answer that is being handled   *)
(* are exactly those the loop has been at, and between two handlers the     *)
(* counter is back at its start.                                           *)
LoopUnderWay ==
  /\ running = NoTask => saved = 0
  /\ \A t \in Tasks : running = t =>
       /\ saved <= ToSave(t)
       /\ \A i \in RowsOf(t) : rewards[i].index <= saved
       /\ \A index \in 1 .. saved : StoredAt(t, index)

RewardsInd == RewardsStoredFaithfully /\ LoopUnderWay

(* A task whose handler has not begun has no rows and told nothing; nor has *)
(* one the server did not answer.                                          *)
LEMMA NotHandledYet ==
  ASSUME Ind, RewardsStoredFaithfully, NEW t \in Tasks,
         task[t] \in {"new", "resumed"} \/ reply[t] = NoReply
  PROVE  RowsOf(t) = {} /\ running # t /\ callback[t] # <<"success">>
<1>1. <<>> # <<"json">> /\ <<>> # <<"success">>
  OBVIOUS
<1>2. CASE task[t] \in {"new", "resumed"}
  <2>1. called[t] = <<>>
    BY <1>2 DEF Ind, ServiceInd, OneBlockPerTask
  <2>2. callback[t] = <<>>
    BY <1>2 DEF Ind, ToldTheReply
  <2>3. running # t
    BY <1>2 DEF Ind, ServiceInd, HandlersSerial
  <2> QED
    BY <1>1, <2>1, <2>2, <2>3 DEF RewardsStoredFaithfully
<1>3. CASE reply[t] = NoReply
  <2>1. called[t] # <<"json">>
    BY <1>3 DEF Ind, ServiceInd, AnswersAreReal
  <2>2. callback[t] # <<"success">>
    BY <1>3 DEF Ind, ToldTheReply, NoReply
  <2>3. running # t
    BY <2>1 DEF Ind, ServiceInd, HandlersSerial, HandlingCalledSuccess
  <2> QED
    BY <2>1, <2>2, <2>3 DEF RewardsStoredFaithfully
<1> QED
  BY <1>2, <1>3

(* A step that stores nothing and changes neither the request nor the       *)
(* answer of a task that has rows, or told of success.                     *)
LEMMA RowsKept ==
  ASSUME RewardsStoredFaithfully, UNCHANGED rewards,
         \A t \in Tasks : RowsOf(t) # {} =>
           packet'[t] = packet[t] /\ reply'[t] = reply[t] /\ called'[t] = called[t],
         \A t \in Tasks : callback'[t] = <<"success">> =>
           callback[t] = <<"success">> /\ packet'[t] = packet[t] /\ reply'[t] = reply[t]
  PROVE  RewardsStoredFaithfully'
<1>1. \A t \in Tasks : RowsOf(t)' = RowsOf(t)
  BY DEF RowsOf
<1>2. \A t \in Tasks : \A index : StoredAt(t, index)' <=> StoredAt(t, index)
  BY DEF RowsOf, StoredAt
<1> SUFFICES ASSUME NEW t \in Tasks
             PROVE  /\ \A i \in RowsOf(t) : TrueRow(t, rewards[i])'
                    /\ \A i, j \in RowsOf(t) : i < j => rewards[i].index < rewards[j].index
                    /\ \A i \in RowsOf(t) : \A index \in 1 .. rewards[i].index : StoredAt(t, index)
                    /\ RowsOf(t) # {} => called'[t] = <<"json">> /\ packet'[t].kind \in Kinds
                    /\ callback'[t] = <<"success">> /\ packet'[t].kind \in Kinds => AllStored(t)'
  BY <1>1, <1>2 DEF RewardsStoredFaithfully
<1>3. \A i \in RowsOf(t) : TrueRow(t, rewards[i])'
  BY DEF RewardsStoredFaithfully, TrueRow
<1>4. callback'[t] = <<"success">> /\ packet'[t].kind \in Kinds => AllStored(t)'
  BY <1>2 DEF RewardsStoredFaithfully, AllStored
<1> QED
  BY <1>3, <1>4 DEF RewardsStoredFaithfully

(* A step that leaves the running handler alone, if there is one, with its  *)
(* request and its answer.                                                 *)
LEMMA LoopKept ==
  ASSUME LoopUnderWay, UNCHANGED <<rewards, saved, running>>,
         \A t \in Tasks : running = t => packet'[t] = packet[t] /\ reply'[t] = reply[t]
  PROVE  LoopUnderWay'
<1>1. \A t \in Tasks : RowsOf(t)' = RowsOf(t)
  BY DEF RowsOf
<1>2. \A t \in Tasks : \A index : StoredAt(t, index)' <=> StoredAt(t, index)
  BY DEF RowsOf, StoredAt
<1>3. \A t \in Tasks : running = t => ToSave(t)' = ToSave(t)
  BY DEF ToSave, Granted
<1> QED
  BY <1>1, <1>2, <1>3 DEF LoopUnderWay

(* Nothing is stored, and no handler begins or ends: the application's      *)
(* calls (BadgeKeeper.m:81-206), the server, and a failure that is passed   *)
(* on (line 272).                                                          *)
LEMMA NotSavingRewards ==
  ASSUME Ind, RewardsInd, UNCHANGED <<rewards, saved, running>>, NEW t \in Tasks,
         task[t] \in {"new", "resumed"} \/ reply[t] = NoReply,
         callback'[t] # <<"success">>,
         \A s \in Tasks \ {t} : packet'[s] = packet[s] /\ reply'[s] = reply[s]
                                /\ called'[s] = called[s] /\ callback'[s] = callback[s]
  PROVE  RewardsInd'
<1>1. RowsOf(t) = {} /\ running # t
  BY NotHandledYet DEF RewardsInd
<1>2. RewardsStoredFaithfully'
  BY <1>1, RowsKept DEF RewardsInd
<1>3. LoopUnderWay'
  BY <1>1, LoopKept DEF RewardsInd
<1> QED
  BY <1>2, <1>3 DEF RewardsInd

(* Steps of the application change no task's answer, and no request but the *)
(* one they make.                                                          *)
LEMMA AppRewards ==
  ASSUME Ind, RewardsInd, UNCHANGED <<serviceVars, packet, rewards, saved, callback>>
  PROVE  RewardsInd'
<1>1. RewardsStoredFaithfully' /\ LoopUnderWay'
  BY RowsKept, LoopKept DEF RewardsInd, serviceVars
<1> QED
  BY <1>1 DEF RewardsInd

LEMMA CallRewards ==
  ASSUME Ind, RewardsInd, NEW t \in Tasks, Call(t)
  PROVE  RewardsInd'
<1>1. PICK p : SendPacket(t, p)
  BY DEF Call, SendPreparedValues, SendPreparedValuesForUserId, GetProjectAchievements,
         GetUserAchievements
<1>2. UNCHANGED <<rewards, saved, callback, reply, running, called>> /\ task[t] = "new"
  BY <1>1 DEF Call, SendPreparedValues, SendPreparedValuesForUserId, GetProjectAchievements,
              GetUserAchievements, SendPacket, SendRequest
<1>3. \A s \in Tasks \ {t} : packet'[s] = packet[s]
  BY <1>1 DEF SendPacket, Ind, TypeOK
<1>4. callback'[t] # <<"success">>
  BY <1>2, NotHandledYet DEF RewardsInd
<1> QED
  BY <1>2, <1>3, <1>4, NotSavingRewards

LEMMA ServerRewards ==
  ASSUME Ind, RewardsInd, NEW t \in Tasks, ServerAnswers(t)
  PROVE  RewardsInd'
<1>1. UNCHANGED <<facadeVars, called, running>> /\ reply[t] = NoReply
      /\ \A s \in Tasks \ {t} : reply'[s] = reply[s]
  BY DEF ServerAnswers, ServerAccepts, ServerRejects, Reaches, Ind, TypeOK, ServiceTypeOK
<1>2. callback'[t] # <<"success">>
  BY <1>1, NotHandledYet DEF RewardsInd, facadeVars
<1> QED
  BY <1>1, <1>2, NotSavingRewards DEF facadeVars

LEMMA FailureRewards ==
  ASSUME Ind, RewardsInd, NEW t \in Tasks, TransportFailure(t) \/ ParsingFailure(t)
  PROVE  RewardsInd'
<1>1. PICK what \in {INTERNAL_SERVER_ERROR, PARSING_JSON_ERROR} :
        HandlerFails(t, what) /\ Notify(t, what)
  BY DEF TransportFailure, ParsingFailure, HandlerTransportError, HandlerParsingError
<1>2. UNCHANGED <<rewards, saved, packet>>
  BY DEF TransportFailure, ParsingFailure
<1>3. /\ task[t] = "resumed"
      /\ UNCHANGED <<reply, running>>
      /\ \A s \in Tasks \ {t} : called'[s] = called[s] /\ callback'[s] = callback[s]
  BY <1>1 DEF HandlerFails, Notify, Ind, TypeOK, ServiceTypeOK
<1>4. callback'[t] # <<"success">>
  <2>1. callback[t] = <<>>
    BY <1>3 DEF Ind, ToldTheReply
  <2>2. callback'[t] = <<what>>
    BY <1>1, <2>1, AppendToEmpty DEF Notify, Ind, TypeOK
  <2>3. what # "success"
    BY DEF INTERNAL_SERVER_ERROR, PARSING_JSON_ERROR
  <2> QED
    BY <2>2, <2>3, SingletonInjective
<1> QED
  BY <1>2, <1>3, <1>4, NotSavingRewards

(* A handler begins: the counter is at its start.                           *)
LEMMA ReceiveRewards ==
  ASSUME Ind, RewardsInd, NEW t \in Tasks, ReceiveJSON(t)
  PROVE  RewardsInd'
<1>1. /\ running = NoTask /\ running' = t /\ task[t] = "resumed"
      /\ UNCHANGED <<reply, packet, rewards, saved, callback>>
      /\ \A s \in Tasks \ {t} : called'[s] = called[s]
  BY DEF ReceiveJSON, HandlerCallsSuccess, CallSuccess, facadeVars, Ind, TypeOK, ServiceTypeOK
<1>2. RowsOf(t) = {} /\ RowsOf(t)' = {}
  BY <1>1, NotHandledYet DEF RewardsInd, RowsOf
<1>3. RewardsStoredFaithfully'
  BY <1>1, <1>2, RowsKept DEF RewardsInd
<1>4. LoopUnderWay'
  <2>1. saved' = 0 /\ t # NoTask
    BY <1>1 DEF RewardsInd, LoopUnderWay, Tasks, NoTask
  <2>2. 0 <= ToSave(t)'
    <3>1. reply[t] \in Replies
      BY DEF Ind, TypeOK, ServiceTypeOK
    <3>2. \A rs \in Results : Len(rs) \in Nat
      BY ServiceAssumption
    <3>3. Len(reply[t].rewards) \in Nat
      BY <3>1, <3>2 DEF Replies, NoReply, Rejection, Acceptance
    <3> QED
      BY <1>1, <3>3 DEF ToSave, Granted
  <2> QED
    BY <1>1, <1>2, <2>1, <2>2 DEF LoopUnderWay
<1> QED
  BY <1>3, <1>4 DEF RewardsInd

(* The handler that runs, and what the server answered to its request.      *)
LEMMA RunningFacts ==
  ASSUME Ind, RewardsInd, NEW t \in Tasks, running = t
  PROVE  /\ task[t] = "handling" /\ called[t] = <<"json">>
         /\ callback[t] = <<>>
         /\ Len(reply[t].rewards) \in Nat /\ DOMAIN reply[t].rewards = 1 .. Len(reply[t].rewards)
         /\ reply[t].status = "rejected" => ToSave(t) = 0
         /\ ToSave(t) \in Nat /\ ToSave(t) <= Len(reply[t].rewards)
         /\ saved \in Nat /\ saved <= ToSave(t)
         /\ \A s \in Tasks : running = s => s = t
<1>1. task[t] = "handling" /\ called[t] = <<"json">>
  BY DEF Ind, ServiceInd, HandlersSerial, HandlingCalledSuccess
<1>2. callback[t] = <<>>
  BY <1>1 DEF Ind, ToldTheReply
<1>3. reply[t] \in Replies
  BY DEF Ind, TypeOK, ServiceTypeOK
<1>4. reply[t].rewards \in Seq(RewardNames)
  BY <1>3, ServiceAssumption DEF Replies, NoReply, Rejection, Acceptance
<1>5. reply[t].status = "rejected" => reply[t].rewards = <<>>
  BY <1>3 DEF Replies, NoReply, Rejection, Acceptance
<1>6. saved \in Nat /\ saved <= ToSave(t)
  BY DEF Ind, TypeOK, RewardsInd, LoopUnderWay
<1> QED
  BY <1>1, <1>2, <1>4, <1>5, <1>6 DEF ToSave, Granted

(* The row the loop adds is the next one of its answer, and of no other.    *)
LEMMA SaveRewardRows ==
  ASSUME Ind, RewardsInd, NEW t \in Tasks, SaveReward(t)
  PROVE  LET n == Len(rewards) + 1 IN
         /\ rewards' = Append(rewards, NextRow(t))
         /\ \A s \in Tasks \ {t} : RowsOf(s)' = RowsOf(s)
         /\ RowsOf(t)' = RowsOf(t) \cup {n}
         /\ \A i \in DOMAIN rewards : rewards'[i] = rewards[i] /\ i < n
         /\ \A s \in Tasks : RowsOf(s) \subseteq DOMAIN rewards
         /\ n \in Nat /\ rewards'[n] = NextRow(t)
<1> DEFINE n == Len(rewards) + 1
<1>1. rewards' = Append(rewards, NextRow(t)) /\ NextRow(t).task = t
  BY DEF SaveReward, NextRow, RowOf
<1>2. /\ Len(rewards) \in Nat
      /\ DOMAIN rewards = 1 .. Len(rewards) /\ DOMAIN rewards' = 1 .. n
      /\ \A i \in 1 .. Len(rewards) : rewards'[i] = rewards[i]
      /\ rewards'[n] = NextRow(t)
  <2>1. rewards \in Seq(Row)
    BY DEF Ind, TypeOK
  <2> QED
    BY <1>1, <2>1
<1>3. \A s \in Tasks : RowsOf(s)' = {i \in 1 .. n : rewards'[i].task = s}
  BY <1>2 DEF RowsOf
<1>4. \A s \in Tasks : RowsOf(s) = {i \in 1 .. Len(rewards) : rewards[i].task = s}
  BY <1>2 DEF RowsOf
<1>5. ASSUME NEW s \in Tasks PROVE RowsOf(s)' = RowsOf(s) \cup (IF s = t THEN {n} ELSE {})
  BY <1>1, <1>2, <1>3, <1>4
<1>6. \A s \in Tasks : RowsOf(s) \subseteq DOMAIN rewards
  BY DEF RowsOf
<1>7. RowsOf(t)' = RowsOf(t) \cup {n} /\ \A s \in Tasks \ {t} : RowsOf(s)' = RowsOf(s)
  BY <1>5
<1>8. n \in Nat /\ \A i \in DOMAIN rewards : i < n
  BY <1>2
<1> QED
  BY <1>1, <1>2, <1>6, <1>7, <1>8

(* A row's place and index are numbers. *)
LEMMA RewardIndices ==
  ASSUME Ind, NEW t \in Tasks
  PROVE  \A i \in RowsOf(t) : i \in Nat /\ rewards[i].index \in Nat
<1>1. \A i \in DOMAIN rewards : i \in Nat /\ rewards[i] \in Row
  BY DEF Ind, TypeOK
<1> QED
  BY <1>1 DEF RowsOf, Row

(* One turn of the loop (BadgeKeeper.m:217-221).                            *)
LEMMA SaveRewardRewards ==
  ASSUME Ind, RewardsInd, NEW t \in Tasks, SaveReward(t)
  PROVE  RewardsInd'
<1>0. PICK n : n = Len(rewards) + 1
  OBVIOUS
<1>1. /\ running = t /\ saved < ToSave(t) /\ saved' = saved + 1
      /\ UNCHANGED <<running, called, reply, packet, callback>>
  BY DEF SaveReward, serviceVars
<1>2. /\ \A s \in Tasks \ {t} : RowsOf(s)' = RowsOf(s)
      /\ RowsOf(t)' = RowsOf(t) \cup {n}
      /\ \A i \in DOMAIN rewards : rewards'[i] = rewards[i] /\ i < n
      /\ \A s \in Tasks : RowsOf(s) \subseteq DOMAIN rewards
      /\ n \in Nat /\ rewards'[n] = NextRow(t)
  BY <1>0, SaveRewardRows
<1>3. /\ called[t] = <<"json">> /\ callback[t] = <<>>
      /\ Len(reply[t].rewards) \in Nat /\ DOMAIN reply[t].rewards = 1 .. Len(reply[t].rewards)
      /\ ToSave(t) \in Nat /\ ToSave(t) <= Len(reply[t].rewards)
      /\ saved \in Nat /\ saved <= ToSave(t)
      /\ \A s \in Tasks : running = s => s = t
  BY <1>1, RunningFacts
<1>4. /\ NextRow(t).index = saved + 1 /\ NextRow(t).user = packet[t].user
      /\ NextRow(t).name = reply[t].rewards[saved + 1]
  BY DEF NextRow, RowOf
<1>5. /\ \A i \in RowsOf(t) : rewards[i].index <= saved
      /\ \A index \in 1 .. saved : StoredAt(t, index)
  BY <1>1 DEF RewardsInd, LoopUnderWay
<1>6. /\ \A s \in Tasks : \A index : StoredAt(s, index) => StoredAt(s, index)'
      /\ \A index : index = saved + 1 => StoredAt(t, index)'
  BY <1>2, <1>4 DEF StoredAt
<1>7. \A index \in 1 .. saved + 1 : StoredAt(t, index)'
  BY <1>3, <1>5, <1>6
<1>8. packet[t].kind \in Kinds
  BY <1>1, <1>3 DEF ToSave, Granted
<1>9. ASSUME NEW s \in Tasks \ {t}
      PROVE  (/\ \A i \in RowsOf(s) : TrueRow(s, rewards[i])
              /\ \A i, j \in RowsOf(s) : i < j => rewards[i].index < rewards[j].index
              /\ \A i \in RowsOf(s) : \A index \in 1 .. rewards[i].index : StoredAt(s, index)
              /\ RowsOf(s) # {} => called[s] = <<"json">> /\ packet[s].kind \in Kinds
              /\ callback[s] = <<"success">> /\ packet[s].kind \in Kinds => AllStored(s))'
  <2>1. /\ \A i \in RowsOf(s) : TrueRow(s, rewards[i])
        /\ \A i, j \in RowsOf(s) : i < j => rewards[i].index < rewards[j].index
        /\ \A i \in RowsOf(s) : \A index \in 1 .. rewards[i].index : StoredAt(s, index)
        /\ RowsOf(s) # {} => called[s] = <<"json">> /\ packet[s].kind \in Kinds
        /\ callback[s] = <<"success">> /\ packet[s].kind \in Kinds => AllStored(s)
    BY DEF RewardsInd, RewardsStoredFaithfully
  <2>2. RowsOf(s)' = RowsOf(s) /\ \A i \in RowsOf(s) : rewards'[i] = rewards[i]
    BY <1>2
  <2>3. \A i \in RowsOf(s) : TrueRow(s, rewards[i])'
    BY <1>1, <2>1, <2>2 DEF TrueRow
  <2>4. AllStored(s) => AllStored(s)'
    BY <1>1, <1>6 DEF AllStored
  <2> QED
    BY <1>1, <1>6, <2>1, <2>2, <2>3, <2>4
<1>10. \A i \in RowsOf(t) : rewards'[i] = rewards[i] /\ rewards[i].index <= saved /\ i < n
  BY <1>2, <1>5
<1>11. \A i \in RowsOf(t)' : TrueRow(t, rewards[i])'
  <2>1. ASSUME NEW i \in RowsOf(t) PROVE TrueRow(t, rewards[i])'
    BY <1>1, <1>10 DEF RewardsInd, RewardsStoredFaithfully, TrueRow
  <2>2. TrueRow(t, rewards[n])'
    BY <1>1, <1>2, <1>3, <1>4 DEF TrueRow
  <2> QED
    BY <1>2, <2>1, <2>2
<1>12. \A i, j \in RowsOf(t)' : i < j => rewards'[i].index < rewards'[j].index
  <2> SUFFICES ASSUME NEW i \in RowsOf(t)', NEW j \in RowsOf(t)', i < j
               PROVE  rewards'[i].index < rewards'[j].index
    OBVIOUS
  <2>0. \A k \in RowsOf(t) : k \in Nat /\ rewards[k].index \in Nat
    BY RewardIndices
  <2>1. CASE i \in RowsOf(t) /\ j \in RowsOf(t)
    BY <1>10, <2>1 DEF RewardsInd, RewardsStoredFaithfully
  <2>2. CASE i \in RowsOf(t) /\ j = n
    <3>1. rewards'[i].index <= saved /\ rewards'[i].index \in Nat
      BY <1>10, <2>0, <2>2
    <3>2. rewards'[j].index = saved + 1
      BY <1>2, <1>4, <2>2
    <3> QED
      BY <1>3, <3>1, <3>2
  <2>3. i # n
    BY <1>2, <1>10, <2>0
  <2> QED
    BY <1>2, <2>1, <2>2, <2>3
<1>13. \A i \in RowsOf(t)' : \A index \in 1 .. rewards'[i].index : StoredAt(t, index)'
  <2>1. ASSUME NEW i \in RowsOf(t), NEW index \in 1 .. rewards[i].index
        PROVE  StoredAt(t, index)'
    BY <1>6 DEF RewardsInd, RewardsStoredFaithfully
  <2>2. rewards'[n].index = saved + 1
    BY <1>2, <1>4
  <2> QED
    BY <1>2, <1>7, <1>10, <2>1, <2>2
<1>14. called'[t] = <<"json">> /\ packet'[t].kind \in Kinds /\ callback'[t] # <<"success">>
  BY <1>1, <1>3, <1>8
<1>15. RewardsStoredFaithfully'
  BY <1>9, <1>11, <1>12, <1>13, <1>14 DEF RewardsStoredFaithfully
<1>16. LoopUnderWay'
  <2>1. ToSave(t)' = ToSave(t) /\ saved' <= ToSave(t)
    BY <1>1, <1>3 DEF ToSave, Granted
  <2>2. \A i \in RowsOf(t)' : rewards'[i].index <= saved'
    BY <1>1, <1>2, <1>3, <1>4, <1>10, RewardIndices DEF RewardsInd
  <2>3. running' = t /\ t # NoTask
    BY <1>1 DEF Tasks, NoTask
  <2> QED
    BY <1>1, <1>3, <1>7, <2>1, <2>2, <2>3 DEF LoopUnderWay
<1> QED
  BY <1>15, <1>16 DEF RewardsInd

(* A handler ends: with an error of the server nothing was stored, with     *)
(* success everything (BadgeKeeper.m:264-271, 156-165).                     *)
LEMMA HandlerEndsRewards ==
  ASSUME Ind, RewardsInd, NEW t \in Tasks, ApiFailure(t) \/ DeliverSuccess(t)
  PROVE  RewardsInd'
<1>1. /\ running = t /\ running' = NoTask
      /\ UNCHANGED <<reply, called, packet, rewards>>
  BY DEF ApiFailure, DeliverSuccess, HandlerReturns, NextHandler
<1>2. /\ callback[t] = <<>> /\ saved \in Nat /\ saved <= ToSave(t)
      /\ reply[t].status = "rejected" => ToSave(t) = 0
      /\ DOMAIN reply[t].rewards = 1 .. Len(reply[t].rewards)
      /\ ToSave(t) \in Nat
  BY <1>1, RunningFacts
<1>3. saved' = 0
  BY <1>2 DEF ApiFailure, DeliverSuccess
<1>4. \A s \in Tasks \ {t} : callback'[s] = callback[s]
  BY DEF ApiFailure, DeliverSuccess, Notify, Ind, TypeOK
<1>5. LoopUnderWay'
  BY <1>1, <1>3 DEF LoopUnderWay, Tasks, NoTask
<1>6. RewardsStoredFaithfully'
  <2>1. CASE ApiFailure(t)
    <3>1. callback'[t] = <<"ApiError">>
      BY <1>2, <2>1, AppendToEmpty DEF ApiFailure, Notify, Ind, TypeOK
    <3>2. callback'[t] # <<"success">>
      BY <3>1, SingletonInjective
    <3> QED
      BY <1>1, <1>4, <3>2, RowsKept DEF RewardsInd
  <2>2. CASE DeliverSuccess(t)
    <3>1. saved = ToSave(t)
      BY <2>2 DEF DeliverSuccess
    <3>2. packet[t].kind \in Kinds => AllStored(t)
      BY <1>1, <1>2, <3>1 DEF ToSave, Granted, AllStored, RewardsInd, LoopUnderWay
    <3>3. /\ \A s \in Tasks : RowsOf(s)' = RowsOf(s)
          /\ \A s \in Tasks : \A index : StoredAt(s, index)' <=> StoredAt(s, index)
      BY <1>1 DEF RowsOf, StoredAt
    <3>4. \A s \in Tasks : /\ AllStored(s)' <=> AllStored(s)
                           /\ \A row : TrueRow(s, row)' <=> TrueRow(s, row)
      BY <1>1, <3>3 DEF AllStored, TrueRow
    <3> QED
      BY <1>1, <1>4, <3>2, <3>3, <3>4 DEF RewardsInd, RewardsStoredFaithfully
  <2> QED
    BY <2>1, <2>2
<1> QED
  BY <1>5, <1>6 DEF RewardsInd

(* The process ends in the middle of the loop: its rows stay.               *)
LEMMA CrashRewards == ASSUME RewardsInd, Crash PROVE RewardsInd'
<1>1. RewardsStoredFaithfully'
  BY RowsKept DEF Crash, ServiceCrash, RewardsInd
<1>2. LoopUnderWay'
  BY DEF Crash, ServiceCrash, LoopUnderWay, Tasks, NoTask
<1> QED
  BY <1>1, <1>2 DEF RewardsInd

(* Every step keeps what is known of the rewards. *)
LEMMA NextRewards == Ind /\ RewardsInd /\ [Next]_vars => RewardsInd'
<1> SUFFICES ASSUME Ind, RewardsInd, [Next]_vars PROVE RewardsInd'
  OBVIOUS
<1>1. ASSUME NEW t \in Tasks, Handler(t) PROVE RewardsInd'
  BY <1>1, FailureRewards, ReceiveRewards, HandlerEndsRewards, SaveRewardRewards DEF Handler
<1>2. ASSUME NEW t \in Tasks, Call(t) \/ ServerAnswers(t) PROVE RewardsInd'
  BY <1>2, CallRewards, ServerRewards
<1>3. CASE Crash
  BY <1>3, CrashRewards
<1>4. CASE UNCHANGED vars
  BY <1>4, AppRewards DEF vars, facadeVars
<1>5. CASE \/ \E u \in Users \cup {Nil} : SetUserId(u)
           \/ \E p \in Projects \cup {Nil} : SetProjectId(p)
           \/ \E kind \in Kinds, key \in Keys : PrepareValue(kind, key)
  <2>1. UNCHANGED <<serviceVars, packet, rewards, saved, callback>>
    BY <1>5 DEF SetUserId, SetProjectId, PrepareValue
  <2> QED
    BY <2>1, AppRewards
<1>6. CASE \E kind \in Kinds, u \in Users \cup {Nil} : SendPreparedValuesIgnored(kind, u)
  BY <1>4, <1>6 DEF SendPreparedValuesIgnored
<1> QED
  BY <1>1, <1>2, <1>3, <1>4, <1>5, <1>6 DEF Next

(* Rewards are stored once each, in the order of their answer and without a *)
(* gap, for the user of the request, and all of them when the application   *)
(* is told of success (BadgeKeeper.m:156-165, 213-225).                     *)
THEOREM RewardsFaithful == Spec => []RewardsStoredFaithfully
<1>1. Init => RewardsInd
  BY DEF Init, ServiceInit, RewardsInd, RewardsStoredFaithfully, LoopUnderWay, RowsOf, Tasks, NoTask
<1>2. RewardsInd => RewardsStoredFaithfully
  BY DEF RewardsInd
<1> QED
  BY <1>1, <1>2, NextRewards, Invariant, PTL DEF Spec

-----------------------------------------------------------------------------
(* The facade implements the outbox. *)

(* Beside the invariant the mapping needs that a request of a value call    *)
(* carries at least one value: an empty batch counts as one not sent.       *)
CarriesValues == \A t \in Tasks : packet[t].kind \in Kinds => packet[t].pairs # <<>>

MapInd == Ind /\ CarriesValues

(* A sequence gains the element that is appended to it. *)
LEMMA MembersAppend ==
  ASSUME NEW S, NEW s \in Seq(S), NEW e \in S
  PROVE  Members(Append(s, e)) = Members(s) \cup {e}
<1>1. /\ Append(s, e) \in Seq(S)
      /\ DOMAIN Append(s, e) = 1 .. Len(s) + 1
      /\ DOMAIN s = 1 .. Len(s)
      /\ Len(s) \in Nat
  OBVIOUS
<1>2. Append(s, e)[Len(s) + 1] = e /\ \A i \in DOMAIN s : Append(s, e)[i] = s[i]
  OBVIOUS
<1>3. DOMAIN Append(s, e) = DOMAIN s \cup {Len(s) + 1}
  BY <1>1
<1> QED
  BY <1>2, <1>3 DEF Members

(* Only the empty sequence has no members. *)
LEMMA MembersEmpty == Members(<<>>) = {}
  BY DEF Members

LEMMA MembersNonempty == ASSUME NEW S, NEW s \in Seq(S), s # <<>> PROVE Members(s) # {}
<1>1. 1 \in DOMAIN s
  OBVIOUS
<1> QED
  BY <1>1 DEF Members

-----------------------------------------------------------------------------
(* The invariant. *)

(* Nothing is sent for an empty array (BadgeKeeper.m:147, 184).             *)
LEMMA CarriesValuesInd == MapInd /\ [Next]_vars => MapInd'
<1> SUFFICES ASSUME MapInd, [Next]_vars PROVE CarriesValues'
  BY NextInd DEF MapInd
<1>1. ASSUME NEW t \in Tasks, Call(t) PROVE CarriesValues'
  <2>1. packet \in [Tasks -> Packet \cup {NoPacket}]
    BY DEF MapInd, Ind, TypeOK
  <2>2. ASSUME NEW p, packet' = [packet EXCEPT ![t] = p], p.kind \in Kinds => p.pairs # <<>>
        PROVE  CarriesValues'
    BY <2>1, <2>2 DEF MapInd, CarriesValues
  <2>3. ASSUME NEW kind \in Kinds, NEW u, SendPreparedValuesForUserId(kind, u, t)
        PROVE  CarriesValues'
    <3>1. ValuesRequest(kind, u).pairs # <<>>
      BY <2>3 DEF SendPreparedValuesForUserId, HasPrepared, ValuesRequest
    <3>2. packet' = [packet EXCEPT ![t] = ValuesRequest(kind, u)]
      BY <2>3 DEF SendPreparedValuesForUserId, SendPacket
    <3> QED
      BY <2>2, <3>1, <3>2
  <2>4. CASE GetProjectAchievements(t)
    <3> DEFINE p == [kind |-> "getProject", project |-> projectId, user |-> Nil, pairs |-> <<>>]
    <3>1. packet' = [packet EXCEPT ![t] = p] /\ p.kind \notin Kinds
      BY <2>4 DEF GetProjectAchievements, SendPacket, Kinds
    <3> QED
      BY <2>2, <3>1
  <2>5. CASE GetUserAchievements(t)
    <3> DEFINE p == [kind |-> "getUser", project |-> projectId, user |-> userId, pairs |-> <<>>]
    <3>1. packet' = [packet EXCEPT ![t] = p] /\ p.kind \notin Kinds
      BY <2>5 DEF GetUserAchievements, SendPacket, Kinds
    <3> QED
      BY <2>2, <3>1
  <2> QED
    BY <1>1, <2>3, <2>4, <2>5 DEF Call, SendPreparedValues
<1>2. CASE UNCHANGED packet
  BY <1>2 DEF MapInd, CarriesValues
<1>3. ASSUME NEW t \in Tasks, ServerAnswers(t) \/ Handler(t) PROVE UNCHANGED packet
  BY <1>3 DEF ServerAnswers, Handler, TransportFailure, ParsingFailure, ReceiveJSON, ApiFailure,
              SaveReward, DeliverSuccess, facadeVars
<1> QED
  BY <1>1, <1>2, <1>3 DEF Next, vars, facadeVars, SetUserId, SetProjectId, PrepareValue,
                          SendPreparedValuesIgnored, Crash

(* The invariant always holds. *)
LEMMA MapInvariant == Spec => []MapInd
<1>1. Init => MapInd
  BY InitInd DEF Init, MapInd, CarriesValues, NoPacket, Kinds
<1> QED
  BY <1>1, CarriesValuesInd, PTL DEF Spec

-----------------------------------------------------------------------------
(* Steps. *)

(* The empty dictionaries are the empty outbox (BadgeKeeper.m:59-67).       *)
LEMMA InitMapped == Init => Box!Init
<1> SUFFICES ASSUME Init PROVE Box!Init
  OBVIOUS
<1>1. DOMAIN pair = {}
  BY DEF Init
<1>2. \A g \in Groups : Members(prepared[g[1]][g[2]]) = {}
  BY MembersEmpty DEF Init, Empty, Groups
<1>3. \A t \in Tasks : Members(packet[t].pairs) = {} /\ FateOf(t) = "open" /\ VerdictOf(t) = "nothing"
  BY MembersEmpty DEF Init, NoPacket, FateOf, VerdictOf, Kinds
<1> QED
  BY <1>1, <1>2, <1>3 DEF Box!Init

(* The outbox does not see tasks, handlers, users, projects and rewards.    *)
LEMMA Unseen ==
  ASSUME UNCHANGED <<prepared, packet, reply, callback, pair>>
  PROVE  UNCHANGED Box!outboxVars
  BY DEF Box!outboxVars, FateOf, VerdictOf

(* A prepared value is a new value of its group (BadgeKeeper.m:124-132).    *)
LEMMA PrepareValueMapped ==
  ASSUME MapInd, NEW kind \in Kinds, NEW key \in Keys, PrepareValue(kind, key)
  PROVE  Box!Next
<1> DEFINE n == Len(pair) + 1
           g == <<kind, userId>>
<1>1. /\ userId \in Users /\ n \in Pairs /\ g \in Groups
      /\ prepared \in [Kinds -> [Users -> Seq(Pairs)]]
      /\ pair \in Seq(PairRecord)
  BY BadgeKeeperAssumption DEF MapInd, Ind, TypeOK, PrepareValue, Pairs, Groups
<1>2. n \notin DOMAIN pair /\ DOMAIN pair' = DOMAIN pair \cup {n}
  <2>1. DOMAIN pair = 1 .. Len(pair) /\ Len(pair) \in Nat
    BY <1>1
  <2>2. DOMAIN pair' = 1 .. Len(pair) + 1
    BY <1>1 DEF PrepareValue
  <2> QED
    BY <2>1, <2>2
<1>3. prepared' = [prepared EXCEPT ![kind][userId] = Append(@, n)]
  BY DEF PrepareValue, AddObject
<1>4. \A h \in Groups : Members(prepared'[h[1]][h[2]]) =
        IF h = g THEN Members(prepared[h[1]][h[2]]) \cup {n} ELSE Members(prepared[h[1]][h[2]])
  <2>1. Members(Append(prepared[kind][userId], n)) = Members(prepared[kind][userId]) \cup {n}
    BY <1>1, MembersAppend
  <2>2. prepared'[kind][userId] = Append(prepared[kind][userId], n)
    BY <1>1, <1>3
  <2>3. ASSUME NEW h \in Groups, h # g PROVE prepared'[h[1]][h[2]] = prepared[h[1]][h[2]]
    <3>1. h[1] \in Kinds /\ h[2] \in Users /\ (h[1] # kind \/ h[2] # userId)
      BY <2>3 DEF Groups
    <3> QED
      BY <1>1, <1>3, <3>1
  <2>4. g[1] = kind /\ g[2] = userId
    OBVIOUS
  <2>5. Members(prepared'[g[1]][g[2]]) = Members(prepared[g[1]][g[2]]) \cup {n}
    BY <2>1, <2>2, <2>4
  <2> HIDE DEF g, n
  <2> QED
    BY <2>3, <2>5
<1>5. UNCHANGED <<packet, reply, callback>>
  BY DEF PrepareValue, serviceVars
<1>6. Box!Prepare(n, g)
  BY <1>1, <1>2, <1>4, <1>5 DEF Box!Prepare, FateOf, VerdictOf
<1> QED
  BY <1>1, <1>6 DEF Box!Next

(* A task that was not created is a batch that was not sent, undecided, of  *)
(* which nothing was told.                                                 *)
LEMMA NewTask ==
  ASSUME MapInd, NEW t \in Tasks, task[t] = "new"
  PROVE  packet[t] = NoPacket /\ reply[t] = NoReply /\ callback[t] = <<>>
  BY DEF MapInd, Ind, ServiceInd, AnswersAreReal, Placed, Fresh, ToldTheReply

(* A send is a batch of all its group holds (BadgeKeeper.m:145-154).        *)
LEMMA SendPreparedValuesMapped ==
  ASSUME MapInd, NEW t \in Tasks, NEW kind \in Kinds, NEW u,
         SendPreparedValuesForUserId(kind, u, t)
  PROVE  Box!Next
<1> DEFINE g == <<kind, u>>
           p == ValuesRequest(kind, u)
<1>1. /\ u \in Users /\ g \in Groups /\ prepared[kind][u] # <<>>
      /\ prepared \in [Kinds -> [Users -> Seq(Pairs)]]
      /\ packet \in [Tasks -> Packet \cup {NoPacket}]
  BY DEF MapInd, Ind, TypeOK, SendPreparedValuesForUserId, HasPrepared, Groups
<1>2. /\ task[t] = "new"
      /\ packet' = [packet EXCEPT ![t] = p]
      /\ prepared' = [prepared EXCEPT ![kind][u] = <<>>]
      /\ UNCHANGED <<reply, callback, pair>>
  BY DEF SendPreparedValuesForUserId, SendPacket, SendRequest, Removed
<1>3. packet[t] = NoPacket /\ reply[t] = NoReply /\ callback[t] = <<>>
  BY <1>2, NewTask
<1>4. p.kind = kind /\ p.pairs = prepared[kind][u]
  BY DEF ValuesRequest
<1> HIDE DEF p
<1>5. \A h \in Groups : Members(prepared'[h[1]][h[2]]) =
        IF h = g THEN {} ELSE Members(prepared[h[1]][h[2]])
  <2>1. prepared'[kind][u] = <<>>
    BY <1>1, <1>2
  <2>2. ASSUME NEW h \in Groups, h # g PROVE prepared'[h[1]][h[2]] = prepared[h[1]][h[2]]
    <3>1. h[1] \in Kinds /\ h[2] \in Users /\ (h[1] # kind \/ h[2] # u)
      BY <2>2 DEF Groups
    <3> QED
      BY <1>1, <1>2, <3>1
  <2>3. g[1] = kind /\ g[2] = u
    OBVIOUS
  <2>4. Members(prepared'[g[1]][g[2]]) = {}
    BY <2>1, <2>3, MembersEmpty
  <2> HIDE DEF g
  <2> QED
    BY <2>2, <2>4
<1>6. Members(prepared[kind][u]) # {} /\ Members(packet[t].pairs) = {}
  <2>1. prepared[kind][u] \in Seq(Pairs)
    BY <1>1
  <2>2. Members(prepared[kind][u]) # {}
    BY <1>1, <2>1, MembersNonempty
  <2>3. packet[t].pairs = <<>>
    BY <1>3 DEF NoPacket
  <2> QED
    BY <2>2, <2>3, MembersEmpty
<1>7. \A s \in Tasks : Members(packet'[s].pairs) =
        IF s = t THEN Members(prepared[kind][u]) ELSE Members(packet[s].pairs)
  BY <1>1, <1>2, <1>4
<1>8. \A s \in Tasks : FateOf(s)' = FateOf(s) /\ VerdictOf(s)' = VerdictOf(s)
  <2>1. \A s \in Tasks \ {t} : packet'[s] = packet[s]
    BY <1>1, <1>2
  <2>2. FateOf(t) = "open" /\ FateOf(t)' = "open" /\ VerdictOf(t) = "nothing" /\ VerdictOf(t)' = "nothing"
    BY <1>2, <1>3 DEF FateOf, VerdictOf, NoReply
  <2> QED
    BY <1>2, <2>1, <2>2 DEF FateOf, VerdictOf
<1>9. Box!Send(g, t)
  BY <1>1, <1>2, <1>5, <1>6, <1>7, <1>8 DEF Box!Send, Box!HeldAfter
<1> QED
  BY <1>1, <1>9 DEF Box!Next

(* A query is no batch (BadgeKeeper.m:81-114).                              *)
LEMMA QueryMapped ==
  ASSUME MapInd, NEW t \in Tasks, GetProjectAchievements(t) \/ GetUserAchievements(t)
  PROVE  UNCHANGED Box!outboxVars
<1>1. PICK p : /\ p.kind \notin Kinds /\ p.pairs = <<>>
               /\ packet' = [packet EXCEPT ![t] = p]
               /\ task[t] = "new"
               /\ UNCHANGED <<prepared, reply, callback, pair>>
  BY DEF GetProjectAchievements, GetUserAchievements, SendPacket, SendRequest, Kinds
<1>2. packet[t] = NoPacket /\ packet \in [Tasks -> Packet \cup {NoPacket}]
  BY <1>1, NewTask DEF MapInd, Ind, TypeOK
<1>3. \A s \in Tasks : /\ packet'[s].pairs = packet[s].pairs
                       /\ FateOf(s)' = FateOf(s)
                       /\ VerdictOf(s)' = VerdictOf(s)
  BY <1>1, <1>2 DEF NoPacket, FateOf, VerdictOf, Kinds
<1> QED
  BY <1>1, <1>3 DEF Box!outboxVars

(* The server decides on a batch once, or answers a query (external).       *)
LEMMA ServerAnswersMapped ==
  ASSUME MapInd, NEW t \in Tasks, ServerAnswers(t)
  PROVE  Box!Next \/ UNCHANGED Box!outboxVars
<1>1. /\ UNCHANGED <<prepared, packet, callback, pair>>
      /\ reply[t] = NoReply
  BY DEF ServerAnswers, ServerAccepts, ServerRejects, Reaches, facadeVars
<1>2. PICK r \in Replies : /\ reply' = [reply EXCEPT ![t] = r]
                           /\ r.status \in {"accepted", "rejected"}
  <2>1. CASE ServerRejects(t)
    <3>1. Rejection \in Replies /\ Rejection.status = "rejected"
      BY DEF Replies, Rejection
    <3> QED
      BY <2>1, <3>1 DEF ServerRejects
  <2>2. ASSUME NEW rs \in Results, ServerAccepts(t, rs)
        PROVE  \E r \in Replies : /\ reply' = [reply EXCEPT ![t] = r]
                                 /\ r.status \in {"accepted", "rejected"}
    <3>1. Acceptance(rs) \in Replies /\ Acceptance(rs).status = "accepted"
      BY DEF Replies, Acceptance
    <3> QED
      BY <2>2, <3>1 DEF ServerAccepts
  <2> QED
    BY <2>1, <2>2 DEF ServerAnswers
<1>3. reply \in [Tasks -> Replies]
  BY DEF MapInd, Ind, ServiceInd, ServiceTypeOK
<1>4. \A s \in Tasks \ {t} : FateOf(s)' = FateOf(s)
  BY <1>1, <1>2, <1>3 DEF FateOf
<1>5. \A s \in Tasks : VerdictOf(s)' = VerdictOf(s)
  BY <1>1 DEF VerdictOf
<1>6. CASE packet[t].kind \notin Kinds
  <2>1. FateOf(t)' = FateOf(t)
    BY <1>1, <1>6 DEF FateOf
  <2> QED
    BY <1>1, <1>4, <1>5, <2>1 DEF Box!outboxVars
<1>7. CASE packet[t].kind \in Kinds
  <2>1. FateOf(t) = "open" /\ FateOf(t)' \in {"applied", "refused"}
    BY <1>1, <1>2, <1>3, <1>7 DEF FateOf, NoReply
  <2>2. Members(packet[t].pairs) # {}
    <3>1. packet[t].pairs # <<>> /\ packet[t].pairs \in Seq(Pairs)
      BY <1>7 DEF MapInd, CarriesValues, Ind, TypeOK, Packet, NoPacket
    <3> QED
      BY <3>1, MembersNonempty
  <2>3. Box!Decide(t, FateOf(t)')
    BY <1>1, <1>4, <1>5, <2>1, <2>2 DEF Box!Decide, Box!Open
  <2> QED
    BY <2>1, <2>3 DEF Box!Next
<1> QED
  BY <1>6, <1>7

(* The application's block is called for a task whose handler has not told  *)
(* it anything: a verdict, and a true one (BadgeKeeper.m:262-272).          *)
LEMMA NotifyMapped ==
  ASSUME MapInd, NEW t \in Tasks, NEW what \in Callbacks, Notify(t, what), task[t] # "done",
         what = "success" => reply[t].status = "accepted",
         what = "ApiError" => reply[t].status = "rejected",
         UNCHANGED <<prepared, packet, reply, pair>>
  PROVE  Box!Next \/ UNCHANGED Box!outboxVars
<1>1. callback \in [Tasks -> Seq(Callbacks)] /\ callback[t] = <<>>
  BY DEF MapInd, Ind, TypeOK, ToldTheReply
<1>2. callback'[t] = <<what>> /\ \A s \in Tasks \ {t} : callback'[s] = callback[s]
  <2>1. Append(callback[t], what) = <<what>>
    BY <1>1, AppendToEmpty
  <2> QED
    BY <1>1, <2>1 DEF Notify
<1>3. \A s \in Tasks : FateOf(s)' = FateOf(s)
  BY DEF FateOf
<1>4. \A s \in Tasks \ {t} : VerdictOf(s)' = VerdictOf(s)
  BY <1>2 DEF VerdictOf
<1>5. CASE packet[t].kind \notin Kinds
  <2>1. VerdictOf(t)' = VerdictOf(t)
    BY <1>5 DEF VerdictOf
  <2> QED
    BY <1>3, <1>4, <2>1 DEF Box!outboxVars
<1>6. CASE packet[t].kind \in Kinds
  <2>1. Members(packet[t].pairs) # {}
    <3>1. packet[t].pairs # <<>> /\ packet[t].pairs \in Seq(Pairs)
      BY <1>6 DEF MapInd, CarriesValues, Ind, TypeOK, Packet, NoPacket
    <3> QED
      BY <3>1, MembersNonempty
  <2>2. VerdictOf(t) = "nothing"
    BY <1>1 DEF VerdictOf
  <2>3. callback'[t] # <<>> /\ callback'[t][1] = what
    BY <1>2
  <2>4. VerdictOf(t)' \in {"unknown", FateOf(t)} \ {"open"}
    BY <1>6, <2>3 DEF VerdictOf, FateOf
  <2>5. Box!Tell(t, VerdictOf(t)')
    BY <1>3, <1>4, <2>1, <2>2 DEF Box!Tell
  <2> QED
    BY <2>4, <2>5 DEF Box!Next, Box!Truths
<1> QED
  BY <1>5, <1>6

(* A step of the session's queue tells a verdict or is unseen.              *)
LEMMA HandlerMapped ==
  ASSUME MapInd, NEW t \in Tasks, Handler(t)
  PROVE  Box!Next \/ UNCHANGED Box!outboxVars
<1>1. CASE TransportFailure(t) \/ ParsingFailure(t)
  <2>1. PICK code \in {INTERNAL_SERVER_ERROR, PARSING_JSON_ERROR} :
          /\ Notify(t, code) /\ task[t] = "resumed"
          /\ UNCHANGED <<prepared, packet, reply, pair>>
    BY <1>1 DEF TransportFailure, ParsingFailure, HandlerTransportError, HandlerParsingError,
                HandlerFails, clientVars
  <2>2. code \in Callbacks /\ code # "success" /\ code # "ApiError"
    BY DEF Callbacks, INTERNAL_SERVER_ERROR, PARSING_JSON_ERROR
  <2> QED
    BY <2>1, <2>2, NotifyMapped
<1>2. CASE ReceiveJSON(t) \/ SaveReward(t)
  BY <1>2, Unseen DEF ReceiveJSON, HandlerCallsSuccess, CallSuccess, facadeVars, SaveReward,
                      serviceVars, clientVars
<1>3. CASE ApiFailure(t) \/ DeliverSuccess(t)
  <2>1. task[t] # "done"
    BY <1>3 DEF ApiFailure, DeliverSuccess, HandlerReturns, MapInd, Ind, ServiceInd, HandlersSerial
  <2> QED
    BY <1>3, <2>1, NotifyMapped DEF ApiFailure, DeliverSuccess, HandlerReturns, NoError, clientVars,
                                    Callbacks
<1> QED
  BY <1>1, <1>2, <1>3 DEF Handler

(* The end of the process loses what waits, and nothing else.               *)
LEMMA CrashMapped == ASSUME MapInd, Crash PROVE Box!Next
<1>1. prepared' = Empty /\ UNCHANGED <<packet, reply, callback, pair>>
  BY DEF Crash, ServiceCrash
<1>2. \A g \in Groups : Members(prepared'[g[1]][g[2]]) = {}
  BY <1>1, MembersEmpty DEF Empty, Groups
<1>3. Box!Lose
  BY <1>1, <1>2 DEF Box!Lose, FateOf, VerdictOf
<1> QED
  BY <1>3 DEF Box!Next

(* Every step of the facade is one of the outbox, or none of its business.  *)
LEMMA StepMapped == MapInd /\ [Next]_vars => [Box!Next]_(Box!outboxVars)
<1> SUFFICES ASSUME MapInd, [Next]_vars PROVE Box!Next \/ UNCHANGED Box!outboxVars
  OBVIOUS
<1>1. ASSUME NEW t \in Tasks, Call(t) PROVE Box!Next \/ UNCHANGED Box!outboxVars
  BY <1>1, SendPreparedValuesMapped, QueryMapped DEF Call, SendPreparedValues
<1>2. CASE UNCHANGED <<prepared, packet, reply, callback, pair>>
  BY <1>2, Unseen
<1>3. CASE \/ \E u \in Users \cup {Nil} : SetUserId(u)
           \/ \E p \in Projects \cup {Nil} : SetProjectId(p)
           \/ \E kind \in Kinds, u \in Users \cup {Nil} : SendPreparedValuesIgnored(kind, u)
           \/ UNCHANGED vars
  BY <1>2, <1>3 DEF SetUserId, SetProjectId, SendPreparedValuesIgnored, vars, facadeVars, serviceVars
<1> QED
  BY <1>1, <1>3, PrepareValueMapped, ServerAnswersMapped, HandlerMapped, CrashMapped DEF Next

(* The facade implements the outbox: a send takes all that waits, once,     *)
(* nothing of a failed request comes back, and only the end of the process  *)
(* loses a value that waits (BadgeKeeper.m:116-206, 258-273).               *)
THEOREM FacadeImplementsOutbox == Spec => ImplementsOutbox
  BY InitMapped, StepMapped, MapInvariant, PTL DEF Spec, ImplementsOutbox, Box!Spec

-----------------------------------------------------------------------------
(* The sample application. *)
Steps == {"launch", "loop", "setUserId", "prepare", "send"}

ViewTypeOK ==
  /\ login \in Users \cup {Nil}
  /\ enabled \in BOOLEAN
  /\ main \in Steps
  /\ button \in Buttons \cup {"none"}
  /\ waiting \in Tasks \cup {NoTask}
  /\ shown \in Tasks \cup {NoTask}

(* The requests whose answer is still to be shown.                          *)
Answering == InFlight \cup ({waiting} \ {NoTask})

(* A click is handled in one piece of the main thread; from its second step *)
(* on the active user is the login.                                         *)
ClickUnderWay ==
  /\ button = "none" <=> main \in {"launch", "loop"}
  /\ main \in {"prepare", "send"} /\ button # "getProject" => userId = login

(* The process is launched once.                                            *)
NobodyDies == \A t \in Tasks : task[t] # "dead"

Cleared == ~enabled => shown = NoTask

AnswersTheLatest == \A t \in Answering : \A s \in Tasks : s > t => task[s] = "new"

ViewInd ==
  /\ ViewTypeOK
  /\ ClickUnderWay
  /\ NobodyDies
  /\ Cleared
  /\ AnswersTheLatest
  /\ BusyIsOne
  /\ ForTheLoginShown
  /\ ShowsTheLatest
  /\ PostsInOrder

-----------------------------------------------------------------------------
(* A client of the facade. *)

(* The field holds a user's login or nothing, and values are prepared for    *)
(* one of the two kinds.                                                    *)
LoginTyped ==
  /\ login \in Users \cup {Nil}
  /\ main = "prepare" => button \in Kinds

LEMMA LoginStep == LoginTyped /\ [SampleNext]_sampleVars => LoginTyped'
  BY DEF LoginTyped, SampleNext, sampleVars, viewVars, UserActs, MainThread, TypeLogin, Click,
         DidFinishLaunching, SetActiveUser, PrepareKey, MakeRequest, RunMainBlock, SessionQueue,
         FirstStep

(* Each step of the sample is a call of the library, a step of the library  *)
(* itself, or none of its business (BKAchievementViewController.m:158-250). *)
LEMMA SampleStepIsFacadeStep == LoginTyped /\ [SampleNext]_sampleVars => [Next]_vars
<1> SUFFICES ASSUME LoginTyped, [SampleNext]_sampleVars PROVE [Next]_vars
  OBVIOUS
<1>1. CASE DidFinishLaunching
  BY <1>1 DEF DidFinishLaunching, Next
<1>2. CASE SetActiveUser
  BY <1>2 DEF SetActiveUser, LoginTyped, Next
<1>3. CASE PrepareKey
  <2>1. PrepareValue(button, Key)
    BY <1>3 DEF PrepareKey
  <2> QED
    BY <1>3, <2>1, SampleAssumption DEF PrepareKey, LoginTyped, Next
<1>4. ASSUME NEW t \in Tasks, MakeRequest(t) PROVE Next
  <2>1. Call(t)
    BY <1>4 DEF MakeRequest, Call
  <2> QED
    BY <2>1 DEF Next
<1>5. ASSUME NEW t \in Tasks, SessionQueue(t) PROVE Next
  <2>1. Handler(t)
    BY <1>5 DEF SessionQueue
  <2> QED
    BY <2>1 DEF Next
<1>6. ASSUME NEW t \in Tasks, ServerAnswers(t) PROVE Next
  BY <1>6 DEF Next
<1>7. CASE RunMainBlock \/ UserActs \/ UNCHANGED sampleVars
  BY <1>7 DEF RunMainBlock, UserActs, TypeLogin, Click, sampleVars, vars
<1> QED
  BY <1>1, <1>2, <1>3, <1>4, <1>5, <1>6, <1>7 DEF SampleNext, MainThread

(* Every behaviour of the sample is one of the facade, so that whatever is  *)
(* proved of the library holds in the application (AppDelegate.m:21,        *)
(* BKAchievementViewController.m:158-250).                                  *)
THEOREM SampleIsAClient == SampleSpec => Spec
<1>1. SampleInit => Init /\ LoginTyped
  BY DEF SampleInit, LoginTyped
<1> QED
  BY <1>1, LoginStep, SampleStepIsFacadeStep, PTL DEF SampleSpec, Spec

-----------------------------------------------------------------------------
(* The screen: what holds at the start. *)

LEMMA ViewInitInd == SampleInit => ViewInd
<1> SUFFICES ASSUME SampleInit PROVE ViewInd
  OBVIOUS
<1> USE DEF SampleInit, Init, ServiceInit
<1>1. InFlight = {} /\ Answering = {}
  BY DEF InFlight, Answering
<1>2. ViewTypeOK /\ ClickUnderWay /\ NobodyDies /\ Cleared
  BY DEF ViewTypeOK, ClickUnderWay, NobodyDies, Cleared, Steps
<1>3. AnswersTheLatest /\ BusyIsOne /\ ForTheLoginShown /\ ShowsTheLatest
  BY <1>1 DEF AnswersTheLatest, BusyIsOne, ForTheLoginShown, ShowsTheLatest, Answering
<1>4. PostsInOrder
  BY DEF PostsInOrder
<1> QED
  BY <1>2, <1>3, <1>4 DEF ViewInd

(* The steps that leave the requests and the library's queue alone: the     *)
(* order of the posts is not touched by them.                               *)
LEMMA PostsKept ==
  ASSUME PostsInOrder, UNCHANGED <<packet, callback, applied>>
  PROVE  PostsInOrder'
  BY DEF PostsInOrder

(* The steps of the main thread that make no request.                       *)
LEMMA MainStepInd ==
  ASSUME Ind, ViewInd,
         UserActs \/ DidFinishLaunching \/ SetActiveUser \/ PrepareKey \/ RunMainBlock
  PROVE  ViewInd'
<1>1. UNCHANGED <<task, packet, callback, applied>>
  BY DEF UserActs, TypeLogin, Click, DidFinishLaunching, SetActiveUser, PrepareKey, RunMainBlock,
         SetProjectId, SetUserId, PrepareValue, vars, serviceVars, facadeVars
<1>2. InFlight' = InFlight
  BY <1>1 DEF InFlight
<1>3. PostsInOrder' /\ NobodyDies'
  BY <1>1, PostsKept DEF ViewInd, NobodyDies
<1> USE <1>1, <1>2 DEF ViewInd, ViewTypeOK, ClickUnderWay, Cleared, AnswersTheLatest, BusyIsOne,
                       ForTheLoginShown, ShowsTheLatest, Answering, Steps, Buttons, Kinds
<1>4. CASE UserActs
  <2>1. ASSUME NEW text \in Users \cup {Nil}, TypeLogin(text) PROVE ViewInd'
    BY <1>3, <2>1 DEF TypeLogin, FieldEnabled, vars, facadeVars
  <2>2. ASSUME NEW b \in Buttons, Click(b) PROVE ViewInd'
    BY <1>3, <2>2 DEF Click, ButtonsEnabled, FirstStep, vars, facadeVars
  <2> QED
    BY <1>4, <2>1, <2>2 DEF UserActs
<1>5. CASE DidFinishLaunching
  BY <1>3, <1>5 DEF DidFinishLaunching, SetProjectId
<1>6. CASE SetActiveUser
  BY <1>3, <1>6 DEF SetActiveUser, SetUserId
<1>7. CASE PrepareKey
  BY <1>3, <1>7 DEF PrepareKey, PrepareValue
<1>8. CASE RunMainBlock
  BY <1>3, <1>8 DEF RunMainBlock, vars, facadeVars
<1> QED
  BY <1>4, <1>5, <1>6, <1>7, <1>8

(* A handler belongs to a request under way, of which the application was   *)
(* told nothing yet; telling it ends the request.                           *)
LEMMA HandlerFacts ==
  ASSUME Ind, NEW t \in Tasks, Handler(t)
  PROVE  /\ t \in InFlight
         /\ \A s \in Tasks : s # t => task'[s] = task[s] /\ callback'[s] = callback[s]
         /\ callback[t] = <<>>
         /\ IF BlockCalled(t) THEN task'[t] = "done" ELSE task'[t] \in {"resumed", "handling"}
         /\ UNCHANGED <<packet, reply, applied, userId>>
<1> USE DEF Ind, TypeOK, ServiceTypeOK
<1>1. UNCHANGED <<packet, reply, applied, userId>>
  BY DEF Handler, TransportFailure, ParsingFailure, ReceiveJSON, ApiFailure, SaveReward, DeliverSuccess,
         HandlerTransportError, HandlerParsingError, HandlerFails, HandlerCallsSuccess, CallSuccess,
         HandlerReturns, clientVars, facadeVars, serviceVars
<1>2. task[t] \in {"resumed", "handling"}
  BY DEF Handler, TransportFailure, ParsingFailure, ReceiveJSON, ApiFailure, SaveReward, DeliverSuccess,
         HandlerTransportError, HandlerParsingError, HandlerFails, HandlerCallsSuccess, CallSuccess,
         HandlerReturns, ServiceInd, HandlersSerial
<1>3. callback[t] = <<>>
  BY <1>2 DEF ToldTheReply
<1>4. CASE TransportFailure(t) \/ ParsingFailure(t) \/ ApiFailure(t) \/ DeliverSuccess(t)
  <2>1. PICK what : callback' = [callback EXCEPT ![t] = Append(<<>>, what)]
    BY <1>3, <1>4 DEF TransportFailure, ParsingFailure, ApiFailure, DeliverSuccess, Notify
  <2>2. callback'[t] # callback[t]
    BY <1>3, <2>1
  <2>3. task' = [task EXCEPT ![t] = "done"]
    BY <1>4 DEF TransportFailure, ParsingFailure, ApiFailure, DeliverSuccess,
         HandlerTransportError, HandlerParsingError, HandlerFails, HandlerReturns, Ended
  <2> QED
    BY <1>1, <1>2, <1>3, <2>1, <2>2, <2>3 DEF BlockCalled, InFlight
<1>5. CASE ReceiveJSON(t) \/ SaveReward(t)
  <2>1. callback' = callback /\ task' \in {task, [task EXCEPT ![t] = "handling"]}
    BY <1>5 DEF ReceiveJSON, SaveReward, HandlerCallsSuccess, CallSuccess, facadeVars, serviceVars
  <2> QED
    BY <1>1, <1>2, <1>3, <2>1 DEF BlockCalled, InFlight
<1> QED
  BY <1>4, <1>5 DEF Handler

-----------------------------------------------------------------------------
(* The steps of the requests. *)

(* The premise of PostsInOrder. *)
PostsSucceed ==
  \A t \in Tasks : packet[t].kind = "post" => callback[t] \in {<<>>, <<"success">>}

LEMMA SessionQueueInd ==
  ASSUME Ind, ViewInd, NEW t \in Tasks, SessionQueue(t)
  PROVE  ViewInd'
<1>1. /\ t \in InFlight
      /\ \A s \in Tasks : s # t => task'[s] = task[s] /\ callback'[s] = callback[s]
      /\ callback[t] = <<>>
      /\ IF BlockCalled(t) THEN task'[t] = "done" ELSE task'[t] \in {"resumed", "handling"}
      /\ UNCHANGED <<packet, reply, applied, userId>>
  BY HandlerFacts DEF SessionQueue
<1>2. /\ waiting = NoTask
      /\ waiting' = IF BlockCalled(t) THEN t ELSE NoTask
      /\ UNCHANGED <<login, enabled, main, button, shown>>
  BY DEF SessionQueue, DispatchSync
<1>3. InFlight = {t} /\ button = "none" /\ ~enabled /\ task[t] \in {"resumed", "handling"}
  BY <1>1 DEF ViewInd, BusyIsOne, InFlight
<1>4. InFlight' = IF BlockCalled(t) THEN {} ELSE {t}
  BY <1>1, <1>3 DEF InFlight
<1>5. t # NoTask
  BY ServiceAssumption DEF Tasks, NoTask
<1>6. Answering = {t} /\ Answering' = {t}
  BY <1>2, <1>3, <1>4, <1>5 DEF Answering
<1>7. ViewTypeOK' /\ ClickUnderWay' /\ Cleared'
  BY <1>1, <1>2 DEF ViewInd, ViewTypeOK, ClickUnderWay, Cleared
<1>8. NobodyDies' /\ AnswersTheLatest'
  BY <1>1, <1>6 DEF ViewInd, NobodyDies, AnswersTheLatest, Tasks
<1>9. BusyIsOne' /\ ShowsTheLatest'
  BY <1>2, <1>3, <1>4, <1>5 DEF ViewInd, BusyIsOne, ShowsTheLatest, Cleared
<1>10. ForTheLoginShown'
  BY <1>1, <1>2, <1>6 DEF ViewInd, ForTheLoginShown, Answering
<1>11. PostsInOrder'
  <2>1. PostsSucceed' => PostsSucceed
    BY <1>1 DEF PostsSucceed
  <2> QED
    BY <1>1, <2>1 DEF ViewInd, PostsInOrder, PostsSucceed
<1> QED
  BY <1>7, <1>8, <1>9, <1>10, <1>11 DEF ViewInd

(* What the server carried out was sent, and has an answer.                 *)
LEMMA AppliedFacts ==
  ASSUME Ind, NEW i \in DOMAIN applied
  PROVE  applied[i] \in Tasks /\ task[applied[i]] # "new" /\ reply[applied[i]] # NoReply
<1>1. applied \in Seq(Tasks)
  BY DEF Ind, ServiceInd, ServiceTypeOK
<1>2. applied[i] \in Tasks
  BY <1>1
<1>3. PICK s \in Tasks : s = applied[i]
  BY <1>2
<1>4. reply[s].status = "accepted"
  BY <1>3 DEF Ind, ServiceInd, AnswersAreReal
<1>5. reply[s] # NoReply
  BY <1>4 DEF NoReply
<1>6. task[s] # "new"
  BY <1>5 DEF Ind, ServiceInd, AnswersAreReal
<1> QED
  BY <1>2, <1>3, <1>5, <1>6

(* A request is made for the login of the click, as the last one so far.    *)
LEMMA MakeRequestInd ==
  ASSUME Ind, ViewInd, NEW t \in Tasks, MakeRequest(t)
  PROVE  ViewInd'
<1> USE DEF Ind, TypeOK, ServiceTypeOK
<1>1. PICK p : /\ SendPacket(t, p)
               /\ p.kind = button
               /\ button # "getProject" => p.user = userId
  BY DEF MakeRequest, SendPreparedValues, SendPreparedValuesForUserId, ValuesRequest,
         GetUserAchievements, GetProjectAchievements, Kinds
<1>2. /\ task[t] = "new" /\ packet[t] = NoPacket
      /\ task' = [task EXCEPT ![t] = "resumed"] /\ packet' = [packet EXCEPT ![t] = p]
      /\ UNCHANGED <<reply, applied>>
  BY <1>1 DEF SendPacket, SendRequest, Placed, Fresh
<1>3. UNCHANGED <<callback, userId, projectId>>
  BY DEF MakeRequest, SendPreparedValues, SendPreparedValuesForUserId,
         GetUserAchievements, GetProjectAchievements
<1>4. /\ main = "send" /\ main' = "loop" /\ button' = "none"
      /\ UNCHANGED <<login, enabled, waiting, shown>>
  BY DEF MakeRequest
<1>5. /\ button # "none" /\ InFlight = {} /\ waiting = NoTask /\ ~enabled /\ shown = NoTask
      /\ button # "getProject" => userId = login
  BY <1>4 DEF ViewInd, ClickUnderWay, BusyIsOne, Cleared
<1>6. InFlight' = {t} /\ Answering' = {t}
  BY <1>2, <1>4, <1>5 DEF InFlight, Answering, ViewInd, NobodyDies
<1>7. ViewTypeOK' /\ ClickUnderWay' /\ Cleared' /\ BusyIsOne' /\ ShowsTheLatest'
  BY <1>4, <1>5, <1>6 DEF ViewInd, ViewTypeOK, ClickUnderWay, Cleared, BusyIsOne, ShowsTheLatest,
                           Steps, Buttons
<1>8. NobodyDies'
  BY <1>2 DEF ViewInd, NobodyDies
<1>9. AnswersTheLatest'
  BY <1>2, <1>6 DEF Placed, Fresh, AnswersTheLatest, Tasks
<1>10. ForTheLoginShown'
  BY <1>1, <1>2, <1>4, <1>5, <1>6 DEF ForTheLoginShown, Answering
<1>11. PostsInOrder'
  <2>1. \A i \in DOMAIN applied : applied[i] \in Tasks /\ applied[i] # t
    BY <1>2, AppliedFacts
  <2>2. PostsSucceed' => PostsSucceed
    BY <1>2, <1>3 DEF PostsSucceed, NoPacket
  <2> QED
    BY <1>2, <1>3, <2>1, <2>2 DEF ViewInd, PostsInOrder, PostsSucceed
<1> QED
  BY <1>7, <1>8, <1>9, <1>10, <1>11 DEF ViewInd

(* A request that the server carries out now, after a later one, was given  *)
(* up by the client: it failed.                                             *)
LEMMA ServerStepInd ==
  ASSUME Ind, ViewInd, NEW t \in Tasks, ServerAnswers(t), UNCHANGED viewVars
  PROVE  ViewInd'
<1> USE DEF Ind
<1>1. /\ task[t] # "new" /\ reply[t] = NoReply
      /\ applied' = applied \/ applied' = Append(applied, t)
      /\ UNCHANGED <<task, packet, callback, userId>>
  BY DEF ServerAnswers, ServerRejects, ServerAccepts, Reaches, facadeVars
<1>2. InFlight' = InFlight /\ Answering' = Answering
  BY <1>1 DEF InFlight, Answering, viewVars
<1>3. ViewTypeOK' /\ ClickUnderWay' /\ NobodyDies' /\ Cleared' /\ AnswersTheLatest'
  BY <1>1, <1>2 DEF ViewInd, ViewTypeOK, ClickUnderWay, NobodyDies, Cleared, AnswersTheLatest, viewVars
<1>4. BusyIsOne' /\ ForTheLoginShown' /\ ShowsTheLatest'
  BY <1>1, <1>2 DEF ViewInd, BusyIsOne, ForTheLoginShown, ShowsTheLatest, Answering, viewVars
<1>5. ASSUME PostsSucceed, packet[t].kind = "post", NEW i \in DOMAIN applied
      PROVE  applied[i] < t
  <2>1. applied[i] \in Tasks /\ applied[i] # t /\ task[applied[i]] # "new"
    BY <1>1, AppliedFacts
  <2>2. ~(t < applied[i])
    <3>1. SUFFICES ASSUME t < applied[i] PROVE FALSE
      OBVIOUS
    <3>2. t \notin InFlight
      <4>1. ASSUME t \in Answering PROVE task[applied[i]] = "new"
        BY <2>1, <3>1, <4>1 DEF ViewInd, AnswersTheLatest, Tasks
      <4> QED
        BY <2>1, <4>1 DEF Answering
    <3>3. task[t] = "done"
      <4>1. task[t] \in TaskStates
        BY DEF TypeOK, ServiceTypeOK
      <4> QED
        BY <1>1, <3>2, <4>1 DEF ViewInd, NobodyDies, InFlight, TaskStates
    <3>4. callback[t] = <<"success">>
      <4>1. Len(callback[t]) = 1
        BY <3>3 DEF ToldTheReply
      <4>2. callback[t] # <<>>
        <5>1. Len(<<>>) = 0
          OBVIOUS
        <5> QED
          BY ONLY <4>1, <5>1
      <4> QED
        BY <1>5, <4>2 DEF PostsSucceed
    <3>5. reply[t].status = "accepted"
      BY <3>4 DEF ToldTheReply
    <3> QED
      BY <1>1, <3>5 DEF NoReply
  <2> QED
    BY <2>1, <2>2 DEF Tasks
<1>6. PostsInOrder'
  <2>1. CASE applied' = applied
    BY <1>1, <2>1, PostsKept DEF ViewInd
  <2>2. CASE applied' = Append(applied, t)
    <3>1. PICK N \in Nat : N = Len(applied) /\ DOMAIN applied = 1 .. N /\ DOMAIN applied' = 1 .. (N + 1)
      BY <2>2
    <3>2. \A i \in 1 .. N : applied'[i] = applied[i]
      BY <2>2, <3>1
    <3>3. applied'[N + 1] = t
      BY <2>2, <3>1
    <3>4. ASSUME PostsSucceed, NEW m \in 1 .. (N + 1), NEW n \in 1 .. (N + 1), m < n,
                 packet[applied'[m]].kind = "post", packet[applied'[n]].kind = "post"
          PROVE  applied'[m] < applied'[n]
      <4>1. m \in 1 .. N
        BY <3>4
      <4>2. CASE n \in 1 .. N
        BY <3>1, <3>2, <3>4, <4>1, <4>2 DEF ViewInd, PostsInOrder, PostsSucceed
      <4>3. CASE n = N + 1
        BY <1>5, <3>1, <3>2, <3>3, <3>4, <4>1, <4>3
      <4> QED
        BY <4>2, <4>3
    <3> QED
      BY <1>1, <3>1, <3>4 DEF PostsInOrder, PostsSucceed
  <2> QED
    BY <1>1, <2>1, <2>2
<1> QED
  BY <1>3, <1>4, <1>6 DEF ViewInd

LEMMA ViewNextInd == Ind /\ ViewInd /\ [SampleNext]_sampleVars => ViewInd'
<1> SUFFICES ASSUME Ind, ViewInd, [SampleNext]_sampleVars PROVE ViewInd'
  OBVIOUS
<1>1. CASE UNCHANGED sampleVars
  BY <1>1 DEF sampleVars, viewVars, vars, serviceVars, facadeVars, ViewInd, ViewTypeOK, ClickUnderWay,
              NobodyDies, Cleared, AnswersTheLatest, BusyIsOne, ForTheLoginShown, ShowsTheLatest,
              PostsInOrder, InFlight, Answering
<1> QED
  BY <1>1, MainStepInd, SessionQueueInd, MakeRequestInd, ServerStepInd DEF SampleNext, MainThread

(* The screen follows one request at a time: the buttons are disabled       *)
(* exactly while a request is handled, its answer is for the login in the   *)
(* field, what is shown is the latest answer, and posts that all succeed    *)
(* are carried out in the order of the clicks                               *)
(* (BKAchievementViewController.m:65-67, 158-193).                          *)
THEOREM ScreenAlwaysFollows == SampleSpec => []ScreenFollows
<1>1. ViewInd => ScreenFollows
  BY DEF ViewInd, ScreenFollows
<1> QED
  BY <1>1, SampleIsAClient, Invariant, ViewInitInd, ViewNextInd, PTL DEF SampleSpec

=============================================================================
