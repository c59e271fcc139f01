---------------------------- MODULE BadgeKeeper ----------------------------
(***************************************************************************)
(* The BadgeKeeper singleton (BadgeKeeper.m) on top of the network layer   *)
(* and over the reward table of BKEntityStorage.                           *)
(*                                                                         *)
(* The application's thread sets the active user and project, prepares     *)
(* values and sends what it prepared.  Answers come back on the session's  *)
(* queue, where the rewards of an unlocked achievement are saved one by    *)
(* one and the application's block is called.  The process may end between *)
(* any two steps: prepared values and requests in flight go, saved rewards *)
(* and what the server did stay.                                           *)
(*                                                                         *)
(* The application calls the library from one thread here, so each method  *)
(* call is one step.                                                       *)
(***************************************************************************)
EXTENDS BKApiService

CONSTANTS
  Users,       (* user IDs                                                *)
  Projects,    (* project IDs                                             *)
  Keys,        (* keys of the prepared values                             *)
  Nil,         (* nil, for a user or project that is not set              *)
  MaxPairs,    (* bound: how many values are prepared in a behaviour      *)
  MaxLaunches  (* bound: how many times the process is launched           *)

ASSUME BadgeKeeperAssumption ==
  /\ Nil \notin Users \cup Projects
  /\ MaxPairs \in Nat
  /\ MaxLaunches \in Nat \ {0}

VARIABLES
  userId,    (* property userId: the active user                          *)
  projectId, (* property projectId                                        *)
  prepared,  (* postValues and incrementValues: pairs waiting, per user   *)
  packet,    (* the request each task carries                             *)
  rewards,   (* the reward table: rows in the order they were committed   *)
  saved,     (* how many rewards the running handler has saved            *)
  callback,  (* the application's blocks called for each task, in order   *)
  pair,      (* history: every BKPair ever made, by number                *)
  launch     (* history: which launch of the process this is              *)

clientVars == <<userId, projectId, prepared>>
facadeVars == <<userId, projectId, prepared, packet, rewards, saved,
                callback, pair, launch>>
vars == <<serviceVars, facadeVars>>

(* The two dictionaries, and the requests that carry no values. *)
Kinds == {"post", "increment"}
Queries == {"getProject", "getUser"}

(* A BKPair is known by its number: it stands for the object, whose value   *)
(* no other pair shares.  The record keeps its key and, as history, for     *)
(* whom, for which dictionary and in which launch it was made.              *)
Pairs == 1 .. MaxPairs
PairRecord == [kind : Kinds, user : Users, key : Keys, launch : 1 .. MaxLaunches]

Packet == [kind : Kinds \cup Queries, project : Projects \cup {Nil},
           user : Users \cup {Nil}, pairs : Seq(Pairs)]
NoPacket == [kind |-> "none", project |-> Nil, user |-> Nil, pairs |-> <<>>]

(* A BKEntityReward row, with the task and the place in its answer that it  *)
(* came from as history.                                                    *)
Row == [user : Users, name : RewardNames, task : Tasks, index : Nat \ {0}]

(* What the application is told: its success block, or its failure block    *)
(* with one of the two codes of the service or the code of the server.      *)
Callbacks == {"success", "ApiError", INTERNAL_SERVER_ERROR, PARSING_JSON_ERROR}

TypeOK ==
  /\ ServiceTypeOK
  /\ userId \in Users \cup {Nil}
  /\ projectId \in Projects \cup {Nil}
  /\ prepared \in [Kinds -> [Users -> Seq(Pairs)]]
  /\ packet \in [Tasks -> Packet \cup {NoPacket}]
  /\ rewards \in Seq(Row)
  /\ saved \in Nat
  /\ callback \in [Tasks -> Seq(Callbacks)]
  /\ pair \in Seq(PairRecord)
  /\ launch \in 1 .. MaxLaunches

Empty == [k \in Kinds |-> [u \in Users |-> <<>>]]

(* initPrivate: empty dictionaries, and no property is set. *)
Init ==
  /\ ServiceInit
  /\ userId = Nil
  /\ projectId = Nil
  /\ prepared = Empty
  /\ packet = [t \in Tasks |-> NoPacket]
  /\ rewards = <<>>
  /\ saved = 0
  /\ callback = [t \in Tasks |-> <<>>]
  /\ pair = <<>>
  /\ launch = 1

-----------------------------------------------------------------------------
(* The application's thread. *)

SetUserId(u) ==
  /\ userId' = u
  /\ UNCHANGED <<serviceVars, projectId, prepared, packet, rewards, saved,
                 callback, pair, launch>>

SetProjectId(p) ==
  /\ projectId' = p
  /\ UNCHANGED <<serviceVars, userId, prepared, packet, rewards, saved,
                 callback, pair, launch>>

(* A pair joins the array of its user. *)
Prepended(pairs, p) == <<p>> \o pairs (* Mutant: in front. *)

AddObject(pairs, p) == Append(pairs, p)

(* preparePostValue:forKey: and prepareIncrementValue:forKey:.  A new pair  *)
(* goes to the end of the active user's array, also when the key is already *)
(* there.  With no active user the dictionary raises on its nil key and the *)
(* program ends, so the call is made with a user set.                       *)
PrepareValue(kind, key) ==
  /\ userId \in Users
  /\ Len(pair) < MaxPairs
  /\ pair' = Append(pair, [kind |-> kind, user |-> userId, key |-> key, launch |-> launch])
  /\ prepared' = [prepared EXCEPT ![kind][userId] = AddObject(@, Len(pair) + 1)]
  /\ UNCHANGED <<serviceVars, userId, projectId, packet, rewards, saved,
                 callback, launch>>

SendPacket(t, p) ==
  /\ SendRequest(t)
  /\ packet' = [packet EXCEPT ![t] = p]

HasPrepared(kind, u) == u \in Users /\ prepared[kind][u] # <<>>

(* The request for a user's values. *)
RequestOfActiveUser(kind, u) == (* Mutant: made for whoever is active. *)
  [kind |-> kind, project |-> projectId, user |-> userId, pairs |-> prepared[kind][u]]

ValuesRequest(kind, u) ==
  [kind |-> kind, project |-> projectId, user |-> u, pairs |-> prepared[kind][u]]

(* The dictionaries without them. *)
NothingRemoved(kind, u) == prepared (* Mutant: they stay until the answer. *)

AllRemoved(kind, u) == (* Mutant: removeAllObjects. *)
  [prepared EXCEPT ![kind] = [v \in Users |-> <<>>]]

Removed(kind, u) == [prepared EXCEPT ![kind][u] = <<>>]

(* postPreparedValuesForUserId: and incrementPreparedValuesForUserId: send  *)
(* everything prepared for the user in one request and forget it at once.   *)
SendPreparedValuesForUserId(kind, u, t) ==
  /\ HasPrepared(kind, u)
  /\ SendPacket(t, ValuesRequest(kind, u))
  /\ prepared' = Removed(kind, u)
  /\ UNCHANGED <<userId, projectId, rewards, saved, callback, pair, launch>>

(* postPreparedValuesWithSuccess: and incrementPreparedValuesWithSuccess:.  *)
SendPreparedValues(kind, t) == SendPreparedValuesForUserId(kind, userId, t)

(* With nothing prepared, or with nil for the user, the same calls return   *)
(* without a request and without calling a block.                           *)
SendPreparedValuesIgnored(kind, u) ==
  /\ ~HasPrepared(kind, u)
  /\ UNCHANGED vars

(* getProjectAchievementsWithSuccess: needs no user.                        *)
GetProjectAchievements(t) ==
  /\ SendPacket(t, [kind |-> "getProject", project |-> projectId, user |-> Nil,
                    pairs |-> <<>>])
  /\ UNCHANGED <<userId, projectId, prepared, rewards, saved, callback, pair, launch>>

GetUserAchievements(t) ==
  /\ SendPacket(t, [kind |-> "getUser", project |-> projectId, user |-> userId,
                    pairs |-> <<>>])
  /\ UNCHANGED <<userId, projectId, prepared, rewards, saved, callback, pair, launch>>

-----------------------------------------------------------------------------
(* The session's queue: the block of sendPacket: and the internal callbacks. *)

Notify(t, what) == callback' = [callback EXCEPT ![t] = Append(@, what)]

(* Mutant: the values of a failed request wait again. *)
TransportFailureGivesBack(t) ==
  /\ HandlerTransportError(t)
  /\ Notify(t, INTERNAL_SERVER_ERROR)
  /\ prepared' = IF packet[t].kind \in Kinds
                  THEN [prepared EXCEPT ![packet[t].kind][packet[t].user] = packet[t].pairs \o @]
                  ELSE prepared
  /\ UNCHANGED <<userId, projectId, packet, rewards, saved, pair, launch>>

(* The service's failure goes to the application's failure block unchanged. *)
TransportFailure(t) ==
  /\ HandlerTransportError(t)
  /\ Notify(t, INTERNAL_SERVER_ERROR)
  /\ UNCHANGED <<clientVars, packet, rewards, saved, pair, launch>>

ParsingFailure(t) ==
  /\ HandlerParsingError(t)
  /\ Notify(t, PARSING_JSON_ERROR)
  /\ UNCHANGED <<clientVars, packet, rewards, saved, pair, launch>>

ReceiveJSON(t) ==
  /\ HandlerCallsSuccess(t)
  /\ UNCHANGED facadeVars

(* Mutant: the failure block is not called. *)
ApiFailureSilent(t) ==
  reply[t].status = "rejected" /\ HandlerReturns(t) /\ UNCHANGED facadeVars

(* if (response.error): only the failure block is called. *)
ApiFailure(t) ==
  /\ reply[t].status = "rejected"
  /\ HandlerReturns(t)
  /\ Notify(t, "ApiError")
  /\ UNCHANGED <<clientVars, packet, rewards, saved, pair, launch>>

(* Only the internal callbacks of the two value requests save rewards. *)
Granted(t) == IF packet[t].kind \in Kinds THEN Len(reply[t].rewards) ELSE 0

GrantedButLast(t) == (* Mutant: the loop stops one reward early. *)
  IF Granted(t) = 0 THEN 0 ELSE Granted(t) - 1

ToSave(t) == Granted(t)

(* The object for the next reward of an answer. *)
RowOf(t, user) == [user |-> user, name |-> reply[t].rewards[saved + 1],
                   task |-> t, index |-> saved + 1]

RowForActiveUser(t) == RowOf(t, userId) (* Mutant: the user active by now. *)

NextRow(t) == RowOf(t, packet[t].user)

(* response.error is nil. *)
Unchecked(t) == TRUE (* Mutant: it is not looked at. *)

NoError(t) == reply[t].status = "accepted"

(* saveRewardsForUser:withUnlockedAchievements: one committed transaction   *)
(* for each reward, for the user the request was made for.                  *)
SaveReward(t) ==
  /\ running = t
  /\ NoError(t)
  /\ saved < ToSave(t)
  /\ rewards' = Append(rewards, NextRow(t))
  /\ saved' = saved + 1
  /\ UNCHANGED <<serviceVars, clientVars, packet, callback, pair, launch>>

(* Then the application's success block. *)
DeliverSuccess(t) ==
  /\ NoError(t)
  /\ saved = ToSave(t)
  /\ HandlerReturns(t)
  /\ Notify(t, "success")
  /\ saved' = 0
  /\ UNCHANGED <<clientVars, packet, rewards, pair, launch>>

-----------------------------------------------------------------------------

(* The server's answer to a query grants no reward. *)
ServerAnswers(t) ==
  /\ \/ ServerRejects(t)
     \/ \E rs \in Results :
          /\ packet[t].kind \in Queries => rs = <<>>
          /\ ServerAccepts(t, rs)
  /\ UNCHANGED facadeVars

(* The process ends and is launched again: the singleton is made anew. *)
Crash ==
  /\ launch < MaxLaunches
  /\ launch' = launch + 1
  /\ ServiceCrash
  /\ userId' = Nil
  /\ projectId' = Nil
  /\ prepared' = Empty
  /\ saved' = 0
  /\ UNCHANGED <<packet, rewards, callback, pair>>

Call(t) ==
  \/ \E kind \in Kinds : SendPreparedValues(kind, t)
  \/ \E kind \in Kinds, u \in Users : SendPreparedValuesForUserId(kind, u, t)
  \/ GetProjectAchievements(t)
  \/ GetUserAchievements(t)

Handler(t) ==
  \/ TransportFailure(t)
  \/ ParsingFailure(t)
  \/ ReceiveJSON(t)
  \/ ApiFailure(t)
  \/ SaveReward(t)
  \/ DeliverSuccess(t)

Next ==
  \/ \E u \in Users \cup {Nil} : SetUserId(u)
  \/ \E p \in Projects \cup {Nil} : SetProjectId(p)
  \/ \E kind \in Kinds, key \in Keys : PrepareValue(kind, key)
  \/ \E kind \in Kinds, u \in Users \cup {Nil} : SendPreparedValuesIgnored(kind, u)
  \/ \E t \in Tasks : Call(t) \/ ServerAnswers(t) \/ Handler(t)
  \/ Crash

Spec == Init /\ [][Next]_vars

(* Fairness is that of the network layer: data tasks complete and the       *)
(* serial queue runs handlers to their end.  The application may stop       *)
(* calling, the server may never answer.                                    *)
FairSpec == Spec /\ \A t \in Tasks : WF_vars(Handler(t))

-----------------------------------------------------------------------------
(* Properties. *)

Increasing(s) == \A i, j \in DOMAIN s : i < j => s[i] < s[j]
AllBefore(s, r) == \A i \in DOMAIN s, j \in DOMAIN r : s[i] < r[j]

MadeFor(p, kind, u) ==
  /\ p \in DOMAIN pair
  /\ pair[p].kind = kind
  /\ pair[p].user = u

(* Requests that carry values of the same kind for the same user.           *)
SameQueue(s, t) ==
  packet[s].kind = packet[t].kind /\ packet[s].user = packet[t].user

(* A value stays with the user who was active when it was prepared, and     *)
(* with the dictionary it was prepared into, while it waits and in the      *)
(* request that carries it, whichever user is active by then                *)
(* (BadgeKeeper.m:124-132, 145-151, 182-188).  What waits was prepared in   *)
(* this launch of the process.                                              *)
Owned ==
  /\ \A kind \in Kinds, u \in Users : \A i \in DOMAIN prepared[kind][u] :
       /\ MadeFor(prepared[kind][u][i], kind, u)
       /\ pair[prepared[kind][u][i]].launch = launch
  /\ \A t \in Tasks : \A i \in DOMAIN packet[t].pairs :
       MadeFor(packet[t].pairs[i], packet[t].kind, packet[t].user)

(* The values of one user and one kind leave in the order in which they     *)
(* were prepared: inside a request, from an earlier request to a later one, *)
(* and from the requests to what still waits (BadgeKeeper.m:131, 151-154).  *)
SentInOrder ==
  /\ \A kind \in Kinds, u \in Users : Increasing(prepared[kind][u])
  /\ \A t \in Tasks : Increasing(packet[t].pairs)
  /\ \A s, t \in Tasks :
       s < t /\ SameQueue(s, t) => AllBefore(packet[s].pairs, packet[t].pairs)
  /\ \A t \in Tasks, kind \in Kinds, u \in Users :
       packet[t].kind = kind /\ packet[t].user = u
         => AllBefore(packet[t].pairs, prepared[kind][u])

(* The server is never told the same value twice: no two requests it carried *)
(* out share a pair and none holds a pair twice, whatever was posted from   *)
(* which callback, failed, or was cut short.  An increment would count      *)
(* double (BadgeKeeper.m:153-154, 190-191 drop a pair before it is sent).   *)
NeverAppliedTwice ==
  \A m, n \in DOMAIN applied :
    \A i \in DOMAIN packet[applied[m]].pairs, j \in DOMAIN packet[applied[n]].pairs :
      packet[applied[m]].pairs[i] = packet[applied[n]].pairs[j] => m = n /\ i = j

(* No value of the running process goes astray between the dictionary and   *)
(* the network: it waits for its user or is in a request of its kind and    *)
(* user that was handed to the session.                                     *)
NothingMislaid ==
  \A p \in DOMAIN pair :
    pair[p].launch = launch =>
      \/ \E i \in DOMAIN prepared[pair[p].kind][pair[p].user] :
           prepared[pair[p].kind][pair[p].user][i] = p
      \/ \E t \in Tasks : \E i \in DOMAIN packet[t].pairs :
           packet[t].pairs[i] = p /\ task[t] # "new"

(* The places of the rows that came from one answer.                        *)
RowsOf(t) == {i \in DOMAIN rewards : rewards[i].task = t}

StoredAt(t, index) == \E i \in RowsOf(t) : rewards[i].index = index
AllStored(t) == \A index \in DOMAIN reply[t].rewards : StoredAt(t, index)

(* What a row of an answer is: one of the rewards it granted, under its     *)
(* name, for the user of the request.                                       *)
TrueRow(t, row) ==
  /\ row.index \in DOMAIN reply[t].rewards
  /\ row.name = reply[t].rewards[row.index]
  /\ row.user = packet[t].user

(* Rewards are stored once each, in the order of the answer that granted    *)
(* them, for the user whose request it was and not for the user who is      *)
(* active when the answer comes; the process may end after any number of    *)
(* them, and then the rest are never stored, but none is skipped            *)
(* (BadgeKeeper.m:213-225).  Nothing is stored from an answer that was      *)
(* refused, or never handled.                                               *)
RewardsStoredFaithfully ==
  \A t \in Tasks :
    /\ \A i \in RowsOf(t) : TrueRow(t, rewards[i])
    /\ \A i, j \in RowsOf(t) : i < j => rewards[i].index < rewards[j].index
    /\ \A i \in RowsOf(t) : \A index \in 1 .. rewards[i].index : StoredAt(t, index)
    /\ RowsOf(t) # {} => called[t] = <<"json">> /\ packet[t].kind \in Kinds
    /\ callback[t] = <<"success">> /\ packet[t].kind \in Kinds => AllStored(t)

(* The application is told about every call that made a request exactly     *)
(* once, and what it is told is true: success means that the server carried *)
(* it out, the server's error code that it refused.  The two codes of the   *)
(* service mean nothing about the server (BadgeKeeper.m:262-272,            *)
(* BKApiService.m:63-84).                                                   *)
ToldOnceAndTruly ==
  \A t \in Tasks :
    /\ task[t] = "done" <=> Len(callback[t]) = 1
    /\ task[t] # "done" => callback[t] = <<>>
    /\ callback[t] = <<"success">> => \E i \in DOMAIN applied : applied[i] = t
    /\ callback[t] = <<"ApiError">> => \A i \in DOMAIN applied : applied[i] # t

(* The application hears of every request it made, unless the process ends: *)
(* the reward loop and the two branches of sendPacket: always come to the   *)
(* application's block (BadgeKeeper.m:213-225, 262-272).                    *)
EveryCallAnswered ==
  \A t \in Tasks : task[t] = "resumed" ~> callback[t] # <<>> \/ task[t] = "dead"

(* Once an answer that grants rewards is being handled, all of them are     *)
(* stored, unless the process ends.                                         *)
GrantsStored ==
  \A t \in Tasks :
    task[t] = "handling" /\ packet[t].kind \in Kinds
      ~> AllStored(t) \/ task[t] = "dead"

=============================================================================
