-------------------------- MODULE BadgeKeeperCalls --------------------------
(***************************************************************************)
(* The calls of BadgeKeeper as its header documents them, stated of the     *)
(* program BadgeKeeper models.  The latest call that sends prepared values  *)
(* is kept, so that a property can speak of its argument.                  *)
(***************************************************************************)
EXTENDS BadgeKeeper, SequencesExt

VARIABLE asked (* history: the call the latest step was, if it was a send   *)

callsVars == <<vars, asked>>

NoCall == [kind |-> "none", user |-> Nil]
SendCall(kind, u) == [kind |-> kind, user |-> u]

CallsInit == Init /\ asked = NoCall

CallsNext ==
  \/ Next /\ asked' = NoCall
  \/ \E kind \in Kinds, u \in Users, t \in Tasks :
       SendPreparedValuesForUserId(kind, u, t) /\ asked' = SendCall(kind, u)
  \/ \E kind \in Kinds, u \in Users \cup {Nil} :
       SendPreparedValuesIgnored(kind, u) /\ asked' = SendCall(kind, u)

CallsSpec == CallsInit /\ [][CallsNext]_callsVars

-----------------------------------------------------------------------------
(* The documented statements. *)

(* The user a call is for: "If set to nil then current active user ID will  *)
(* be used." (BadgeKeeper.h:100, 120)                                       *)
UserOf(call) == IF call.user = Nil THEN userId ELSE call.user

(* postPreparedValuesForUserId: and incrementPreparedValuesForUserId: send  *)
(* what is prepared for their user, the active one when they are given nil; *)
(* afterwards nothing of it waits.                                         *)
NilMeansActiveUser ==
  asked.kind \in Kinds /\ UserOf(asked) \in Users
    => prepared[asked.kind][UserOf(asked)] = <<>>

(* "After successful sending all prepared values will be removed from       *)
(* memory." (BadgeKeeper.h:110, 119): the values of an increment whose      *)
(* application was told of a failure are still in memory, or went with      *)
(* another request.                                                        *)
IncrementsKeptUntilSent ==
  \A t \in Tasks :
    /\ packet[t].kind = "increment"
    /\ callback[t] \notin {<<>>, <<"success">>}
    => \A i \in DOMAIN packet[t].pairs :
         LET p == packet[t].pairs[i] IN
           \/ Contains(prepared["increment"][packet[t].user], p)
           \/ \E s \in Tasks \ {t} : Contains(packet[s].pairs, p)

(* The posted values of a user and key, in the order the server set them.   *)
ValuesSet(u, key) ==
  LET Posted(t) ==
        IF packet[t].kind = "post" /\ packet[t].user = u THEN packet[t].pairs ELSE <<>>
  IN SelectSeq(FlattenSeq([m \in DOMAIN applied |-> Posted(applied[m])]),
               LAMBDA p : pair[p].key = key)

(* "New value to set. Old value will be overwritten." (BadgeKeeper.h:76):   *)
(* when every post was answered with success, the server holds the newest   *)
(* of the values that were sent.                                           *)
NewestValueStands ==
  (\A t \in Tasks : packet[t].kind = "post" => callback[t] = <<"success">>)
    => \A u \in Users, key \in Keys :
         \A i \in DOMAIN ValuesSet(u, key) : ValuesSet(u, key)[i] <= Last(ValuesSet(u, key))

=============================================================================
