--------------------------- MODULE PreparedValues ---------------------------
(***************************************************************************)
(* One of the two dictionaries of BadgeKeeper.m, used from several threads *)
(* at once.  README.md tells the application that its blocks run on        *)
(* another thread, so a block that prepares or sends values runs beside    *)
(* the main thread, and no method of BadgeKeeper takes a lock.             *)
(*                                                                         *)
(* A call is several steps here, one for each call it makes on an object   *)
(* another thread may hold.  Arrays are objects: the dictionary, a local   *)
(* variable and a request can name the same one.  A call on a Foundation   *)
(* collection is one step; what the collections do when two threads are    *)
(* inside one of them at the same instant is not modelled.                 *)
(***************************************************************************)
EXTENDS Naturals, Sequences

CONSTANTS
  Threads,  (* the threads that call the library                          *)
  Users,    (* user IDs                                                   *)
  MaxPrepared, (* bound: how many values are prepared                        *)
  MaxCalls  (* bound: how many calls are made                             *)

ASSUME PreparedValuesAssumption ==
  /\ MaxPrepared \in Nat
  /\ MaxCalls \in Nat

VARIABLES
  kind,       (* which dictionary this is: postValues or incrementValues  *)
  userId,     (* property userId                                          *)
  dictionary, (* the array of each user, or NoArray                       *)
  arrays,     (* the contents of every array made so far                  *)
  local,      (* the call each thread is in, with its local variables     *)
  sent,       (* the bodies handed to the network, in order               *)
  raised,     (* an exception ended the process                           *)
  made,       (* history: for each pair, its user and the call that made it *)
  calls,      (* history: how many calls were begun                       *)
  raced       (* history: the calls that met another one halfway          *)

preparedVars == <<kind, userId, dictionary, arrays, local, sent, raised, made, calls, raced>>

NoArray == 0

(* A call: its operation and next step, the user it is for, the array in    *)
(* its variable `pairs`, the pair it made or the pairs it read.             *)
Idle == [op |-> "none", pc |-> "idle", user |-> CHOOSE u \in Users : TRUE,
         array |-> NoArray, pair |-> 0, count |-> 0, call |-> 0]

PreparedInit ==
  /\ kind \in {"post", "increment"}
  /\ userId \in Users
  /\ dictionary = [u \in Users |-> NoArray]
  /\ arrays = <<>>
  /\ local = [t \in Threads |-> Idle]
  /\ sent = <<>>
  /\ raised = FALSE
  /\ made = <<>>
  /\ calls = 0
  /\ raced = {}

At(t, op, pc) == ~raised /\ local[t].op = op /\ local[t].pc = pc

Goto(t, pc) == local' = [local EXCEPT ![t].pc = pc]

Return(t) == local' = [local EXCEPT ![t] = Idle]

(* A new array, and the name it gets.                                       *)
NewArray == Len(arrays) + 1

-----------------------------------------------------------------------------
(* Two calls meet when one for the same user begins while the other is      *)
(* under way and one of them may replace what the other holds: one sends,   *)
(* or one is going to set a new array.                                      *)
Met(t, op, user) ==
  {s \in Threads \ {t} :
     /\ local[s].op # "none"
     /\ local[s].user = user
     /\ \/ "send" \in {op, local[s].op}
        \/ dictionary[user] = NoArray
        \/ local[s].pc = "insert"}

Begin(t, op, user, pair) ==
  /\ ~raised
  /\ local[t] = Idle
  /\ calls < MaxCalls
  /\ local' = [local EXCEPT ![t] = [Idle EXCEPT !.op = op, !.pc = "lookup",
                 !.user = user, !.pair = pair, !.call = calls + 1]]
  /\ calls' = calls + 1
  /\ raced' = IF Met(t, op, user) = {} THEN raced
              ELSE raced \cup {calls + 1} \cup {local[s].call : s \in Met(t, op, user)}

SetUserId(u) ==
  /\ ~raised
  /\ userId' = u
  /\ UNCHANGED <<kind, dictionary, arrays, local, sent, raised, made, calls, raced>>

-----------------------------------------------------------------------------
(* prepareValue:forKey:intoDictionary: *)

(* The active user is read once, then the pair is made.                     *)
PrepareBegins(t) ==
  /\ Len(made) < MaxPrepared
  /\ Begin(t, "prepare", userId, Len(made) + 1)
  /\ made' = Append(made, [user |-> userId, call |-> calls + 1])
  /\ UNCHANGED <<kind, userId, dictionary, arrays, sent, raised>>

(* if (![dictionary objectForKey:userId])                                   *)
PrepareLooksUp(t) ==
  /\ At(t, "prepare", "lookup")
  /\ Goto(t, IF dictionary[local[t].user] = NoArray THEN "insert" ELSE "fetch")
  /\ UNCHANGED <<kind, userId, dictionary, arrays, sent, raised, made, calls, raced>>

(* The user whose array the pair joins.                                     *)
ActiveUser(t) == userId (* Mutant: the property is read again. *)

PairUser(t) == local[t].user

SetNewArray(t) ==
  /\ At(t, "prepare", "insert")
  /\ arrays' = Append(arrays, <<>>)
  /\ dictionary' = [dictionary EXCEPT ![PairUser(t)] = NewArray]
  /\ UNCHANGED <<kind, userId, sent, raised, made, calls, raced>>

(* Mutant: the pair is added only where there was an array. *)
PrepareInsertsOnly(t) == SetNewArray(t) /\ Return(t)

(* setObject:[NSMutableArray new] forKey:userId, whatever is there by now.  *)
PrepareInserts(t) == SetNewArray(t) /\ Goto(t, "fetch")

(* dictionary[userId] is read again: what it names now may be another array *)
(* than the one looked up or set, or nil.                                   *)
PrepareFetches(t) ==
  /\ At(t, "prepare", "fetch")
  /\ local' = [local EXCEPT ![t].pc = "add", ![t].array = dictionary[PairUser(t)]]
  /\ UNCHANGED <<kind, userId, dictionary, arrays, sent, raised, made, calls, raced>>

(* addObject: to that array, whoever holds it by now; to nil it does nothing. *)
PrepareAdds(t) ==
  /\ At(t, "prepare", "add")
  /\ arrays' = IF local[t].array = NoArray THEN arrays
               ELSE [arrays EXCEPT ![local[t].array] = Append(@, local[t].pair)]
  /\ Return(t)
  /\ UNCHANGED <<kind, userId, dictionary, sent, raised, made, calls, raced>>

-----------------------------------------------------------------------------
(* postPreparedValuesForUserId: and incrementPreparedValuesForUserId: *)

SendBegins(t, u) ==
  /\ Begin(t, "send", u, 0)
  /\ UNCHANGED <<kind, userId, dictionary, arrays, sent, raised, made>>

(* pairs = objectForKey:, then pairs.count: an array that is empty, or none,*)
(* ends the call.                                                           *)
SendLooksUp(t) ==
  LET array == dictionary[local[t].user] IN
  /\ At(t, "send", "lookup")
  /\ IF array # NoArray /\ arrays[array] # <<>>
       THEN local' = [local EXCEPT ![t].pc = "take", ![t].array = array]
       ELSE Return(t)
  /\ UNCHANGED <<kind, userId, dictionary, arrays, sent, raised, made, calls, raced>>

TakeAlias(t) ==
  /\ local' = [local EXCEPT ![t].pc = "remove", ![t].array = dictionary[local[t].user]]
  /\ UNCHANGED arrays

TakeCopy(t) ==
  /\ arrays' = Append(arrays, arrays[local[t].array])
  /\ local' = [local EXCEPT ![t].pc = "remove", ![t].array = NewArray]

(* What request.pairs is set to.  The post takes [pairs copy]; the increment *)
(* asks the dictionary again and keeps the array it is given, or nil.       *)
TakeAliasAlways(t) == TakeAlias(t) (* Mutant: the post does not copy either. *)

Take(t) == IF kind = "post" THEN TakeCopy(t) ELSE TakeAlias(t)

SendTakes(t) ==
  /\ At(t, "send", "take")
  /\ Take(t)
  /\ UNCHANGED <<kind, userId, dictionary, sent, raised, made, calls, raced>>

(* removeObjectForKey: *)
StaysThere(u) == dictionary (* Mutant: it is not removed. *)

WithoutUser(u) == [dictionary EXCEPT ![u] = NoArray]

SendRemoves(t) ==
  /\ At(t, "send", "remove")
  /\ dictionary' = WithoutUser(local[t].user)
  /\ Goto(t, "test")
  /\ UNCHANGED <<kind, userId, arrays, sent, raised, made, calls, raced>>

PairsOf(t) == IF local[t].array = NoArray THEN <<>> ELSE arrays[local[t].array]

(* sendRequest: asks for the body twice, to test it and to send it, and     *)
(* each time its loop enumerates request.pairs.                             *)
EnumerationBegins(t) ==
  /\ \/ At(t, "send", "test") /\ local' = [local EXCEPT ![t].pc = "testing",
                                            ![t].count = Len(PairsOf(t))]
     \/ At(t, "send", "body") /\ local' = [local EXCEPT ![t].pc = "building",
                                            ![t].count = Len(PairsOf(t))]
  /\ UNCHANGED <<kind, userId, dictionary, arrays, sent, raised, made, calls, raced>>

Grown(t) == Len(PairsOf(t)) # local[t].count

(* An array that grew while it was enumerated raises, and nothing catches   *)
(* the exception: the process ends.                                         *)
EnumerationRaises(t) ==
  /\ At(t, "send", "testing") \/ At(t, "send", "building")
  /\ Grown(t)
  /\ raised' = TRUE
  /\ UNCHANGED <<kind, userId, dictionary, arrays, local, sent, made, calls, raced>>

BodyTested(t) ==
  /\ At(t, "send", "testing")
  /\ ~Grown(t)
  /\ Goto(t, "body")
  /\ UNCHANGED <<kind, userId, dictionary, arrays, sent, raised, made, calls, raced>>

BodySent(t) ==
  /\ At(t, "send", "building")
  /\ ~Grown(t)
  /\ sent' = Append(sent, [user |-> local[t].user, pairs |-> PairsOf(t), call |-> local[t].call])
  /\ Return(t)
  /\ UNCHANGED <<kind, userId, dictionary, arrays, raised, made, calls, raced>>

-----------------------------------------------------------------------------

PrepareValue(t) ==
  \/ PrepareBegins(t)
  \/ PrepareLooksUp(t)
  \/ PrepareInserts(t)
  \/ PrepareFetches(t)
  \/ PrepareAdds(t)

SendPrepared(t) ==
  \/ \E u \in Users : SendBegins(t, u)
  \/ SendLooksUp(t)
  \/ SendTakes(t)
  \/ SendRemoves(t)
  \/ EnumerationBegins(t)
  \/ EnumerationRaises(t)
  \/ BodyTested(t)
  \/ BodySent(t)

PreparedNext ==
  \/ \E u \in Users : SetUserId(u)
  \/ \E t \in Threads : PrepareValue(t) \/ SendPrepared(t)

PreparedSpec == PreparedInit /\ [][PreparedNext]_preparedVars

-----------------------------------------------------------------------------
(* Properties. *)

Holds(array, p) ==
  array # NoArray /\ \E i \in DOMAIN arrays[array] : arrays[array][i] = p

BeingPrepared(p) == \E t \in Threads : local[t].op = "prepare" /\ local[t].pair = p
Waits(p) == \E u \in Users : Holds(dictionary[u], p)
InHand(p) == \E t \in Threads : local[t].op = "send" /\ Holds(local[t].array, p)
InBody(p) == \E i \in DOMAIN sent : \E j \in DOMAIN sent[i].pairs : sent[i].pairs[j] = p

(* A value goes astray only when its prepare call met a call that sends for *)
(* the same user, or another prepare that found no array: a second array    *)
(* then replaces one that already holds values, or the pair joins an array  *)
(* that no one will send (BadgeKeeper.m:128-131, 145-154).  Prepares of a   *)
(* user who has an array lose nothing, also beside each other.              *)
LostOnlyInARace ==
  \A p \in DOMAIN made :
    \/ BeingPrepared(p) \/ Waits(p) \/ InHand(p) \/ InBody(p)
    \/ made[p].call \in raced

(* A value leaves twice only with two calls for its user that met each      *)
(* other: the second looked up the array before the first removed it        *)
(* (BadgeKeeper.m:145-154, 182-191).                                        *)
TwiceOnlyInARace ==
  \A i, j \in DOMAIN sent : \A m \in DOMAIN sent[i].pairs, n \in DOMAIN sent[j].pairs :
    sent[i].pairs[m] = sent[j].pairs[n] =>
      \/ i = j /\ m = n
      \/ i # j /\ {sent[i].call, sent[j].call} \subseteq raced

(* A value is only ever sent for the user who was active when its prepare   *)
(* call began, however often the active user changes during the call and    *)
(* whoever takes its array (BadgeKeeper.m:125 reads the property once).     *)
SentForItsUser ==
  \A i \in DOMAIN sent : \A m \in DOMAIN sent[i].pairs :
    made[sent[i].pairs[m]].user = sent[i].user

(* Building the body of a post never finds its array changed, because the   *)
(* request has a copy; an increment shares the dictionary's array, and then *)
(* only a prepare that met the call can end the process                     *)
(* (BadgeKeeper.m:151, 188, BKApiRequestSetUserChanges.m:34).               *)
RaisesOnlySharedAndRaced ==
  raised =>
    /\ kind = "increment"
    /\ \E t \in Threads : Grown(t) /\ local[t].call \in raced

=============================================================================
