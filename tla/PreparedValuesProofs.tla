------------------------- MODULE PreparedValuesProofs -------------------------
(***************************************************************************)
(* Whatever threads do to a dictionary without a lock, a value is only sent *)
(* for the user it was prepared for; and it is lost, sent twice or the end  *)
(* of the process only through calls that met each other.                   *)
(*                                                                         *)
(* The first invariant, IInv: an array belongs to one user for its whole    *)
(* life.  It enters the dictionary under the user of the call that made it, *)
(* every call takes the array of its own user, and a copy is made by a call *)
(* of the same user.  The owner of an array is no variable of the program;  *)
(* the invariant says that there is one.                                    *)
(*                                                                         *)
(* The races rest on it, since calls that share an array or a pair are for  *)
(* one user, and on CallsMeet: which of the calls under way have met.       *)
(* LostInd follows a pair from its call to the array, the hands of a send   *)
(* and the body; TwiceInd says how often it is there; RaisesInd says who    *)
(* else can change the array a request holds.                               *)
(***************************************************************************)
EXTENDS PreparedValues, Outbox, TLAPS

Calls == [op : {"none", "prepare", "send"},
          pc : {"idle", "lookup", "insert", "fetch", "add", "take", "remove",
                "test", "testing", "body", "building"},
          user : Users, array : 0 .. Len(arrays), pair : Nat, count : Nat, call : Nat]

PreparedTypeOK ==
  /\ kind \in {"post", "increment"}
  /\ userId \in Users
  /\ arrays \in Seq(Seq(Nat))
  /\ made \in Seq([user : Users, call : Nat])
  /\ dictionary \in [Users -> 0 .. Len(arrays)]
  /\ local \in [Threads -> Calls]
  /\ sent \in Seq([user : Users, pairs : Seq(Nat), call : Nat])
  /\ calls \in Nat

(* Who may name an array, and what it may hold, given whose it is.          *)
DictionaryOwned(owner) ==
  \A u \in Users : dictionary[u] # NoArray => owner[dictionary[u]] = u

CallsOwned(owner) ==
  \A t \in Threads : local[t].array # NoArray => owner[local[t].array] = local[t].user

PairsOwned(owner) ==
  \A a \in 1 .. Len(arrays) : \A i \in 1 .. Len(arrays[a]) :
    arrays[a][i] \in 1 .. Len(made) /\ made[arrays[a][i]].user = owner[a]

PairIsOfItsCall ==
  \A t \in Threads : local[t].op = "prepare" =>
    local[t].pair \in 1 .. Len(made) /\ made[local[t].pair].user = local[t].user

(* SentForItsUser, with the numbers in their ranges.                        *)
BodiesOwned ==
  \A i \in 1 .. Len(sent) : \A m \in 1 .. Len(sent[i].pairs) :
    sent[i].pairs[m] \in 1 .. Len(made) /\ made[sent[i].pairs[m]].user = sent[i].user

OwnedBy(owner) ==
  /\ owner \in [1 .. Len(arrays) -> Users]
  /\ DictionaryOwned(owner) /\ CallsOwned(owner) /\ PairsOwned(owner)
  /\ PairIsOfItsCall /\ BodiesOwned

(* What a post copies is there.                                             *)
TakesAnArray ==
  \A t \in Threads : local[t].op = "send" /\ local[t].pc = "take" => local[t].array # NoArray

IInv == PreparedTypeOK /\ TakesAnArray /\ \E owner : OwnedBy(owner)

-----------------------------------------------------------------------------
LEMMA IdleCall ==
  ASSUME NEW u \in Users, arrays \in Seq(Seq(Nat))
  PROVE  /\ Idle \in Calls
         /\ Idle.op = "none" /\ Idle.array = NoArray /\ Idle.pair = 0
<1>1. PICK v : v = CHOOSE w \in Users : TRUE
  OBVIOUS
<1>2. v \in Users
  BY <1>1
<1>3. Idle = [op |-> "none", pc |-> "idle", user |-> v,
              array |-> 0, pair |-> 0, count |-> 0, call |-> 0]
  BY <1>1, Zenon DEF Idle, NoArray
<1>4. Len(arrays) \in Nat /\ 0 \in 0 .. Len(arrays)
  OBVIOUS
<1>5. Idle.op = "none" /\ Idle.array = NoArray /\ Idle.pair = 0
  BY <1>3 DEF NoArray
<1>6. Idle \in Calls
  BY <1>2, <1>3, <1>4 DEF Calls
<1> QED
  BY <1>5, <1>6

LEMMA Appended ==
  ASSUME NEW S, NEW s \in Seq(S), NEW e \in S
  PROVE  /\ Append(s, e) \in Seq(S) /\ Len(Append(s, e)) = Len(s) + 1
         /\ \A i \in 1 .. Len(s) : Append(s, e)[i] = s[i]
         /\ Append(s, e)[Len(s) + 1] = e
  OBVIOUS

LEMMA InitIInv == PreparedInit => IInv
<1> SUFFICES ASSUME PreparedInit PROVE IInv
  OBVIOUS
<1>1. userId \in Users /\ arrays = <<>> /\ sent = <<>> /\ made = <<>>
      /\ dictionary = [u \in Users |-> NoArray]
  BY DEF PreparedInit
<1>2. Idle \in Calls /\ Idle.op = "none" /\ Idle.array = NoArray
  <2>1. arrays \in Seq(Seq(Nat))
    BY <1>1
  <2> QED
    BY <1>1, <2>1, IdleCall
<1>3. local = [t \in Threads |-> Idle]
  BY DEF PreparedInit
<1>4. PreparedTypeOK
  BY <1>1, <1>2, <1>3 DEF PreparedInit, PreparedTypeOK, NoArray
<1>5. PICK owner : owner = [a \in 1 .. 0 |-> userId]
  OBVIOUS
<1>6. OwnedBy(owner)
  BY <1>1, <1>2, <1>3, <1>5
     DEF OwnedBy, DictionaryOwned, CallsOwned, PairsOwned, PairIsOfItsCall, BodiesOwned, NoArray
<1>7. TakesAnArray
  BY <1>2, <1>3 DEF TakesAnArray
<1> QED
  BY <1>4, <1>6, <1>7 DEF IInv

-----------------------------------------------------------------------------
(* The steps, one by one. *)

LEMMA UserStep ==
  ASSUME IInv, NEW u \in Users, SetUserId(u)
  PROVE  IInv'
<1>1. PreparedTypeOK' /\ TakesAnArray'
  BY DEF IInv, SetUserId, PreparedTypeOK, TakesAnArray, Calls
<1>2. PICK owner : OwnedBy(owner)
  BY DEF IInv
<1>3. OwnedBy(owner)'
  BY <1>2 DEF SetUserId, OwnedBy, DictionaryOwned, CallsOwned, PairsOwned, PairIsOfItsCall,
              BodiesOwned
<1> QED
  BY <1>1, <1>3 DEF IInv

(* A step that only moves a call, with the array it has or its user's.      *)
LEMMA LocalStep ==
  ASSUME IInv, NEW t \in Threads, NEW call \in Calls,
         local' = [local EXCEPT ![t] = call],
         call.op # "none" => call.op = local[t].op /\ call.pair = local[t].pair,
         call.array # NoArray => call.user = local[t].user
                                 /\ call.array \in {local[t].array, dictionary[local[t].user]},
         call.op = "prepare" => call.user = local[t].user,
         call.op = "send" /\ call.pc = "take" => call.array # NoArray,
         UNCHANGED <<kind, userId, dictionary, arrays, sent, made, calls>>
  PROVE  IInv'
<1> USE DEF IInv
<1>1. PreparedTypeOK'
  BY DEF PreparedTypeOK, Calls
<1>2. TakesAnArray'
  BY DEF PreparedTypeOK, TakesAnArray
<1>3. PICK owner : OwnedBy(owner)
  OBVIOUS
<1>4. CallsOwned(owner)'
  <2> SUFFICES ASSUME NEW s \in Threads, local'[s].array # NoArray
               PROVE  owner[local'[s].array] = local'[s].user
    BY DEF CallsOwned
  <2>1. CASE s = t
    <3>1. local'[s] = call
      BY <2>1 DEF PreparedTypeOK
    <3>2. local[t].user \in Users
      BY DEF PreparedTypeOK, Calls
    <3> QED
      BY <1>3, <3>1, <3>2 DEF OwnedBy, CallsOwned, DictionaryOwned
  <2>2. CASE s # t
    BY <1>3, <2>2 DEF PreparedTypeOK, OwnedBy, CallsOwned
  <2> QED
    BY <2>1, <2>2
<1>5. PairIsOfItsCall'
  BY <1>3 DEF PreparedTypeOK, OwnedBy, PairIsOfItsCall
<1>6. OwnedBy(owner)'
  BY <1>3, <1>4, <1>5 DEF OwnedBy, DictionaryOwned, PairsOwned, BodiesOwned
<1> QED
  BY <1>1, <1>2, <1>6

(* Those that begin or move a call. *)
LEMMA BeginStep ==
  ASSUME IInv, NEW t \in Threads, NEW op \in {"prepare", "send"}, NEW u \in Users,
         NEW pair \in Nat, Begin(t, op, u, pair),
         made' = IF op = "prepare" THEN Append(made, [user |-> u, call |-> calls + 1]) ELSE made,
         op = "prepare" => pair = Len(made) + 1,
         UNCHANGED <<kind, userId, dictionary, arrays, sent>>
  PROVE  IInv'
<1> USE DEF IInv
<1>1. PICK call : call = [Idle EXCEPT !.op = op, !.pc = "lookup", !.user = u,
                                       !.pair = pair, !.call = calls + 1]
  OBVIOUS
<1>2. Idle \in Calls /\ Idle.array = NoArray
  BY IdleCall DEF PreparedTypeOK
<1>3. call \in Calls /\ call.op = op /\ call.pc = "lookup" /\ call.user = u
      /\ call.pair = pair /\ call.array = NoArray
  <2>1. calls + 1 \in Nat /\ "lookup" \in {"lookup"}
    BY DEF PreparedTypeOK
  <2>2. call \in Calls
    BY <1>1, <1>2, <2>1 DEF Calls
  <2>3. call.op = op /\ call.pc = "lookup" /\ call.user = u /\ call.pair = pair
        /\ call.array = Idle.array
    BY <1>1, <1>2 DEF Calls
  <2> QED
    BY <1>2, <2>2, <2>3
<1>4. local' = [local EXCEPT ![t] = call] /\ calls' = calls + 1
  BY <1>1 DEF Begin
<1>5. made' \in Seq([user : Users, call : Nat]) /\ Len(made') >= Len(made)
      /\ \A p \in 1 .. Len(made) : made'[p] = made[p]
  <2>1. made \in Seq([user : Users, call : Nat])
    BY DEF PreparedTypeOK
  <2>2. CASE op = "prepare"
    <3>1. [user |-> u, call |-> calls + 1] \in [user : Users, call : Nat]
      BY DEF PreparedTypeOK
    <3>2. PICK m : m = [user |-> u, call |-> calls + 1]
      OBVIOUS
    <3>3. made' = Append(made, m) /\ m \in [user : Users, call : Nat]
      BY <2>2, <3>1, <3>2
    <3>4. PICK S : S = [user : Users, call : Nat]
      OBVIOUS
    <3>5. made \in Seq(S) /\ m \in S /\ made' = Append(made, m)
      BY <2>1, <3>3, <3>4
    <3>6. made' \in Seq(S) /\ Len(made') = Len(made) + 1 /\ Len(made) \in Nat
          /\ \A p \in 1 .. Len(made) : made'[p] = made[p]
      BY <3>5, Appended
    <3> QED
      BY <3>4, <3>6
  <2>3. CASE op # "prepare"
    BY <2>1, <2>3
  <2> QED
    BY <2>2, <2>3
<1>6. PreparedTypeOK'
  BY <1>3, <1>4, <1>5 DEF PreparedTypeOK, Calls
<1>7. TakesAnArray'
  BY <1>3, <1>4 DEF PreparedTypeOK, TakesAnArray
<1>8. PICK owner : OwnedBy(owner)
  OBVIOUS
<1>9. CallsOwned(owner)'
  BY <1>3, <1>4, <1>8 DEF PreparedTypeOK, OwnedBy, CallsOwned
<1>10. PairsOwned(owner)' /\ BodiesOwned'
  <2>1. Len(made) \in Nat /\ Len(made') \in Nat /\ 1 .. Len(made) \subseteq 1 .. Len(made')
    BY <1>5 DEF PreparedTypeOK
  <2>2. PairsOwned(owner) /\ BodiesOwned
    BY <1>8 DEF OwnedBy
  <2>3. arrays' = arrays /\ sent' = sent
    OBVIOUS
  <2>4. PairsOwned(owner)'
    BY <1>5, <2>1, <2>2, <2>3, ZenonT(60) DEF PairsOwned
  <2>5. BodiesOwned'
    <3> SUFFICES ASSUME NEW i \in 1 .. Len(sent), NEW m \in 1 .. Len(sent[i].pairs)
                 PROVE  /\ sent[i].pairs[m] \in 1 .. Len(made')
                        /\ made'[sent[i].pairs[m]].user = sent[i].user
      BY <2>3 DEF BodiesOwned
    <3> QED
      BY <1>5, <2>1, <2>2, Zenon DEF BodiesOwned
  <2> QED
    BY <2>4, <2>5
<1>11. PairIsOfItsCall'
  <2>1. ASSUME NEW s \in Threads, s # t, local'[s].op = "prepare"
        PROVE  local'[s].pair \in 1 .. Len(made') /\ made'[local'[s].pair].user = local'[s].user
    BY <1>4, <1>5, <1>8, <2>1 DEF PreparedTypeOK, OwnedBy, PairIsOfItsCall
  <2>2. local'[t] = call
    BY <1>4 DEF PreparedTypeOK
  <2>3. op = "prepare" => pair \in 1 .. Len(made') /\ made'[pair].user = u
    BY DEF PreparedTypeOK
  <2> QED
    BY <1>3, <2>1, <2>2, <2>3 DEF PairIsOfItsCall
<1>12. OwnedBy(owner)'
  BY <1>8, <1>9, <1>10, <1>11 DEF OwnedBy, DictionaryOwned
<1> QED
  BY <1>6, <1>7, <1>12

LEMMA MoveStep ==
  ASSUME IInv, NEW t \in Threads,
         \/ PrepareLooksUp(t) \/ PrepareFetches(t) \/ SendLooksUp(t)
         \/ EnumerationBegins(t) \/ EnumerationRaises(t) \/ BodyTested(t)
  PROVE  IInv'
<1> USE DEF IInv
<1>1. local[t] \in Calls /\ local[t].user \in Users
      /\ dictionary[local[t].user] \in 0 .. Len(arrays)
  BY DEF PreparedTypeOK, Calls
<1>2. Idle \in Calls /\ Idle.op = "none" /\ Idle.array = NoArray
  BY <1>1, IdleCall DEF PreparedTypeOK
<1>3. CASE PrepareLooksUp(t)
  <2>1. PICK pc \in {"insert", "fetch"} : local' = [local EXCEPT ![t].pc = pc]
    BY <1>3 DEF PrepareLooksUp, Goto
  <2>2. PICK call : call = [local[t] EXCEPT !.pc = pc]
    OBVIOUS
  <2>3. call \in Calls /\ local' = [local EXCEPT ![t] = call]
    BY <1>1, <2>1, <2>2 DEF PreparedTypeOK, Calls
  <2> QED
    BY <1>1, <1>3, <2>2, <2>3, LocalStep DEF PrepareLooksUp, At, Calls
<1>4. CASE PrepareFetches(t)
  <2>1. PICK call : call = [local[t] EXCEPT !.pc = "add", !.array = dictionary[local[t].user]]
    OBVIOUS
  <2>2. call \in Calls /\ local' = [local EXCEPT ![t] = call]
    BY <1>1, <1>4, <2>1 DEF PrepareFetches, PairUser, PreparedTypeOK, Calls
  <2> QED
    BY <1>1, <1>4, <2>1, <2>2, LocalStep DEF PrepareFetches, At, Calls
<1>5. CASE SendLooksUp(t)
  <2>1. CASE local' = [local EXCEPT ![t] = Idle]
    BY <1>2, <1>5, <2>1, LocalStep DEF SendLooksUp
  <2>2. CASE dictionary[local[t].user] # NoArray
             /\ local' = [local EXCEPT ![t].pc = "take", ![t].array = dictionary[local[t].user]]
    <3>1. PICK call : call = [local[t] EXCEPT !.pc = "take", !.array = dictionary[local[t].user]]
      OBVIOUS
    <3>2. call \in Calls /\ local' = [local EXCEPT ![t] = call]
      BY <1>1, <2>2, <3>1 DEF PreparedTypeOK, Calls
    <3> QED
      BY <1>1, <1>5, <2>2, <3>1, <3>2, LocalStep DEF SendLooksUp, At, Calls
  <2> QED
    BY <1>5, <2>1, <2>2 DEF SendLooksUp, Return
<1>6. CASE EnumerationBegins(t)
  <2>1. Len(PairsOf(t)) \in Nat
    BY <1>1 DEF PairsOf, PreparedTypeOK, Calls, NoArray
  <2>2. PICK pc \in {"testing", "building"} :
          local' = [local EXCEPT ![t].pc = pc, ![t].count = Len(PairsOf(t))]
    BY <1>6 DEF EnumerationBegins
  <2>3. PICK call : call = [local[t] EXCEPT !.pc = pc, !.count = Len(PairsOf(t))]
    OBVIOUS
  <2>4. call \in Calls /\ local' = [local EXCEPT ![t] = call]
    BY <1>1, <2>1, <2>2, <2>3 DEF PreparedTypeOK, Calls
  <2> QED
    BY <1>1, <1>6, <2>3, <2>4, LocalStep DEF EnumerationBegins, At, Calls
<1>7. CASE EnumerationRaises(t)
  <2>1. PICK call : call = local[t]
    OBVIOUS
  <2>2. call \in Calls /\ local' = [local EXCEPT ![t] = call]
    BY <1>1, <1>7, <2>1 DEF EnumerationRaises, PreparedTypeOK
  <2> QED
    BY <1>1, <1>7, <2>1, <2>2, LocalStep DEF EnumerationRaises, At
<1>8. CASE BodyTested(t)
  <2>1. PICK call : call = [local[t] EXCEPT !.pc = "body"]
    OBVIOUS
  <2>2. call \in Calls /\ local' = [local EXCEPT ![t] = call]
    BY <1>1, <1>8, <2>1 DEF BodyTested, Goto, PreparedTypeOK, Calls
  <2> QED
    BY <1>1, <1>8, <2>1, <2>2, LocalStep DEF BodyTested, At, Calls
<1> QED
  BY <1>3, <1>4, <1>5, <1>6, <1>7, <1>8

(* Those that make an array or change one. *)
LEMMA InsertStep ==
  ASSUME IInv, NEW t \in Threads, PrepareInserts(t)
  PROVE  IInv'
<1> USE DEF IInv
<1>1. local[t] \in Calls /\ local[t].user \in Users /\ local[t].op = "prepare"
  BY DEF PreparedTypeOK, Calls, PrepareInserts, SetNewArray, At
<1>2. PICK call : call = [local[t] EXCEPT !.pc = "fetch"]
  OBVIOUS
<1>3. local' = [local EXCEPT ![t] = call]
      /\ call.array = local[t].array /\ call.user = local[t].user /\ call.op = local[t].op
      /\ call.pair = local[t].pair /\ call.pc = "fetch"
  BY <1>1, <1>2 DEF PrepareInserts, Goto, PreparedTypeOK, Calls
<1>4. arrays' = Append(arrays, <<>>) /\ arrays' \in Seq(Seq(Nat)) /\ Len(arrays) \in Nat
      /\ Len(arrays') = Len(arrays) + 1 /\ arrays'[Len(arrays')] = <<>>
      /\ \A a \in 1 .. Len(arrays) : arrays'[a] = arrays[a]
  BY DEF PrepareInserts, SetNewArray, PreparedTypeOK
<1>5. dictionary' = [dictionary EXCEPT ![local[t].user] = Len(arrays')]
      /\ UNCHANGED <<kind, userId, made, sent, calls>>
  BY <1>4 DEF PrepareInserts, SetNewArray, PairUser, NewArray
<1>6. call \in Calls'
  BY <1>1, <1>2, <1>4 DEF Calls
<1>7. PreparedTypeOK'
  <2>1. local' \in [Threads -> Calls']
    BY <1>3, <1>4, <1>6, SMTT(30) DEF PreparedTypeOK, Calls
  <2>2. dictionary' \in [Users -> 0 .. Len(arrays')]
    BY <1>1, <1>4, <1>5 DEF PreparedTypeOK
  <2> QED
    BY <1>4, <1>5, <2>1, <2>2 DEF PreparedTypeOK
<1>8. TakesAnArray'
  BY <1>1, <1>3 DEF PreparedTypeOK, TakesAnArray
<1>9. PICK owner : OwnedBy(owner)
  OBVIOUS
<1>10. PICK to : to = [a \in 1 .. Len(arrays') |-> IF a \in 1 .. Len(arrays) THEN owner[a]
                                                   ELSE local[t].user]
  OBVIOUS
<1>11. to \in [1 .. Len(arrays') -> Users] /\ to[Len(arrays')] = local[t].user
       /\ \A a \in 1 .. Len(arrays) : to[a] = owner[a]
  BY <1>1, <1>4, <1>9, <1>10 DEF OwnedBy
<1>12. DictionaryOwned(to)'
  BY <1>1, <1>4, <1>5, <1>9, <1>11 DEF PreparedTypeOK, OwnedBy, DictionaryOwned, NoArray
<1>13. CallsOwned(to)'
  <2> SUFFICES ASSUME NEW s \in Threads, local'[s].array # NoArray
               PROVE  to[local'[s].array] = local'[s].user
    BY DEF CallsOwned
  <2>1. local'[s].array = local[s].array /\ local'[s].user = local[s].user
    BY <1>3 DEF PreparedTypeOK
  <2>2. local[s].array \in 1 .. Len(arrays)
    BY <1>4, <2>1 DEF PreparedTypeOK, Calls, NoArray
  <2> QED
    BY <1>9, <1>11, <2>1, <2>2 DEF OwnedBy, CallsOwned
<1>14. PairsOwned(to)'
  <2> SUFFICES ASSUME NEW a \in 1 .. Len(arrays'), NEW i \in 1 .. Len(arrays'[a])
               PROVE  /\ arrays'[a][i] \in 1 .. Len(made)
                      /\ made[arrays'[a][i]].user = to[a]
    BY <1>5 DEF PairsOwned
  <2>1. a \in 1 .. Len(arrays)
    BY <1>4
  <2> QED
    BY <1>4, <1>9, <1>11, <2>1 DEF OwnedBy, PairsOwned
<1>15. PairIsOfItsCall'
  BY <1>3, <1>5, <1>9 DEF PreparedTypeOK, OwnedBy, PairIsOfItsCall
<1>16. BodiesOwned'
  BY <1>5, <1>9 DEF OwnedBy, BodiesOwned
<1>17. OwnedBy(to)'
  BY <1>11, <1>12, <1>13, <1>14, <1>15, <1>16 DEF OwnedBy
<1> QED
  BY <1>7, <1>8, <1>17

LEMMA AddStep ==
  ASSUME IInv, NEW t \in Threads, PrepareAdds(t)
  PROVE  IInv'
<1> USE DEF IInv
<1>1. local[t] \in Calls /\ local[t].user \in Users /\ local[t].op = "prepare"
      /\ local[t].array \in 0 .. Len(arrays) /\ local[t].pair \in Nat
  BY DEF PreparedTypeOK, Calls, PrepareAdds, At
<1>2. Idle \in Calls /\ Idle.op = "none" /\ Idle.array = NoArray
  BY <1>1, IdleCall DEF PreparedTypeOK
<1>3. local' = [local EXCEPT ![t] = Idle]
      /\ UNCHANGED <<kind, userId, dictionary, made, sent, calls>>
  BY DEF PrepareAdds, Return
<1>4. CASE local[t].array = NoArray
  BY <1>2, <1>3, <1>4, LocalStep DEF PrepareAdds
<1>5. CASE local[t].array # NoArray
  <2>1. PICK at : at = local[t].array
    OBVIOUS
  <2>2. at \in 1 .. Len(arrays) /\ arrays \in Seq(Seq(Nat)) /\ arrays[at] \in Seq(Nat)
    BY <1>1, <1>5, <2>1 DEF PreparedTypeOK, NoArray
  <2>3. PICK grown : grown = Append(arrays[at], local[t].pair)
    OBVIOUS
  <2>4. grown \in Seq(Nat) /\ Len(grown) = Len(arrays[at]) + 1 /\ grown[Len(grown)] = local[t].pair
        /\ \A i \in 1 .. Len(arrays[at]) : grown[i] = arrays[at][i]
    BY <1>1, <2>2, <2>3
  <2>5. arrays' = [arrays EXCEPT ![at] = grown]
    BY <1>5, <2>1, <2>3 DEF PrepareAdds
  <2>6. arrays' \in Seq(Seq(Nat)) /\ Len(arrays') = Len(arrays) /\ arrays'[at] = grown
        /\ \A a \in 1 .. Len(arrays) : a # at => arrays'[a] = arrays[a]
    BY <2>2, <2>4, <2>5
  <2>7. PreparedTypeOK'
    <3>1. Calls' = Calls
      BY <2>6 DEF Calls
    <3> QED
      BY <1>2, <1>3, <2>6, <3>1 DEF PreparedTypeOK
  <2>8. TakesAnArray'
    BY <1>2, <1>3 DEF PreparedTypeOK, TakesAnArray
  <2>9. PICK owner : OwnedBy(owner)
    OBVIOUS
  <2>10. CallsOwned(owner)'
    BY <1>2, <1>3, <2>9 DEF PreparedTypeOK, OwnedBy, CallsOwned
  <2>11. PairsOwned(owner)'
    <3> SUFFICES ASSUME NEW a \in 1 .. Len(arrays), NEW i \in 1 .. Len(arrays'[a])
                 PROVE  /\ arrays'[a][i] \in 1 .. Len(made)
                        /\ made[arrays'[a][i]].user = owner[a]
      BY <1>3, <2>6 DEF PairsOwned
    <3>1. CASE a # at
      BY <2>6, <2>9, <3>1 DEF OwnedBy, PairsOwned
    <3>2. CASE a = at /\ i # Len(grown)
      <4>1. Len(arrays[at]) \in Nat /\ i \in 1 .. Len(grown)
        BY <2>2, <2>6, <3>2
      <4>2. i \in 1 .. Len(arrays[at])
        BY <2>4, <3>2, <4>1
      <4> QED
        BY <2>4, <2>6, <2>9, <3>2, <4>2 DEF OwnedBy, PairsOwned
    <3>3. CASE a = at /\ i = Len(grown)
      BY <1>1, <1>5, <2>1, <2>4, <2>6, <2>9, <3>3
         DEF OwnedBy, PairIsOfItsCall, CallsOwned
    <3> QED
      BY <3>1, <3>2, <3>3
  <2>12. PairIsOfItsCall'
    BY <1>2, <1>3, <2>9 DEF PreparedTypeOK, OwnedBy, PairIsOfItsCall
  <2>13. OwnedBy(owner)'
    BY <1>3, <2>6, <2>9, <2>10, <2>11, <2>12 DEF OwnedBy, DictionaryOwned, BodiesOwned
  <2> QED
    BY <2>7, <2>8, <2>13
<1> QED
  BY <1>4, <1>5

LEMMA CopyStep ==
  ASSUME IInv, NEW t \in Threads, At(t, "send", "take"), TakeCopy(t),
         UNCHANGED <<kind, userId, dictionary, sent, made, calls>>
  PROVE  IInv'
<1> USE DEF IInv
<1>1. local[t] \in Calls /\ local[t].user \in Users /\ local[t].op = "send"
      /\ local[t].array \in 1 .. Len(arrays)
  BY DEF PreparedTypeOK, Calls, At, TakesAnArray, NoArray
<1>2. PICK copy : copy = arrays[local[t].array]
  OBVIOUS
<1>3. arrays \in Seq(Seq(Nat)) /\ copy \in Seq(Nat) /\ arrays' = Append(arrays, copy)
  BY <1>1, <1>2 DEF PreparedTypeOK, TakeCopy
<1>4. arrays' \in Seq(Seq(Nat)) /\ Len(arrays) \in Nat
      /\ Len(arrays') = Len(arrays) + 1 /\ arrays'[Len(arrays')] = copy
      /\ \A a \in 1 .. Len(arrays) : arrays'[a] = arrays[a]
  BY <1>3
<1>5. PICK call : call = [local[t] EXCEPT !.pc = "remove", !.array = Len(arrays')]
  OBVIOUS
<1>6. local' = [local EXCEPT ![t] = call]
      /\ call.array = Len(arrays') /\ call.user = local[t].user /\ call.op = "send"
      /\ call.pc = "remove"
  BY <1>1, <1>4, <1>5 DEF TakeCopy, NewArray, PreparedTypeOK, Calls
<1>7. call \in Calls'
  <2>1. PICK n : n = Len(arrays')
    OBVIOUS
  <2>2. n \in 0 .. n /\ call = [local[t] EXCEPT !.pc = "remove", !.array = n]
    BY <1>4, <1>5, <2>1
  <2> QED
    BY <1>1, <2>1, <2>2 DEF Calls
<1>8. PreparedTypeOK'
  <2>1. local' \in [Threads -> Calls']
    BY <1>4, <1>6, <1>7 DEF PreparedTypeOK, Calls
  <2>2. dictionary' \in [Users -> 0 .. Len(arrays')]
    BY <1>4 DEF PreparedTypeOK
  <2> QED
    BY <1>4, <2>1, <2>2 DEF PreparedTypeOK
<1>9. TakesAnArray'
  BY <1>6 DEF PreparedTypeOK, TakesAnArray
<1>10. PICK owner : OwnedBy(owner)
  OBVIOUS
<1>11. PICK to : to = [a \in 1 .. Len(arrays') |-> IF a \in 1 .. Len(arrays) THEN owner[a]
                                                   ELSE local[t].user]
  OBVIOUS
<1>12. to \in [1 .. Len(arrays') -> Users] /\ to[Len(arrays')] = local[t].user
       /\ \A a \in 1 .. Len(arrays) : to[a] = owner[a]
  BY <1>1, <1>4, <1>10, <1>11 DEF OwnedBy
<1>13. DictionaryOwned(to)'
  BY <1>4, <1>10, <1>12 DEF PreparedTypeOK, OwnedBy, DictionaryOwned, NoArray
<1>14. CallsOwned(to)'
  <2> SUFFICES ASSUME NEW s \in Threads, local'[s].array # NoArray
               PROVE  to[local'[s].array] = local'[s].user
    BY DEF CallsOwned
  <2>1. CASE s = t
    BY <1>6, <1>12, <2>1 DEF PreparedTypeOK
  <2>2. CASE s # t
    <3>1. local'[s] = local[s] /\ local[s].array \in 1 .. Len(arrays)
      BY <1>4, <1>6, <2>2, SMTT(30) DEF PreparedTypeOK, Calls, NoArray
    <3> QED
      BY <1>10, <1>12, <3>1 DEF OwnedBy, CallsOwned
  <2> QED
    BY <2>1, <2>2
<1>15. PairsOwned(to)'
  <2> SUFFICES ASSUME NEW a \in 1 .. Len(arrays'), NEW i \in 1 .. Len(arrays'[a])
               PROVE  /\ arrays'[a][i] \in 1 .. Len(made)
                      /\ made[arrays'[a][i]].user = to[a]
    BY DEF PairsOwned
  <2>1. CASE a \in 1 .. Len(arrays)
    BY <1>4, <1>10, <1>12, <2>1, ZenonT(40) DEF OwnedBy, PairsOwned
  <2>2. CASE a \notin 1 .. Len(arrays)
    <3>1. a = Len(arrays') /\ arrays'[a] = arrays[local[t].array]
      BY <1>2, <1>4, <2>2
    <3>2. owner[local[t].array] = local[t].user
      BY <1>1, <1>10 DEF OwnedBy, CallsOwned, NoArray
    <3> QED
      BY <1>1, <1>10, <1>12, <3>1, <3>2 DEF OwnedBy, PairsOwned
  <2> QED
    BY <2>1, <2>2
<1>16. PairIsOfItsCall'
  BY <1>6, <1>10 DEF PreparedTypeOK, OwnedBy, PairIsOfItsCall
<1>17. BodiesOwned'
  BY <1>10 DEF OwnedBy, BodiesOwned
<1>18. OwnedBy(to)'
  BY <1>12, <1>13, <1>14, <1>15, <1>16, <1>17 DEF OwnedBy
<1> QED
  BY <1>8, <1>9, <1>18

LEMMA TakeStep ==
  ASSUME IInv, NEW t \in Threads, SendTakes(t)
  PROVE  IInv'
<1>1. CASE kind = "post"
  BY <1>1, CopyStep DEF SendTakes, Take
<1>2. CASE kind # "post"
  <2>1. local[t] \in Calls /\ local[t].user \in Users
        /\ dictionary[local[t].user] \in 0 .. Len(arrays)
    BY DEF IInv, PreparedTypeOK, Calls
  <2>2. PICK call : call = [local[t] EXCEPT !.pc = "remove", !.array = dictionary[local[t].user]]
    OBVIOUS
  <2>3. call \in Calls /\ local' = [local EXCEPT ![t] = call] /\ UNCHANGED arrays
    BY <1>2, <2>1, <2>2 DEF SendTakes, Take, TakeAlias, IInv, PreparedTypeOK, Calls
  <2> QED
    BY <2>1, <2>2, <2>3, LocalStep DEF SendTakes, At, Calls
<1> QED
  BY <1>1, <1>2

LEMMA RemoveStep ==
  ASSUME IInv, NEW t \in Threads, SendRemoves(t)
  PROVE  IInv'
<1> USE DEF IInv
<1>1. local[t] \in Calls /\ local[t].user \in Users /\ local[t].op = "send"
  BY DEF PreparedTypeOK, Calls, SendRemoves, At
<1>2. PICK call : call = [local[t] EXCEPT !.pc = "test"]
  OBVIOUS
<1>3. call \in Calls /\ local' = [local EXCEPT ![t] = call] /\ call.op = "send"
      /\ call.array = local[t].array /\ call.user = local[t].user /\ call.pc = "test"
  BY <1>1, <1>2 DEF SendRemoves, Goto, PreparedTypeOK, Calls
<1>4. dictionary' = [dictionary EXCEPT ![local[t].user] = NoArray]
      /\ UNCHANGED <<kind, userId, arrays, sent, made, calls>>
  BY DEF SendRemoves, WithoutUser
<1>5. PreparedTypeOK'
  <2>1. dictionary' \in [Users -> 0 .. Len(arrays)]
    BY <1>1, <1>4 DEF PreparedTypeOK, NoArray
  <2> QED
    BY <1>3, <1>4, <2>1 DEF PreparedTypeOK, Calls
<1>6. TakesAnArray'
  BY <1>3 DEF PreparedTypeOK, TakesAnArray
<1>7. PICK owner : OwnedBy(owner)
  OBVIOUS
<1>8. DictionaryOwned(owner)'
  BY <1>1, <1>4, <1>7 DEF PreparedTypeOK, OwnedBy, DictionaryOwned
<1>9. CallsOwned(owner)'
  BY <1>3, <1>7 DEF PreparedTypeOK, OwnedBy, CallsOwned
<1>10. PairIsOfItsCall'
  BY <1>3, <1>4, <1>7 DEF PreparedTypeOK, OwnedBy, PairIsOfItsCall
<1>11. OwnedBy(owner)'
  BY <1>4, <1>7, <1>8, <1>9, <1>10 DEF OwnedBy, PairsOwned, BodiesOwned
<1> QED
  BY <1>5, <1>6, <1>11

LEMMA SentStep ==
  ASSUME IInv, NEW t \in Threads, BodySent(t)
  PROVE  IInv'
<1> USE DEF IInv
<1>1. local[t] \in Calls /\ local[t].user \in Users /\ local[t].call \in Nat
      /\ local[t].array \in 0 .. Len(arrays)
  BY DEF PreparedTypeOK, Calls
<1>2. Idle \in Calls /\ Idle.op = "none" /\ Idle.array = NoArray
  BY <1>1, IdleCall DEF PreparedTypeOK
<1>3. local' = [local EXCEPT ![t] = Idle]
      /\ UNCHANGED <<kind, userId, dictionary, arrays, made, calls>>
  BY DEF BodySent, Return
<1>4. PICK owner : OwnedBy(owner)
  OBVIOUS
<1>5. PairsOf(t) \in Seq(Nat)
      /\ \A m \in 1 .. Len(PairsOf(t)) : PairsOf(t)[m] \in 1 .. Len(made)
                                         /\ made[PairsOf(t)[m]].user = local[t].user
  <2>1. CASE local[t].array = NoArray
    BY <2>1 DEF PairsOf
  <2>2. CASE local[t].array # NoArray
    <3>1. local[t].array \in 1 .. Len(arrays) /\ PairsOf(t) = arrays[local[t].array]
      BY <1>1, <2>2 DEF PairsOf, NoArray, PreparedTypeOK
    <3>2. owner[local[t].array] = local[t].user
      BY <1>4, <2>2 DEF OwnedBy, CallsOwned
    <3>3. PICK at : at = local[t].array
      OBVIOUS
    <3>4. at \in 1 .. Len(arrays) /\ PairsOf(t) = arrays[at] /\ owner[at] = local[t].user
      BY <3>1, <3>2, <3>3
    <3>5. arrays[at] \in Seq(Nat)
      BY <3>4 DEF PreparedTypeOK
    <3>6. \A m \in 1 .. Len(arrays[at]) :
            arrays[at][m] \in 1 .. Len(made) /\ made[arrays[at][m]].user = owner[at]
      BY <1>4, <3>4 DEF OwnedBy, PairsOwned
    <3> QED
      BY <3>4, <3>5, <3>6
  <2> QED
    BY <2>1, <2>2
<1>6. PICK b : b = [user |-> local[t].user, pairs |-> PairsOf(t), call |-> local[t].call]
  OBVIOUS
<1>7. PICK S : S = [user : Users, pairs : Seq(Nat), call : Nat]
  OBVIOUS
<1>8. b \in S /\ sent \in Seq(S) /\ sent' = Append(sent, b)
  BY <1>1, <1>5, <1>6, <1>7 DEF BodySent, PreparedTypeOK
<1>9. sent' \in Seq(S) /\ Len(sent') = Len(sent) + 1 /\ sent'[Len(sent) + 1] = b
      /\ Len(sent) \in Nat /\ \A i \in 1 .. Len(sent) : sent'[i] = sent[i]
  BY <1>8, Appended
<1>10. PreparedTypeOK'
  <2>1. local' \in [Threads -> Calls] /\ Calls' = Calls
    BY <1>2, <1>3 DEF PreparedTypeOK, Calls
  <2> QED
    BY <1>3, <1>7, <1>9, <2>1 DEF PreparedTypeOK
<1>11. TakesAnArray'
  BY <1>2, <1>3 DEF PreparedTypeOK, TakesAnArray
<1>12. CallsOwned(owner)' /\ PairIsOfItsCall'
  BY <1>2, <1>3, <1>4 DEF PreparedTypeOK, OwnedBy, CallsOwned, PairIsOfItsCall
<1>13. BodiesOwned'
  <2> SUFFICES ASSUME NEW i \in 1 .. Len(sent'), NEW m \in 1 .. Len(sent'[i].pairs)
               PROVE  /\ sent'[i].pairs[m] \in 1 .. Len(made)
                      /\ made[sent'[i].pairs[m]].user = sent'[i].user
    BY <1>3 DEF BodiesOwned
  <2>1. CASE i \in 1 .. Len(sent)
    BY <1>4, <1>9, <2>1 DEF OwnedBy, BodiesOwned
  <2>2. CASE i = Len(sent) + 1
    <3>1. sent'[i].pairs = PairsOf(t) /\ sent'[i].user = local[t].user
      BY <1>6, <1>9, <2>2
    <3> QED
      BY <1>5, <3>1
  <2> QED
    BY <1>9, <2>1, <2>2
<1>14. OwnedBy(owner)'
  BY <1>3, <1>4, <1>12, <1>13 DEF OwnedBy, DictionaryOwned, PairsOwned
<1> QED
  BY <1>10, <1>11, <1>14

-----------------------------------------------------------------------------
LEMMA NextIInv == IInv /\ [PreparedNext]_preparedVars => IInv'
<1> SUFFICES ASSUME IInv, [PreparedNext]_preparedVars PROVE IInv'
  OBVIOUS
<1>1. CASE UNCHANGED preparedVars
  <2>1. PreparedTypeOK' /\ TakesAnArray'
    BY <1>1 DEF preparedVars, IInv, PreparedTypeOK, TakesAnArray, Calls
  <2>2. PICK owner : OwnedBy(owner)
    BY DEF IInv
  <2>3. OwnedBy(owner)'
    BY <1>1, <2>2 DEF preparedVars, OwnedBy, DictionaryOwned, CallsOwned, PairsOwned,
                      PairIsOfItsCall, BodiesOwned
  <2> QED
    BY <2>1, <2>3 DEF IInv
<1>2. ASSUME NEW u \in Users, SetUserId(u) PROVE IInv'
  BY <1>2, UserStep
<1>3. ASSUME NEW t \in Threads, PrepareBegins(t) PROVE IInv'
  <2>1. userId \in Users /\ Len(made) + 1 \in Nat
    BY DEF IInv, PreparedTypeOK
  <2> QED
    BY <1>3, <2>1, BeginStep DEF PrepareBegins
<1>4. ASSUME NEW t \in Threads, NEW u \in Users, SendBegins(t, u) PROVE IInv'
  BY <1>4, BeginStep DEF SendBegins
<1>5. ASSUME NEW t \in Threads, PrepareValue(t) \/ SendPrepared(t) PROVE IInv'
  BY <1>3, <1>4, <1>5, MoveStep, InsertStep, AddStep, TakeStep, RemoveStep, SentStep
     DEF PrepareValue, SendPrepared
<1> QED
  BY <1>1, <1>2, <1>5 DEF PreparedNext

(* Every behaviour, of any number of threads and users: a value is sent     *)
(* only for the user who was active when its prepare call began, however    *)
(* the calls run into each other.                                           *)
THEOREM AlwaysForItsUser == PreparedSpec => []SentForItsUser
<1>1. PreparedInit => IInv
  BY InitIInv
<1>2. IInv /\ [PreparedNext]_preparedVars => IInv'
  BY NextIInv
<1>3. IInv => SentForItsUser
  <2> SUFFICES ASSUME IInv, NEW i \in DOMAIN sent, NEW m \in DOMAIN sent[i].pairs
               PROVE  made[sent[i].pairs[m]].user = sent[i].user
    BY DEF SentForItsUser
  <2>1. i \in 1 .. Len(sent) /\ sent[i].pairs \in Seq(Nat)
    <3>1. PICK S : S = [user : Users, pairs : Seq(Nat), call : Nat]
      OBVIOUS
    <3>2. sent \in Seq(S)
      BY <3>1 DEF IInv, PreparedTypeOK
    <3>3. i \in 1 .. Len(sent) /\ sent[i] \in S
      BY <3>2
    <3> QED
      BY <3>1, <3>3
  <2>2. m \in 1 .. Len(sent[i].pairs)
    BY <2>1
  <2> QED
    BY <2>1, <2>2 DEF IInv, OwnedBy, BodiesOwned
<1> QED
  BY <1>1, <1>2, <1>3, PTL DEF PreparedSpec

-----------------------------------------------------------------------------
(* What the steps do, told without EXCEPT and Append: what the three        *)
(* invariants about races need of each of them.                             *)
Sends(t) == local[t].op = "send"
Prepares(t) == local[t].op = "prepare"
UnderWay(t) == local[t].op # "none"
Raced(t) == local[t].call \in raced
OldCall(p) == made[p].call \in raced

OthersStay(t) == \A s \in Threads : s # t => local'[s] = local[s]

SameCall(t) ==
  /\ local'[t].op = local[t].op /\ local'[t].user = local[t].user
  /\ local'[t].call = local[t].call /\ local'[t].pair = local[t].pair

Ends(t) == local'[t].op = "none" /\ local'[t].array = NoArray

ArraysKept ==
  Len(arrays') \in Nat /\ Len(arrays') >= Len(arrays)
  /\ \A a \in 1 .. Len(arrays) : arrays'[a] = arrays[a]

(* No call moves; an exception may end the process.                         *)
Rests ==
  /\ UNCHANGED <<kind, dictionary, arrays, local, sent, made, raced>>
  /\ \/ raised' = raised
     \/ /\ ~raised
        /\ \E t \in Threads : /\ Sends(t) /\ local[t].pc \in {"testing", "building"}
                              /\ Grown(t)

Begins(t) ==
  /\ ~raised /\ UNCHANGED <<kind, dictionary, arrays, sent, raised>>
  /\ OthersStay(t)
  /\ ~UnderWay(t) /\ local'[t].op \in {"prepare", "send"}
  /\ local'[t].pc = "lookup" /\ local'[t].array = NoArray
  /\ raced \subseteq raced'
  /\ \A p \in 1 .. Len(made) : made'[p] = made[p]
  /\ \/ local'[t].op = "send" /\ made' = made
     \/ /\ local'[t].op = "prepare" /\ local'[t].pair = Len(made) + 1
        /\ Len(made') = Len(made) + 1
        /\ made'[Len(made) + 1].call = local'[t].call
  /\ \A s \in Threads :
       /\ s # t /\ UnderWay(s) /\ local[s].user = local'[t].user
       /\ \/ local'[t].op = "send" \/ Sends(s)
          \/ dictionary[local[s].user] = NoArray \/ local[s].pc = "insert"
       => local[s].call \in raced' /\ local'[t].call \in raced'

(* A call moves on, or a send finds nothing; no array changes.              *)
Moves(t) ==
  /\ ~raised /\ UNCHANGED <<kind, dictionary, arrays, sent, made, raced, raised>>
  /\ OthersStay(t)
  /\ \/ Sends(t) /\ local[t].pc = "lookup" /\ Ends(t)
     \/ /\ SameCall(t) /\ Prepares(t) /\ local[t].pc = "lookup"
        /\ local'[t].pc \in {"insert", "fetch"} /\ local'[t].array = local[t].array
        /\ local'[t].pc = "insert" <=> dictionary[local[t].user] = NoArray
     \/ /\ SameCall(t) /\ Prepares(t) /\ local[t].pc = "fetch"
        /\ local'[t].pc = "add" /\ local'[t].array = dictionary[local[t].user]
     \/ /\ SameCall(t) /\ Sends(t) /\ local[t].pc = "lookup"
        /\ local'[t].pc = "take" /\ local'[t].array = dictionary[local[t].user]
     \/ /\ SameCall(t) /\ Sends(t) /\ local[t].pc = "take" /\ kind # "post"
        /\ local'[t].pc = "remove" /\ local'[t].array = dictionary[local[t].user]
     \/ /\ SameCall(t) /\ Sends(t) /\ local[t].pc \in {"test", "body"}
        /\ local'[t].pc \in {"testing", "building"} /\ local'[t].array = local[t].array
        /\ local'[t].count = Len(PairsOf(t))
     \/ /\ SameCall(t) /\ Sends(t) /\ local[t].pc = "testing"
        /\ local'[t].pc = "body" /\ local'[t].array = local[t].array

Inserts(t) ==
  /\ ~raised /\ UNCHANGED <<kind, sent, made, raced, raised>>
  /\ OthersStay(t) /\ SameCall(t) /\ Prepares(t) /\ local[t].pc = "insert"
  /\ local'[t].pc = "fetch" /\ local'[t].array = local[t].array
  /\ ArraysKept /\ Len(arrays') = Len(arrays) + 1 /\ arrays'[Len(arrays) + 1] = <<>>
  /\ dictionary'[local[t].user] = Len(arrays) + 1
  /\ \A u \in Users : u # local[t].user => dictionary'[u] = dictionary[u]

Adds(t) ==
  /\ ~raised /\ UNCHANGED <<kind, dictionary, sent, made, raced, raised>>
  /\ OthersStay(t) /\ Ends(t) /\ Prepares(t) /\ local[t].pc = "add"
  /\ Len(arrays') = Len(arrays)
  /\ \A a \in 1 .. Len(arrays) : a # local[t].array => arrays'[a] = arrays[a]
  /\ local[t].array # NoArray =>
       arrays'[local[t].array] = Append(arrays[local[t].array], local[t].pair)

Copies(t) ==
  /\ ~raised /\ UNCHANGED <<kind, dictionary, sent, made, raced, raised>>
  /\ OthersStay(t) /\ SameCall(t) /\ Sends(t) /\ local[t].pc = "take"
  /\ kind = "post" /\ local[t].array \in 1 .. Len(arrays)
  /\ local'[t].pc = "remove" /\ local'[t].array = Len(arrays) + 1
  /\ ArraysKept /\ Len(arrays') = Len(arrays) + 1
  /\ arrays'[Len(arrays) + 1] = arrays[local[t].array]

Removes(t) ==
  /\ ~raised /\ UNCHANGED <<kind, arrays, sent, made, raced, raised>>
  /\ OthersStay(t) /\ SameCall(t) /\ Sends(t) /\ local[t].pc = "remove"
  /\ local'[t].pc = "test" /\ local'[t].array = local[t].array
  /\ dictionary'[local[t].user] = NoArray
  /\ \A u \in Users : u # local[t].user => dictionary'[u] = dictionary[u]

Posts(t) ==
  /\ ~raised /\ UNCHANGED <<kind, dictionary, arrays, made, raced, raised>>
  /\ OthersStay(t) /\ Ends(t) /\ Sends(t) /\ local[t].pc = "building"
  /\ Len(sent') = Len(sent) + 1
  /\ \A i \in 1 .. Len(sent) : sent'[i] = sent[i]
  /\ sent'[Len(sent) + 1].pairs = PairsOf(t)
  /\ sent'[Len(sent) + 1].call = local[t].call

Steps(t) ==
  \/ Begins(t) \/ Moves(t) \/ Inserts(t) \/ Adds(t) \/ Copies(t) \/ Removes(t) \/ Posts(t)

LEMMA Typed ==
  ASSUME IInv, NEW t \in Threads
  PROVE  /\ local[t] \in Calls /\ local[t].user \in Users
         /\ local[t].array \in 0 .. Len(arrays) /\ local[t].pair \in Nat /\ local[t].call \in Nat
         /\ dictionary[local[t].user] \in 0 .. Len(arrays)
         /\ Idle \in Calls /\ Idle.op = "none" /\ Idle.array = NoArray
         /\ local \in [Threads -> Calls] /\ Len(arrays) \in Nat /\ Len(made) \in Nat
         /\ Len(sent) \in Nat
<1>1. local[t] \in Calls /\ local[t].user \in Users
      /\ local[t].array \in 0 .. Len(arrays) /\ local[t].pair \in Nat /\ local[t].call \in Nat
  BY DEF IInv, PreparedTypeOK, Calls
<1>2. Idle \in Calls /\ Idle.op = "none" /\ Idle.array = NoArray
  BY <1>1, IdleCall DEF IInv, PreparedTypeOK
<1> QED
  BY <1>1, <1>2 DEF IInv, PreparedTypeOK

LEMMA BeginsFacts ==
  ASSUME IInv, NEW t \in Threads, NEW op \in {"prepare", "send"}, NEW u \in Users,
         NEW pair \in Nat, Begin(t, op, u, pair),
         made' = IF op = "prepare" THEN Append(made, [user |-> u, call |-> calls + 1]) ELSE made,
         op = "prepare" => pair = Len(made) + 1,
         UNCHANGED <<kind, userId, dictionary, arrays, sent, raised>>
  PROVE  Begins(t)
<1>1. PICK call : call = [Idle EXCEPT !.op = op, !.pc = "lookup", !.user = u,
                                       !.pair = pair, !.call = calls + 1]
  OBVIOUS
<1>2. call.op = op /\ call.pc = "lookup" /\ call.user = u
      /\ call.pair = pair /\ call.array = NoArray /\ call.call = calls + 1
  <2>1. call.op = op /\ call.pc = "lookup" /\ call.user = u /\ call.pair = pair
        /\ call.array = Idle.array /\ call.call = calls + 1
    BY <1>1, Typed DEF Calls
  <2> QED
    BY <2>1, Typed
<1>3. ~raised /\ local[t] = Idle /\ local' = [local EXCEPT ![t] = call]
  BY <1>1 DEF Begin
<1>4. local'[t] = call /\ OthersStay(t) /\ ~UnderWay(t)
  BY <1>3, Typed DEF OthersStay, UnderWay
<1>5. /\ raced \subseteq raced'
      /\ \A s \in Threads :
           /\ s # t /\ UnderWay(s) /\ local[s].user = u
           /\ \/ op = "send" \/ Sends(s) \/ dictionary[u] = NoArray \/ local[s].pc = "insert"
           => local[s].call \in raced' /\ calls + 1 \in raced'
  <2>1. raced' = IF Met(t, op, u) = {} THEN raced
                 ELSE raced \cup {calls + 1} \cup {local[s].call : s \in Met(t, op, u)}
    BY DEF Begin
  <2>2. ASSUME NEW s \in Threads, s # t, UnderWay(s), local[s].user = u,
               op = "send" \/ Sends(s) \/ dictionary[u] = NoArray \/ local[s].pc = "insert"
        PROVE  s \in Met(t, op, u)
    BY <2>2 DEF Met, UnderWay, Sends
  <2>3. raced \subseteq raced'
    BY <2>1
  <2>4. ASSUME NEW s \in Met(t, op, u)
        PROVE  local[s].call \in raced' /\ calls + 1 \in raced'
    BY <2>1, <2>4
  <2> QED
    BY <2>2, <2>3, <2>4
<1>6. \A p \in 1 .. Len(made) : made'[p] = made[p]
  BY DEF IInv, PreparedTypeOK
<1>7. op = "prepare" => Len(made') = Len(made) + 1 /\ made'[Len(made) + 1].call = calls + 1
  BY DEF IInv, PreparedTypeOK
<1>8. op = "send" => made' = made
  OBVIOUS
<1> QED
  BY <1>2, <1>3, <1>4, <1>5, <1>6, <1>7, <1>8 DEF Begins

LEMMA MovesFacts ==
  ASSUME IInv, NEW t \in Threads,
         \/ PrepareLooksUp(t) \/ PrepareFetches(t) \/ SendLooksUp(t)
         \/ EnumerationBegins(t) \/ BodyTested(t)
         \/ SendTakes(t) /\ kind # "post"
  PROVE  Moves(t)
<1>0. /\ ~raised /\ local \in [Threads -> Calls] /\ local[t] \in Calls
      /\ UNCHANGED <<kind, dictionary, sent, made, raced, raised>>
  BY Typed DEF PrepareLooksUp, PrepareFetches, SendLooksUp, SendTakes, EnumerationBegins,
               BodyTested, At
<1>1. CASE PrepareLooksUp(t)
  <2>1. /\ Prepares(t) /\ local[t].pc = "lookup" /\ UNCHANGED arrays
        /\ local' = [local EXCEPT ![t].pc =
             IF dictionary[local[t].user] = NoArray THEN "insert" ELSE "fetch"]
    BY <1>1 DEF PrepareLooksUp, Goto, At, Prepares
  <2>2. /\ OthersStay(t) /\ SameCall(t) /\ local'[t].array = local[t].array
        /\ local'[t].pc = IF dictionary[local[t].user] = NoArray THEN "insert" ELSE "fetch"
    BY <1>0, <2>1 DEF OthersStay, SameCall, Calls
  <2> QED
    BY <1>0, <2>1, <2>2 DEF Moves
<1>2. CASE PrepareFetches(t)
  <2>1. /\ Prepares(t) /\ local[t].pc = "fetch" /\ UNCHANGED arrays
        /\ local' = [local EXCEPT ![t].pc = "add", ![t].array = dictionary[local[t].user]]
    BY <1>2 DEF PrepareFetches, PairUser, At, Prepares
  <2>2. /\ OthersStay(t) /\ SameCall(t) /\ local'[t].array = dictionary[local[t].user]
        /\ local'[t].pc = "add"
    BY <1>0, <2>1 DEF OthersStay, SameCall, Calls
  <2> QED
    BY <1>0, <2>1, <2>2 DEF Moves
<1>3. CASE SendLooksUp(t)
  <2>1. Sends(t) /\ local[t].pc = "lookup" /\ UNCHANGED arrays
    BY <1>3 DEF SendLooksUp, At, Sends
  <2>2. CASE local' = [local EXCEPT ![t] = Idle]
    <3>1. OthersStay(t) /\ Ends(t)
      BY <1>0, <2>2, Typed DEF OthersStay, Ends
    <3> QED
      BY <1>0, <2>1, <3>1 DEF Moves
  <2>3. CASE local' = [local EXCEPT ![t].pc = "take", ![t].array = dictionary[local[t].user]]
    <3>1. /\ OthersStay(t) /\ SameCall(t) /\ local'[t].array = dictionary[local[t].user]
          /\ local'[t].pc = "take"
      BY <1>0, <2>3 DEF OthersStay, SameCall, Calls
    <3> QED
      BY <1>0, <2>1, <3>1 DEF Moves
  <2> QED
    BY <1>3, <2>2, <2>3 DEF SendLooksUp, Return
<1>4. CASE SendTakes(t) /\ kind # "post"
  <2>1. /\ Sends(t) /\ local[t].pc = "take" /\ UNCHANGED arrays
        /\ local' = [local EXCEPT ![t].pc = "remove", ![t].array = dictionary[local[t].user]]
    BY <1>4 DEF SendTakes, Take, TakeAlias, At, Sends
  <2>2. /\ OthersStay(t) /\ SameCall(t) /\ local'[t].array = dictionary[local[t].user]
        /\ local'[t].pc = "remove"
    BY <1>0, <2>1 DEF OthersStay, SameCall, Calls
  <2> QED
    BY <1>0, <1>4, <2>1, <2>2 DEF Moves
<1>5. CASE EnumerationBegins(t)
  <2>1. Sends(t) /\ local[t].pc \in {"test", "body"} /\ UNCHANGED arrays
    BY <1>5 DEF EnumerationBegins, At, Sends
  <2>2. PICK pc \in {"testing", "building"} :
          local' = [local EXCEPT ![t].pc = pc, ![t].count = Len(PairsOf(t))]
    BY <1>5 DEF EnumerationBegins
  <2>3. /\ OthersStay(t) /\ SameCall(t) /\ local'[t].array = local[t].array
        /\ local'[t].pc = pc /\ local'[t].count = Len(PairsOf(t))
    BY <1>0, <2>2 DEF OthersStay, SameCall, Calls
  <2> QED
    BY <1>0, <2>1, <2>3 DEF Moves
<1>6. CASE BodyTested(t)
  <2>1. /\ Sends(t) /\ local[t].pc = "testing" /\ UNCHANGED arrays
        /\ local' = [local EXCEPT ![t].pc = "body"]
    BY <1>6 DEF BodyTested, Goto, At, Sends
  <2>2. OthersStay(t) /\ SameCall(t) /\ local'[t].array = local[t].array /\ local'[t].pc = "body"
    BY <1>0, <2>1 DEF OthersStay, SameCall, Calls
  <2> QED
    BY <1>0, <2>1, <2>2 DEF Moves
<1> QED
  BY <1>1, <1>2, <1>3, <1>4, <1>5, <1>6

LEMMA InsertsFacts ==
  ASSUME IInv, NEW t \in Threads, PrepareInserts(t)
  PROVE  Inserts(t)
<1>0. local \in [Threads -> Calls] /\ local[t] \in Calls
  BY Typed
<1>1. /\ ~raised /\ UNCHANGED <<kind, sent, made, raced, raised>>
      /\ Prepares(t) /\ local[t].pc = "insert"
      /\ local' = [local EXCEPT ![t].pc = "fetch"]
  BY DEF PrepareInserts, SetNewArray, Goto, At, Prepares
<1>2. OthersStay(t) /\ SameCall(t) /\ local'[t].pc = "fetch" /\ local'[t].array = local[t].array
  BY <1>0, <1>1 DEF OthersStay, SameCall, Calls
<1>3. ArraysKept /\ Len(arrays') = Len(arrays) + 1 /\ arrays'[Len(arrays) + 1] = <<>>
  BY DEF PrepareInserts, SetNewArray, IInv, PreparedTypeOK, ArraysKept
<1>4. /\ dictionary'[local[t].user] = Len(arrays) + 1
      /\ \A u \in Users : u # local[t].user => dictionary'[u] = dictionary[u]
  BY Typed DEF PrepareInserts, SetNewArray, PairUser, NewArray, IInv, PreparedTypeOK
<1> QED
  BY <1>1, <1>2, <1>3, <1>4 DEF Inserts

LEMMA AddsFacts ==
  ASSUME IInv, NEW t \in Threads, PrepareAdds(t)
  PROVE  Adds(t)
<1>1. /\ ~raised /\ UNCHANGED <<kind, dictionary, sent, made, raced, raised>>
      /\ Prepares(t) /\ local[t].pc = "add"
      /\ local' = [local EXCEPT ![t] = Idle]
  BY DEF PrepareAdds, Return, At, Prepares
<1>2. OthersStay(t) /\ Ends(t)
  BY <1>1, Typed DEF OthersStay, Ends
<1>3. /\ Len(arrays') = Len(arrays)
      /\ \A a \in 1 .. Len(arrays) : a # local[t].array => arrays'[a] = arrays[a]
      /\ local[t].array # NoArray =>
           arrays'[local[t].array] = Append(arrays[local[t].array], local[t].pair)
  <2>1. PICK at : at = local[t].array
    OBVIOUS
  <2>2. at \in 0 .. Len(arrays) /\ arrays \in Seq(Seq(Nat))
    BY <2>1, Typed DEF IInv, PreparedTypeOK
  <2>3. PICK grown : grown = Append(arrays[at], local[t].pair)
    OBVIOUS
  <2>4. arrays' = IF at = NoArray THEN arrays ELSE [arrays EXCEPT ![at] = grown]
    BY <2>1, <2>3 DEF PrepareAdds
  <2>5. /\ Len(arrays') = Len(arrays)
        /\ \A a \in 1 .. Len(arrays) : a # at => arrays'[a] = arrays[a]
        /\ at # NoArray => arrays'[at] = grown
    BY <2>2, <2>4 DEF NoArray
  <2> QED
    BY <2>1, <2>3, <2>5
<1> QED
  BY <1>1, <1>2, <1>3 DEF Adds

LEMMA CopiesFacts ==
  ASSUME IInv, NEW t \in Threads, SendTakes(t), kind = "post"
  PROVE  Copies(t)
<1>0. local \in [Threads -> Calls] /\ local[t] \in Calls
  BY Typed
<1>1. /\ ~raised /\ UNCHANGED <<kind, dictionary, sent, made, raced, raised>>
      /\ Sends(t) /\ local[t].pc = "take"
      /\ local' = [local EXCEPT ![t].pc = "remove", ![t].array = Len(arrays) + 1]
      /\ arrays' = Append(arrays, arrays[local[t].array])
  BY DEF SendTakes, Take, TakeCopy, NewArray, At, Sends
<1>2. /\ OthersStay(t) /\ SameCall(t) /\ local'[t].pc = "remove"
      /\ local'[t].array = Len(arrays) + 1
  BY <1>0, <1>1 DEF OthersStay, SameCall, Calls
<1>3. local[t].array \in 1 .. Len(arrays)
  BY <1>1, Typed DEF IInv, TakesAnArray, NoArray, Sends
<1>4. PICK copy : copy = arrays[local[t].array]
  OBVIOUS
<1>5. arrays \in Seq(Seq(Nat)) /\ copy \in Seq(Nat) /\ arrays' = Append(arrays, copy)
  BY <1>1, <1>3, <1>4 DEF IInv, PreparedTypeOK
<1>6. ArraysKept /\ Len(arrays') = Len(arrays) + 1 /\ arrays'[Len(arrays) + 1] = copy
  BY <1>5 DEF ArraysKept
<1> QED
  BY <1>1, <1>2, <1>3, <1>4, <1>6 DEF Copies

LEMMA RemovesFacts ==
  ASSUME IInv, NEW t \in Threads, SendRemoves(t)
  PROVE  Removes(t)
<1>0. local \in [Threads -> Calls] /\ local[t] \in Calls
  BY Typed
<1>1. /\ ~raised /\ UNCHANGED <<kind, arrays, sent, made, raced, raised>>
      /\ Sends(t) /\ local[t].pc = "remove"
      /\ local' = [local EXCEPT ![t].pc = "test"]
      /\ dictionary' = [dictionary EXCEPT ![local[t].user] = NoArray]
  BY DEF SendRemoves, WithoutUser, Goto, At, Sends
<1>2. OthersStay(t) /\ SameCall(t) /\ local'[t].pc = "test" /\ local'[t].array = local[t].array
  BY <1>0, <1>1 DEF OthersStay, SameCall, Calls
<1>3. /\ dictionary'[local[t].user] = NoArray
      /\ \A u \in Users : u # local[t].user => dictionary'[u] = dictionary[u]
  BY <1>1, Typed DEF IInv, PreparedTypeOK
<1> QED
  BY <1>1, <1>2, <1>3 DEF Removes

LEMMA PostsFacts ==
  ASSUME IInv, NEW t \in Threads, BodySent(t)
  PROVE  Posts(t)
<1>1. /\ ~raised /\ UNCHANGED <<kind, dictionary, arrays, made, raced, raised>>
      /\ Sends(t) /\ local[t].pc = "building"
      /\ local' = [local EXCEPT ![t] = Idle]
  BY DEF BodySent, Return, At, Sends
<1>2. OthersStay(t) /\ Ends(t)
  BY <1>1, Typed DEF OthersStay, Ends
<1>3. PICK b : b = [user |-> local[t].user, pairs |-> PairsOf(t), call |-> local[t].call]
  OBVIOUS
<1>4. PICK S : S = [user : Users, pairs : Seq(Nat), call : Nat]
  OBVIOUS
<1>5. b \in S /\ sent \in Seq(S) /\ sent' = Append(sent, b)
  <2>1. PairsOf(t) \in Seq(Nat)
    BY Typed DEF PairsOf, NoArray, IInv, PreparedTypeOK
  <2> QED
    BY <1>3, <1>4, <2>1, Typed DEF BodySent, IInv, PreparedTypeOK
<1>6. Len(sent') = Len(sent) + 1 /\ sent'[Len(sent) + 1] = b
      /\ \A i \in 1 .. Len(sent) : sent'[i] = sent[i]
  BY <1>5, Appended
<1> QED
  BY <1>1, <1>2, <1>3, <1>6 DEF Posts

LEMMA NextSteps ==
  ASSUME IInv, [PreparedNext]_preparedVars
  PROVE  Rests \/ \E t \in Threads : Steps(t)
<1>1. CASE UNCHANGED preparedVars
  BY <1>1 DEF preparedVars, Rests
<1>2. ASSUME NEW u \in Users, SetUserId(u) PROVE Rests
  BY <1>2 DEF SetUserId, Rests
<1>3. ASSUME NEW t \in Threads, PrepareBegins(t) PROVE Begins(t)
  <2>1. userId \in Users /\ Len(made) + 1 \in Nat
    BY DEF IInv, PreparedTypeOK
  <2> QED
    BY <1>3, <2>1, BeginsFacts DEF PrepareBegins
<1>4. ASSUME NEW t \in Threads, NEW u \in Users, SendBegins(t, u) PROVE Begins(t)
  BY <1>4, BeginsFacts DEF SendBegins
<1>5. ASSUME NEW t \in Threads, EnumerationRaises(t) PROVE Rests
  BY <1>5 DEF EnumerationRaises, Rests, At, Sends
<1>6. ASSUME NEW t \in Threads, PrepareValue(t) \/ SendPrepared(t) PROVE Rests \/ Steps(t)
  BY <1>3, <1>4, <1>5, <1>6, MovesFacts, InsertsFacts, AddsFacts, CopiesFacts, RemovesFacts,
     PostsFacts DEF PrepareValue, SendPrepared, Steps
<1> QED
  BY <1>1, <1>2, <1>6 DEF PreparedNext

-----------------------------------------------------------------------------
(* Which calls have met.  Two calls for one user of which one sends have,   *)
(* each of them; so have two prepares, unless the user has an array and     *)
(* neither of them is about to set another.                                 *)
PairOfItsCall == \A t \in Threads : Prepares(t) => made[local[t].pair].call = local[t].call

SendsMeet ==
  \A s, t \in Threads :
    /\ s # t /\ local[s].user = local[t].user /\ UnderWay(s) /\ UnderWay(t)
    /\ Sends(s) \/ Sends(t)
    => Raced(s) /\ Raced(t)

PreparesMeet ==
  \A s, t \in Threads :
    s # t /\ local[s].user = local[t].user /\ Prepares(s) /\ Prepares(t) =>
      \/ Raced(s) /\ Raced(t)
      \/ dictionary[local[s].user] # NoArray /\ local[s].pc # "insert" /\ local[t].pc # "insert"

CallsMeet == PairOfItsCall /\ SendsMeet /\ PreparesMeet

LEMMA SameCallsMeet ==
  ASSUME SendsMeet, PairOfItsCall, UNCHANGED <<made, raced>>, NEW t \in Threads, OthersStay(t),
         Ends(t) \/ SameCall(t)
  PROVE  SendsMeet' /\ PairOfItsCall'
<1>1. ASSUME NEW s \in Threads, local'[s].op # "none"
      PROVE  /\ local'[s].op = local[s].op /\ local'[s].user = local[s].user
             /\ local'[s].call = local[s].call /\ local'[s].pair = local[s].pair
  BY <1>1 DEF OthersStay, Ends, SameCall
<1>2. SendsMeet'
  BY <1>1 DEF SendsMeet, Sends, UnderWay, Raced
<1>3. PairOfItsCall'
  BY <1>1 DEF PairOfItsCall, Prepares
<1> QED
  BY <1>2, <1>3

LEMMA NextCallsMeet ==
  ASSUME IInv, CallsMeet, NEW t \in Threads, Steps(t)
  PROVE  CallsMeet'
<1> USE DEF CallsMeet
<1>0. ASSUME NEW s \in Threads
      PROVE  local[s].user \in Users /\ (Prepares(s) => local[s].pair \in 1 .. Len(made))
  BY Typed DEF IInv, OwnedBy, PairIsOfItsCall, Prepares
<1>1. CASE Begins(t)
  <2>1. SendsMeet'
    BY <1>1 DEF Begins, SendsMeet, OthersStay, Sends, UnderWay, Raced
  <2>2. PreparesMeet'
    <3> SUFFICES ASSUME NEW r \in Threads, NEW s \in Threads, r # s,
                        local'[r].user = local'[s].user,
                        local'[r].op = "prepare", local'[s].op = "prepare"
                 PROVE  \/ local'[r].call \in raced' /\ local'[s].call \in raced'
                        \/ /\ dictionary[local'[r].user] # NoArray
                           /\ local'[r].pc # "insert" /\ local'[s].pc # "insert"
      BY <1>1 DEF Begins, PreparesMeet, Prepares, Raced
    <3>1. CASE r # t /\ s # t
      BY <1>1, <3>1 DEF Begins, PreparesMeet, OthersStay, Prepares, Raced
    <3>2. CASE r = t \/ s = t
      BY <1>1, <3>2 DEF Begins, OthersStay, UnderWay
    <3> QED
      BY <3>1, <3>2
  <2>3. PairOfItsCall'
    BY <1>0, <1>1 DEF Begins, PairOfItsCall, OthersStay, Prepares
  <2> QED
    BY <2>1, <2>2, <2>3
<1>2. CASE Moves(t)
  <2>1. PreparesMeet'
    BY <1>2 DEF Moves, SameCall, Ends, PreparesMeet, OthersStay, Prepares, Sends, Raced
  <2> QED
    BY <1>2, <2>1, SameCallsMeet DEF Moves
<1>3. CASE Inserts(t)
  <2>1. PreparesMeet'
    BY <1>0, <1>3, Typed, SMTT(30) DEF Inserts, SameCall, PreparesMeet, OthersStay, Prepares, Raced, NoArray
  <2> QED
    BY <1>3, <2>1, SameCallsMeet DEF Inserts
<1>4. CASE Adds(t) \/ Copies(t) \/ Posts(t)
  <2>1. PreparesMeet'
    BY <1>4 DEF Adds, Copies, Posts, SameCall, Ends, PreparesMeet, OthersStay, Prepares, Sends,
                Raced
  <2> QED
    BY <1>4, <2>1, SameCallsMeet DEF Adds, Copies, Posts
<1>5. CASE Removes(t)
  <2>1. PreparesMeet'
    <3>1. ASSUME NEW s \in Threads, Prepares(s), local[s].user = local[t].user PROVE Raced(s)
      BY <1>5, <3>1 DEF Removes, SendsMeet, Prepares, Sends, UnderWay
    <3> QED
      BY <1>0, <1>5, <3>1 DEF Removes, SameCall, PreparesMeet, OthersStay, Prepares, Sends, Raced
  <2> QED
    BY <1>5, <2>1, SameCallsMeet DEF Removes
<1> QED
  BY <1>1, <1>2, <1>3, <1>4, <1>5 DEF Steps

-----------------------------------------------------------------------------
(* Arrays and what they hold. *)
LEMMA HeldIsMade ==
  ASSUME IInv, NEW a \in 0 .. Len(arrays), NEW p, Holds(a, p)
  PROVE  p \in 1 .. Len(made)
<1>1. arrays \in Seq(Seq(Nat)) /\ Len(arrays) \in Nat
  BY DEF IInv, PreparedTypeOK
<1>2. a \in 1 .. Len(arrays) /\ arrays[a] \in Seq(Nat)
  BY <1>1 DEF Holds, NoArray
<1>3. PICK i \in 1 .. Len(arrays[a]) : arrays[a][i] = p
  BY <1>2 DEF Holds
<1> QED
  BY <1>2, <1>3 DEF IInv, OwnedBy, PairsOwned

(* An array has one user, and its pairs are of that user.                   *)
LEMMA UsersOfArrays ==
  ASSUME IInv
  PROVE  /\ \A t \in Threads, u \in Users :
              local[t].array # NoArray /\ dictionary[u] = local[t].array => local[t].user = u
         /\ \A s, t \in Threads :
              local[t].array # NoArray /\ local[s].array = local[t].array =>
                local[s].user = local[t].user
         /\ \A t \in Threads, p \in 1 .. Len(made) :
              Holds(local[t].array, p) => made[p].user = local[t].user
         /\ \A u \in Users, p \in 1 .. Len(made) :
              Holds(dictionary[u], p) => made[p].user = u
<1>1. PICK owner : OwnedBy(owner)
  BY DEF IInv
<1>2. ASSUME NEW a \in 0 .. Len(arrays), NEW p, Holds(a, p)
      PROVE  a \in 1 .. Len(arrays) /\ made[p].user = owner[a]
  <2>1. arrays \in Seq(Seq(Nat)) /\ Len(arrays) \in Nat
    BY DEF IInv, PreparedTypeOK
  <2>2. a \in 1 .. Len(arrays) /\ arrays[a] \in Seq(Nat)
    BY <1>2, <2>1 DEF Holds, NoArray
  <2>3. PICK i \in 1 .. Len(arrays[a]) : arrays[a][i] = p
    BY <1>2, <2>2 DEF Holds
  <2> QED
    BY <1>1, <2>2, <2>3 DEF OwnedBy, PairsOwned
<1>3. \A t \in Threads : local[t].array \in 0 .. Len(arrays)
  BY Typed
<1>4. \A u \in Users : dictionary[u] \in 0 .. Len(arrays)
  BY DEF IInv, PreparedTypeOK
<1>5. \A t \in Threads, p \in 1 .. Len(made) :
        Holds(local[t].array, p) => made[p].user = local[t].user
  <2> SUFFICES ASSUME NEW t \in Threads, NEW p \in 1 .. Len(made), Holds(local[t].array, p)
               PROVE  made[p].user = local[t].user
    OBVIOUS
  <2>1. local[t].array # NoArray
    BY DEF Holds
  <2> QED
    BY <1>1, <1>2, <1>3, <2>1 DEF OwnedBy, CallsOwned
<1>6. \A u \in Users, p \in 1 .. Len(made) : Holds(dictionary[u], p) => made[p].user = u
  <2> SUFFICES ASSUME NEW u \in Users, NEW p \in 1 .. Len(made), Holds(dictionary[u], p)
               PROVE  made[p].user = u
    OBVIOUS
  <2>1. dictionary[u] # NoArray
    BY DEF Holds
  <2> QED
    BY <1>1, <1>2, <1>4, <2>1 DEF OwnedBy, DictionaryOwned
<1> QED
  BY <1>1, <1>5, <1>6 DEF OwnedBy, CallsOwned, DictionaryOwned

LEMMA HeldKept ==
  ASSUME IInv, ArraysKept, NEW a \in 0 .. Len(arrays), NEW p
  PROVE  Holds(a, p)' <=> Holds(a, p)
<1>1. a = NoArray \/ arrays'[a] = arrays[a]
  BY DEF ArraysKept, NoArray, IInv, PreparedTypeOK
<1> QED
  BY <1>1 DEF Holds

(* addObject: adds the pair of the call, to its array.                      *)
LEMMA HeldGrown ==
  ASSUME IInv, NEW t \in Threads, Adds(t), NEW a \in 0 .. Len(arrays), NEW p
  PROVE  Holds(a, p)' <=> \/ Holds(a, p)
                          \/ a # NoArray /\ a = local[t].array /\ p = local[t].pair
<1>1. arrays \in Seq(Seq(Nat)) /\ local[t].pair \in Nat
  BY Typed DEF IInv, PreparedTypeOK
<1>2. CASE a = NoArray
  BY <1>2 DEF Holds
<1>3. CASE a # NoArray /\ a # local[t].array
  <2>1. arrays'[a] = arrays[a]
    BY <1>1, <1>3 DEF Adds, NoArray
  <2> QED
    BY <1>3, <2>1 DEF Holds
<1>4. CASE a # NoArray /\ a = local[t].array
  <2>1. PICK old : old = arrays[a]
    OBVIOUS
  <2>2. PICK e : e = local[t].pair
    OBVIOUS
  <2>3. old \in Seq(Nat) /\ e \in Nat /\ arrays'[a] = Append(old, e)
    BY <1>1, <1>4, <2>1, <2>2 DEF Adds, NoArray
  <2>4. DOMAIN old = 1 .. Len(old) /\ DOMAIN Append(old, e) = 1 .. Len(old) + 1
        /\ Len(old) \in Nat
        /\ Append(old, e)[Len(old) + 1] = e /\ \A i \in 1 .. Len(old) : Append(old, e)[i] = old[i]
    BY <2>3
  <2>5. (\E i \in DOMAIN Append(old, e) : Append(old, e)[i] = p)
          <=> (\E i \in DOMAIN old : old[i] = p) \/ p = e
    BY <2>4
  <2> QED
    BY <1>4, <2>1, <2>2, <2>3, <2>5 DEF Holds
<1> QED
  BY <1>2, <1>3, <1>4

(* The pair waits in the array of the user; the call has the array it is in. *)
InDictionary(u, p) == Holds(dictionary[u], p)
InHands(t, p) == Holds(local[t].array, p)

(* What a step does to a user's array: it may gain the pair of the step's   *)
(* call, or be replaced or removed by a call for that user.                 *)
LEMMA DictionaryStep ==
  ASSUME IInv, NEW t \in Threads, Steps(t), NEW u \in Users, NEW p
  PROVE  /\ InDictionary(u, p)' =>
              \/ InDictionary(u, p)
              \/ /\ Adds(t) /\ p = local[t].pair
                 /\ local[t].array # NoArray /\ dictionary[u] = local[t].array
         /\ InDictionary(u, p) =>
              \/ InDictionary(u, p)'
              \/ /\ Inserts(t) \/ Removes(t)
                 /\ u = local[t].user
         /\ /\ Adds(t) /\ p = local[t].pair
            /\ local[t].array # NoArray /\ dictionary[u] = local[t].array
            => InDictionary(u, p)'
         /\ Inserts(t) /\ u = local[t].user => ~InDictionary(u, p)'
         /\ InDictionary(u, p) => p \in 1 .. Len(made)
<1>1. PICK a \in 0 .. Len(arrays) : a = dictionary[u]
  BY DEF IInv, PreparedTypeOK
<1>2. InDictionary(u, p) <=> Holds(a, p)
  BY <1>1 DEF InDictionary
<1>3. InDictionary(u, p) => p \in 1 .. Len(made)
  BY <1>2, HeldIsMade
<1>4. dictionary'[u] = a => (InDictionary(u, p)' <=> Holds(a, p)')
  BY DEF InDictionary
<1>5. CASE Begins(t) \/ Moves(t) \/ Posts(t)
  <2>1. dictionary'[u] = a /\ arrays' = arrays
    BY <1>1, <1>5 DEF Begins, Moves, Posts
  <2>2. InDictionary(u, p)' <=> InDictionary(u, p)
    BY <1>1, <2>1 DEF InDictionary, Holds
  <2>3. ~Adds(t) /\ ~Inserts(t) /\ ~Removes(t)
    BY <1>5 DEF Begins, Moves, Posts, Adds, Inserts, Removes, UnderWay, Sends, Prepares
  <2> QED
    BY <1>3, <2>2, <2>3
<1>6. CASE Copies(t)
  <2>1. dictionary'[u] = a /\ ArraysKept
    BY <1>1, <1>6 DEF Copies
  <2>2. InDictionary(u, p)' <=> InDictionary(u, p)
    BY <1>2, <1>4, <2>1, HeldKept
  <2>3. ~Adds(t) /\ ~Inserts(t)
    BY <1>6 DEF Copies, Adds, Inserts, Sends, Prepares
  <2> QED
    BY <1>3, <2>2, <2>3
<1>7. CASE Adds(t)
  <2>1. dictionary'[u] = a
    BY <1>1, <1>7 DEF Adds
  <2>2. InDictionary(u, p)' <=>
          \/ Holds(a, p)
          \/ a # NoArray /\ a = local[t].array /\ p = local[t].pair
    BY <1>4, <1>7, <2>1, HeldGrown
  <2>3. ~Inserts(t)
    BY <1>7 DEF Adds, Inserts
  <2> QED
    BY <1>1, <1>2, <1>3, <1>7, <2>2, <2>3
<1>8. CASE Inserts(t)
  <2>1. CASE u = local[t].user
    <3>1. ~InDictionary(u, p)'
      BY <1>8, <2>1 DEF Inserts, InDictionary, Holds
    <3> QED
      BY <1>3, <1>8, <2>1, <3>1 DEF Adds, Inserts
  <2>2. CASE u # local[t].user
    <3>1. dictionary'[u] = a /\ ArraysKept
      BY <1>1, <1>8, <2>2 DEF Inserts
    <3>2. InDictionary(u, p)' <=> InDictionary(u, p)
      BY <1>2, <1>4, <3>1, HeldKept
    <3> QED
      BY <1>3, <1>8, <2>2, <3>2 DEF Adds, Inserts
  <2> QED
    BY <2>1, <2>2
<1>9. CASE Removes(t)
  <2>1. CASE u = local[t].user
    <3>1. ~InDictionary(u, p)'
      BY <1>9, <2>1 DEF Removes, InDictionary, Holds
    <3> QED
      BY <1>3, <1>9, <2>1, <3>1 DEF Adds, Inserts, Removes, Sends, Prepares
  <2>2. CASE u # local[t].user
    <3>1. dictionary'[u] = a /\ arrays' = arrays
      BY <1>1, <1>9, <2>2 DEF Removes
    <3>2. InDictionary(u, p)' <=> InDictionary(u, p)
      BY <1>1, <3>1 DEF InDictionary, Holds
    <3> QED
      BY <1>3, <1>9, <2>2, <3>2 DEF Adds, Inserts, Removes, Sends, Prepares
  <2> QED
    BY <2>1, <2>2
<1> QED
  BY <1>5, <1>6, <1>7, <1>8, <1>9 DEF Steps

(* What a step does to the array another call has: it may gain a pair.      *)
LEMMA OtherHandsStep ==
  ASSUME IInv, NEW t \in Threads, Steps(t), NEW s \in Threads, s # t, NEW p
  PROVE  /\ InHands(s, p) => InHands(s, p)'
         /\ InHands(s, p)' =>
              \/ InHands(s, p)
              \/ /\ Adds(t) /\ p = local[t].pair
                 /\ local[t].array # NoArray /\ local[s].array = local[t].array
<1>1. PICK a \in 0 .. Len(arrays) : a = local[s].array
  BY Typed
<1>2. local'[s] = local[s]
  BY DEF Steps, Begins, Moves, Inserts, Adds, Copies, Removes, Posts, OthersStay
<1>3. (InHands(s, p) <=> Holds(a, p)) /\ (InHands(s, p)' <=> Holds(a, p)')
  BY <1>1, <1>2 DEF InHands
<1>4. CASE Begins(t) \/ Moves(t) \/ Posts(t) \/ Removes(t)
  <2>1. arrays' = arrays
    BY <1>4 DEF Begins, Moves, Posts, Removes
  <2> QED
    BY <1>2, <2>1 DEF InHands, Holds
<1>5. CASE Copies(t) \/ Inserts(t)
  <2>1. ArraysKept
    BY <1>5 DEF Copies, Inserts
  <2> QED
    BY <1>3, <2>1, HeldKept
<1>6. CASE Adds(t)
  BY <1>1, <1>3, <1>6, HeldGrown
<1> QED
  BY <1>4, <1>5, <1>6 DEF Steps

(* What it does to the array its own call has: the same pairs as before, or *)
(* those of the user's array.                                               *)
LEMMA OwnHandsStep ==
  ASSUME IInv, NEW t \in Threads, Steps(t), NEW p
  PROVE  /\ InHands(t, p)' => SameCall(t)
         /\ SameCall(t) /\ ~Moves(t) => (InHands(t, p)' <=> InHands(t, p))
         /\ Moves(t) /\ local'[t].array = local[t].array => (InHands(t, p)' <=> InHands(t, p))
         /\ Moves(t) /\ local'[t].array = dictionary[local[t].user] =>
              (InHands(t, p)' <=> InDictionary(local[t].user, p))
<1>1. PICK a \in 0 .. Len(arrays) : a = local[t].array
  BY Typed
<1>2. InHands(t, p) <=> Holds(a, p)
  BY <1>1 DEF InHands
<1>3. CASE Moves(t)
  <2>1. arrays' = arrays /\ (SameCall(t) \/ Ends(t))
    BY <1>3 DEF Moves
  <2>2. Ends(t) => ~InHands(t, p)'
    BY DEF Ends, InHands, Holds
  <2>3. local'[t].array = local[t].array => (InHands(t, p)' <=> InHands(t, p))
    BY <2>1 DEF InHands, Holds
  <2>4. local'[t].array = dictionary[local[t].user] =>
          (InHands(t, p)' <=> InDictionary(local[t].user, p))
    BY <2>1 DEF InHands, InDictionary, Holds
  <2> QED
    BY <1>3, <2>1, <2>2, <2>3, <2>4
<1>4. CASE Begins(t) \/ Adds(t) \/ Posts(t)
  <2>1. local'[t].array = NoArray /\ ~Moves(t)
    BY <1>4 DEF Begins, Adds, Posts, Moves, Ends, UnderWay, Sends, Prepares
  <2>2. ~InHands(t, p)'
    BY <2>1 DEF InHands, Holds
  <2>3. ~SameCall(t)
    BY <1>4 DEF Begins, Adds, Posts, Ends, SameCall, UnderWay, Sends, Prepares
  <2> QED
    BY <2>1, <2>2, <2>3
<1>5. CASE Inserts(t) \/ Removes(t)
  <2>1. SameCall(t) /\ ~Moves(t) /\ local'[t].array = a
    BY <1>1, <1>5 DEF Inserts, Removes, Moves, Sends, Prepares
  <2>2. ArraysKept
    BY <1>5 DEF Inserts, Removes, ArraysKept, IInv, PreparedTypeOK
  <2>3. InHands(t, p)' <=> Holds(a, p)'
    BY <2>1 DEF InHands
  <2> QED
    BY <1>2, <2>1, <2>2, <2>3, HeldKept
<1>6. CASE Copies(t)
  <2>1. SameCall(t) /\ ~Moves(t)
    BY <1>6 DEF Copies, Moves, Sends, Prepares
  <2>2. /\ local[t].array # NoArray /\ local'[t].array # NoArray
        /\ arrays'[local'[t].array] = arrays[local[t].array]
    BY <1>6, Typed DEF Copies, NoArray
  <2>3. InHands(t, p)' <=> InHands(t, p)
    BY <2>2 DEF InHands, Holds
  <2> QED
    BY <2>1, <2>3
<1> QED
  BY <1>3, <1>4, <1>5, <1>6 DEF Steps

-----------------------------------------------------------------------------
(* Where a pair is.  Only the arrays that sends have taken count as being   *)
(* in hand: what a send looks up is not yet its own.                        *)
Taken(t) == Sends(t) /\ local[t].pc \notin {"lookup", "take"}
InTakenHand(p) == \E t \in Threads : Taken(t) /\ InHands(t, p)

(* A prepare that met no one has the array of its user.                     *)
ArrayFound ==
  \A t \in Threads : Prepares(t) /\ ~Raced(t) =>
    /\ local[t].pc = "fetch" => dictionary[local[t].user] # NoArray
    /\ local[t].pc = "add" => /\ local[t].array # NoArray
                              /\ dictionary[local[t].user] = local[t].array

(* What a new array is about to replace, and what a send is about to remove *)
(* without having it, was prepared by calls that met others.                *)
NothingReplaced ==
  \A t \in Threads : Prepares(t) /\ local[t].pc = "insert" =>
    \A p \in 1 .. Len(made) : InDictionary(local[t].user, p) => OldCall(p)

AllTaken ==
  \A t \in Threads : Sends(t) /\ local[t].pc \in {"take", "remove"} =>
    \A p \in 1 .. Len(made) : InDictionary(local[t].user, p) => InHands(t, p) \/ OldCall(p)

Kept ==
  \A p \in 1 .. Len(made) :
    BeingPrepared(p) \/ Waits(p) \/ InTakenHand(p) \/ InBody(p) \/ OldCall(p)

LostInd == CallsMeet /\ ArrayFound /\ NothingReplaced /\ AllTaken /\ Kept

LEMMA NextArrayFound ==
  ASSUME IInv, CallsMeet, ArrayFound, NEW t \in Threads, Steps(t)
  PROVE  ArrayFound'
<1> SUFFICES ASSUME NEW s \in Threads, local'[s].op = "prepare", local'[s].call \notin raced'
             PROVE  /\ local'[s].pc = "fetch" => dictionary'[local'[s].user] # NoArray
                    /\ local'[s].pc = "add" => /\ local'[s].array # NoArray
                                               /\ dictionary'[local'[s].user] = local'[s].array
  BY DEF ArrayFound, Prepares, Raced
<1>1. local[s].user \in Users
  BY Typed
<1>2. CASE Begins(t)
  BY <1>2 DEF Begins, OthersStay, ArrayFound, Prepares, Raced
<1>3. CASE Moves(t)
  BY <1>3 DEF Moves, OthersStay, SameCall, Ends, ArrayFound, Prepares, Sends, Raced
<1>4. CASE Inserts(t)
  <2>1. s # t /\ local[s].user = local[t].user => FALSE
    BY <1>4 DEF Inserts, OthersStay, CallsMeet, PreparesMeet, Prepares, Raced
  <2> QED
    BY <1>1, <1>4, <2>1, Typed
       DEF Inserts, OthersStay, SameCall, ArrayFound, Prepares, Raced, NoArray
<1>5. CASE Adds(t) \/ Copies(t) \/ Posts(t)
  BY <1>5 DEF Adds, Copies, Posts, OthersStay, SameCall, Ends, ArrayFound, Prepares, Sends, Raced
<1>6. CASE Removes(t)
  <2>1. local[s].user # local[t].user /\ s # t
    BY <1>6 DEF Removes, OthersStay, SameCall, CallsMeet, SendsMeet, Prepares, Sends, UnderWay,
                Raced
  <2> QED
    BY <1>1, <1>6, <2>1 DEF Removes, OthersStay, ArrayFound, Prepares, Raced
<1> QED
  BY <1>2, <1>3, <1>4, <1>5, <1>6 DEF Steps

(* Calls that met others stay so.                                           *)
LEMMA RacedStep ==
  ASSUME IInv, NEW t \in Threads, Steps(t)
  PROVE  /\ raced \subseteq raced'
         /\ \A p \in 1 .. Len(made) : made'[p] = made[p] /\ (OldCall(p) => OldCall(p)')
         /\ 1 .. Len(made) \subseteq 1 .. Len(made')
<1>1. CASE Begins(t)
  BY <1>1, Typed DEF Begins, OldCall
<1>2. CASE ~Begins(t)
  BY <1>2 DEF Steps, Moves, Inserts, Adds, Copies, Removes, Posts, OldCall
<1> QED
  BY <1>1, <1>2

LEMMA NextNothingReplaced ==
  ASSUME IInv, CallsMeet, NothingReplaced, NEW t \in Threads, Steps(t)
  PROVE  NothingReplaced'
<1> SUFFICES ASSUME NEW s \in Threads, local'[s].op = "prepare", local'[s].pc = "insert",
                    NEW p, NEW u, u = local'[s].user, InDictionary(u, p)'
             PROVE  OldCall(p)'
  BY DEF NothingReplaced, Prepares
<1>1. /\ s # t => local'[s] = local[s]
      /\ s = t => /\ Moves(t) /\ SameCall(t) /\ Prepares(t)
                  /\ dictionary[local[t].user] = NoArray
  BY DEF Steps, Begins, Moves, Inserts, Adds, Copies, Removes, Posts, OthersStay, SameCall, Ends,
         Sends, Prepares
<1>2. u \in Users /\ u = local[s].user
  BY <1>1, Typed DEF SameCall
<1>3. CASE InDictionary(u, p)
  <2>1. p \in 1 .. Len(made)
    BY <1>2, <1>3, DictionaryStep
  <2>2. s # t
    BY <1>1, <1>2, <1>3 DEF InDictionary, Holds
  <2>3. OldCall(p)
    BY <1>1, <1>2, <1>3, <2>1, <2>2 DEF NothingReplaced, Prepares
  <2> QED
    BY <2>1, <2>3, RacedStep
<1>4. CASE ~InDictionary(u, p)
  <2>1. /\ Adds(t) /\ p = local[t].pair
        /\ local[t].array # NoArray /\ dictionary[u] = local[t].array
    BY <1>2, <1>4, DictionaryStep
  <2>2. s # t
    BY <1>1, <2>1 DEF Adds, Moves
  <2>3. local[t].user = u
    BY <1>2, <2>1, UsersOfArrays
  <2>4. Raced(t) /\ made[p].call = local[t].call /\ p \in 1 .. Len(made)
    BY <1>1, <1>2, <2>1, <2>2, <2>3
       DEF Adds, CallsMeet, PreparesMeet, PairOfItsCall, Prepares, IInv, OwnedBy, PairIsOfItsCall
  <2>5. OldCall(p)
    BY <2>4 DEF OldCall, Raced
  <2> QED
    BY <2>4, <2>5, RacedStep
<1> QED
  BY <1>3, <1>4

LEMMA NextAllTaken ==
  ASSUME IInv, CallsMeet, AllTaken, NEW t \in Threads, Steps(t)
  PROVE  AllTaken'
<1> SUFFICES ASSUME NEW s \in Threads, local'[s].op = "send", local'[s].pc \in {"take", "remove"},
                    NEW p, NEW u, u = local'[s].user, InDictionary(u, p)', ~InHands(s, p)'
             PROVE  OldCall(p)'
  BY DEF AllTaken, Sends
<1>1. /\ s # t => local'[s] = local[s]
      /\ s = t => /\ SameCall(t) /\ Sends(t)
                  /\ \/ Moves(t) /\ local'[t].array = dictionary[local[t].user]
                     \/ Copies(t)
  BY DEF Steps, Begins, Moves, Inserts, Adds, Copies, Removes, Posts, OthersStay, SameCall, Ends,
         Sends, Prepares
<1>2. u \in Users /\ u = local[s].user
  BY <1>1, Typed DEF SameCall
<1>3. CASE s = t
  <2>1. InDictionary(u, p) /\ p \in 1 .. Len(made)
    <3>1. ~Adds(t)
      BY <1>1, <1>3 DEF Adds, Sends, Prepares
    <3> QED
      BY <1>2, <3>1, DictionaryStep
  <2>2. Copies(t) /\ ~InHands(t, p)
    <3>1. ~Moves(t)
      BY <1>1, <1>2, <1>3, <2>1, OwnHandsStep DEF Copies, Moves
    <3> QED
      BY <1>1, <1>3, <3>1, OwnHandsStep
  <2>3. OldCall(p)
    BY <1>1, <1>2, <1>3, <2>1, <2>2 DEF AllTaken, Copies
  <2> QED
    BY <2>1, <2>3, RacedStep
<1>4. CASE s # t /\ InDictionary(u, p)
  <2>1. p \in 1 .. Len(made) /\ ~InHands(s, p)
    BY <1>2, <1>4, DictionaryStep, OtherHandsStep
  <2>2. OldCall(p)
    BY <1>1, <1>2, <1>4, <2>1 DEF AllTaken, Sends
  <2> QED
    BY <2>1, <2>2, RacedStep
<1>5. CASE s # t /\ ~InDictionary(u, p)
  <2>1. /\ Adds(t) /\ p = local[t].pair
        /\ local[t].array # NoArray /\ dictionary[u] = local[t].array
    BY <1>2, <1>5, DictionaryStep
  <2>2. local[t].user = u
    BY <1>2, <2>1, UsersOfArrays
  <2>3. Raced(t) /\ made[p].call = local[t].call /\ p \in 1 .. Len(made)
    BY <1>1, <1>2, <1>5, <2>1, <2>2
       DEF Adds, CallsMeet, SendsMeet, PairOfItsCall, Prepares, Sends, UnderWay, IInv, OwnedBy,
           PairIsOfItsCall
  <2>4. OldCall(p)
    BY <2>3 DEF OldCall, Raced
  <2> QED
    BY <2>3, <2>4, RacedStep
<1> QED
  BY <1>3, <1>4, <1>5

(* A body is what the array of its call holds when it is sent.              *)
LEMMA BodiesStep ==
  ASSUME IInv, IInv', NEW t \in Threads, Steps(t)
  PROVE  /\ \A i \in DOMAIN sent : i \in DOMAIN sent' /\ sent'[i] = sent[i]
         /\ \A i \in DOMAIN sent' : i \notin DOMAIN sent =>
              /\ Posts(t) /\ sent'[i].call = local[t].call /\ sent'[i].pairs = PairsOf(t)
              /\ \A j \in DOMAIN sent' : j \in DOMAIN sent \/ j = i
         /\ Posts(t) => Len(sent) + 1 \in DOMAIN sent'
<1>1. DOMAIN sent = 1 .. Len(sent) /\ DOMAIN sent' = 1 .. Len(sent') /\ Len(sent) \in Nat
  <2>1. PICK S : S = [user : Users, pairs : Seq(Nat), call : Nat]
    OBVIOUS
  <2>2. sent \in Seq(S) /\ sent' \in Seq(S)
    BY <2>1 DEF IInv, PreparedTypeOK
  <2> QED
    BY <2>2
<1>2. CASE Posts(t)
  BY <1>1, <1>2 DEF Posts
<1>3. CASE ~Posts(t)
  <2>1. sent' = sent
    BY <1>3 DEF Steps, Begins, Moves, Inserts, Adds, Copies, Removes
  <2> QED
    BY <1>3, <2>1
<1> QED
  BY <1>2, <1>3

LEMMA HandsAndPairs ==
  ASSUME NEW t \in Threads, NEW p
  PROVE  InHands(t, p) <=> \E j \in DOMAIN PairsOf(t) : PairsOf(t)[j] = p
<1>1. CASE local[t].array = NoArray
  <2>1. PairsOf(t) = <<>> /\ DOMAIN PairsOf(t) = {}
    BY <1>1 DEF PairsOf
  <2> QED
    BY <1>1, <2>1 DEF InHands, Holds
<1>2. CASE local[t].array # NoArray
  BY <1>2 DEF InHands, Holds, PairsOf
<1> QED
  BY <1>1, <1>2

LEMMA InBodyStep ==
  ASSUME IInv, IInv', NEW t \in Threads, Steps(t), NEW p
  PROVE  InBody(p)' <=> InBody(p) \/ (Posts(t) /\ InHands(t, p))
<1>1. ASSUME InBody(p) PROVE InBody(p)'
  BY <1>1, BodiesStep DEF InBody
<1>2. ASSUME InBody(p)', ~InBody(p) PROVE Posts(t) /\ InHands(t, p)
  <2>1. PICK i \in DOMAIN sent' : \E j \in DOMAIN sent'[i].pairs : sent'[i].pairs[j] = p
    BY <1>2 DEF InBody
  <2>2. i \notin DOMAIN sent
    BY <1>2, <2>1, BodiesStep DEF InBody
  <2>3. Posts(t) /\ sent'[i].pairs = PairsOf(t)
    BY <2>1, <2>2, BodiesStep
  <2> QED
    BY <2>1, <2>3, HandsAndPairs
<1>3. ASSUME Posts(t), InHands(t, p) PROVE InBody(p)'
  <2>1. PICK i : i = Len(sent) + 1
    OBVIOUS
  <2>2. i \in DOMAIN sent' /\ sent'[i].pairs = PairsOf(t)
    BY <1>3, <2>1, BodiesStep DEF Posts
  <2>3. PICK j \in DOMAIN sent'[i].pairs : sent'[i].pairs[j] = p
    BY <1>3, <2>2, HandsAndPairs
  <2> QED
    BY <2>2, <2>3 DEF InBody
<1> QED
  BY <1>1, <1>2, <1>3

LEMMA NextKept ==
  ASSUME IInv, IInv', LostInd, NEW t \in Threads, Steps(t)
  PROVE  Kept'
<1> SUFFICES ASSUME NEW p \in 1 .. Len(made'), ~OldCall(p)'
             PROVE  BeingPrepared(p)' \/ Waits(p)' \/ InTakenHand(p)' \/ InBody(p)'
  BY DEF Kept
<1>1. CASE p \notin 1 .. Len(made)
  <2>1. Begins(t) /\ local'[t].op = "prepare" /\ local'[t].pair = p
    BY <1>1, Typed DEF Steps, Begins, Moves, Inserts, Adds, Copies, Removes, Posts
  <2> QED
    BY <2>1 DEF BeingPrepared
<1>2. CASE p \in 1 .. Len(made)
  <2>0. ~OldCall(p)
    BY <1>2, RacedStep
  <2>1. ASSUME NEW s \in Threads, Prepares(s), local[s].pair = p
        PROVE  BeingPrepared(p)' \/ Waits(p)'
    <3>1. CASE local'[s].op = "prepare" /\ local'[s].pair = p
      BY <3>1 DEF BeingPrepared
    <3>2. CASE ~(local'[s].op = "prepare" /\ local'[s].pair = p)
      <4>1. s = t /\ Adds(t)
        BY <2>1, <3>2 DEF Steps, Begins, Moves, Inserts, Adds, Copies, Removes, Posts, OthersStay,
                          SameCall, Ends, Sends, Prepares, UnderWay
      <4>2. ~Raced(t)
        BY <2>0, <2>1, <4>1 DEF LostInd, CallsMeet, PairOfItsCall, OldCall, Raced
      <4>3. /\ local[t].array # NoArray /\ dictionary[local[t].user] = local[t].array
            /\ local[t].user \in Users
        BY <2>1, <4>1, <4>2, Typed DEF LostInd, ArrayFound, Adds
      <4>4. PICK u \in Users : u = local[t].user
        BY <4>3
      <4>5. InDictionary(u, p)'
        BY <2>1, <4>1, <4>3, <4>4, DictionaryStep
      <4> QED
        BY <4>5, SMTT(30) DEF Waits, InDictionary
    <3> QED
      BY <3>1, <3>2
  <2>2. ASSUME NEW u \in Users, InDictionary(u, p)
        PROVE  Waits(p)' \/ InTakenHand(p)'
    <3>1. CASE InDictionary(u, p)'
      BY <3>1 DEF Waits, InDictionary
    <3>2. CASE ~InDictionary(u, p)'
      <4>1. (Inserts(t) \/ Removes(t)) /\ u = local[t].user
        BY <2>2, <3>2, DictionaryStep
      <4>2. Removes(t)
        BY <1>2, <2>0, <2>2, <4>1 DEF LostInd, NothingReplaced, Inserts
      <4>3. InHands(t, p)
        BY <1>2, <2>0, <2>2, <4>1, <4>2 DEF LostInd, AllTaken, Removes
      <4>4. InHands(t, p)' /\ Taken(t)'
        BY <4>2, <4>3, OwnHandsStep DEF Removes, Moves, SameCall, Taken, Sends
      <4> QED
        BY <4>4 DEF InTakenHand
    <3> QED
      BY <3>1, <3>2
  <2>3. ASSUME NEW s \in Threads, Taken(s), InHands(s, p)
        PROVE  InTakenHand(p)' \/ InBody(p)'
    <3>1. CASE s # t
      <4>1. InHands(s, p)' /\ local'[s] = local[s]
        BY <2>3, <3>1, OtherHandsStep, ZenonT(40)
           DEF Steps, Begins, Moves, Inserts, Adds, Copies, Removes, Posts, OthersStay
      <4> QED
        BY <2>3, <4>1, SMTT(30) DEF InTakenHand, Taken, Sends
    <3>2. CASE s = t /\ ~Posts(t)
      <4>1. SameCall(t) /\ Taken(t)' /\ (Moves(t) => local'[t].array = local[t].array)
        BY <2>3, <3>2 DEF Steps, Begins, Moves, Inserts, Adds, Copies, Removes, SameCall,
                          Sends, Prepares, UnderWay, Taken
      <4>2. InHands(t, p)'
        BY <2>3, <3>2, <4>1, OwnHandsStep
      <4> QED
        BY <4>1, <4>2 DEF InTakenHand
    <3>3. CASE s = t /\ Posts(t)
      BY <2>3, <3>3, InBodyStep
    <3> QED
      BY <3>1, <3>2, <3>3
  <2>4. InBody(p) => InBody(p)'
    BY InBodyStep
  <2>5. BeingPrepared(p) \/ Waits(p) \/ InTakenHand(p) \/ InBody(p)
    BY <1>2, <2>0 DEF LostInd, Kept
  <2> QED
    BY <2>1, <2>2, <2>3, <2>4, <2>5
       DEF BeingPrepared, Waits, InTakenHand, InDictionary, Prepares
<1> QED
  BY <1>1, <1>2

LEMMA RestsLostInd ==
  ASSUME LostInd, Rests
  PROVE  LostInd'
<1>1. UNCHANGED <<dictionary, arrays, local, sent, made, raced>>
  BY DEF Rests
<1>2. CallsMeet' /\ ArrayFound'
  BY <1>1 DEF LostInd, CallsMeet, PairOfItsCall, SendsMeet, PreparesMeet, ArrayFound, Sends,
              Prepares, UnderWay, Raced
<1>3. NothingReplaced' /\ AllTaken'
  BY <1>1 DEF LostInd, NothingReplaced, AllTaken, InDictionary, InHands, Holds, OldCall, Sends,
              Prepares
<1>4. Kept'
  BY <1>1 DEF LostInd, Kept, BeingPrepared, Waits, InTakenHand, Taken, InBody, InHands, Holds,
              OldCall, Sends
<1> QED
  BY <1>2, <1>3, <1>4 DEF LostInd

LEMMA InitLostInd == PreparedInit => LostInd
<1> SUFFICES ASSUME PreparedInit PROVE LostInd
  OBVIOUS
<1>1. \A t \in Threads : local[t].op = "none"
  BY InitIInv, Typed DEF PreparedInit
<1>2. made = <<>> /\ 1 .. Len(made) = {}
  BY DEF PreparedInit
<1> QED
  BY <1>1, <1>2 DEF LostInd, CallsMeet, PairOfItsCall, SendsMeet, PreparesMeet, ArrayFound,
                    NothingReplaced, AllTaken, Kept, Sends, Prepares, UnderWay

LEMMA NextLostInd == IInv /\ LostInd /\ [PreparedNext]_preparedVars => LostInd'
<1> SUFFICES ASSUME IInv, LostInd, [PreparedNext]_preparedVars PROVE LostInd'
  OBVIOUS
<1>1. IInv'
  BY NextIInv
<1>2. CASE Rests
  BY <1>2, RestsLostInd
<1>3. ASSUME NEW t \in Threads, Steps(t) PROVE LostInd'
  BY <1>1, <1>3, NextCallsMeet, NextArrayFound, NextNothingReplaced, NextAllTaken, NextKept
     DEF LostInd
<1> QED
  BY <1>2, <1>3, NextSteps

(* Every behaviour, of any number of threads and users: a prepared value is *)
(* being prepared, waits, is held by a call that sends or has been sent, or *)
(* the call that prepared it met another one halfway.                       *)
THEOREM OnlyRacesLose == PreparedSpec => []LostOnlyInARace
<1>1. PreparedInit => IInv /\ LostInd
  BY InitIInv, InitLostInd
<1>2. IInv /\ LostInd /\ [PreparedNext]_preparedVars => IInv' /\ LostInd'
  BY NextIInv, NextLostInd
<1>3. IInv /\ LostInd => LostOnlyInARace
  <2> SUFFICES ASSUME IInv, LostInd, NEW p \in DOMAIN made
               PROVE  BeingPrepared(p) \/ Waits(p) \/ InHand(p) \/ InBody(p) \/ OldCall(p)
    BY DEF LostOnlyInARace, OldCall
  <2>1. p \in 1 .. Len(made)
    <3>1. PICK S : S = [user : Users, call : Nat]
      OBVIOUS
    <3>2. made \in Seq(S)
      BY <3>1 DEF IInv, PreparedTypeOK
    <3> QED
      BY <3>2
  <2>2. InTakenHand(p) => InHand(p)
    BY DEF InTakenHand, InHand, Taken, InHands, Sends
  <2> QED
    BY <2>1, <2>2 DEF LostInd, Kept
<1> QED
  BY <1>1, <1>2, <1>3, PTL DEF PreparedSpec

-----------------------------------------------------------------------------
(* How often a pair is there: nowhere before its call adds it, and then     *)
(* once in an array.  A pair that was sent waits no more; a removed array   *)
(* is in the dictionary no more, and nor are its pairs.                     *)
NotYetAdded ==
  \A t \in Threads, p \in 1 .. Len(made) : Prepares(t) /\ local[t].pair = p =>
    /\ \A a \in 1 .. Len(arrays) : ~Holds(a, p)
    /\ ~InBody(p)
    /\ \A s \in Threads : s # t /\ Prepares(s) => local[s].pair # p

NoPairTwice ==
  \A a \in 1 .. Len(arrays) : \A m, n \in DOMAIN arrays[a] : arrays[a][m] = arrays[a][n] => m = n

SentIsGone ==
  \A u \in Users, p \in 1 .. Len(made) : InBody(p) => ~InDictionary(u, p)

HasRemoved(t) == Sends(t) /\ local[t].pc \in {"test", "testing", "body", "building"}

RemovedIsGone ==
  \A t \in Threads, u \in Users : HasRemoved(t) /\ local[t].array # NoArray =>
    /\ dictionary[u] # local[t].array
    /\ \A p \in 1 .. Len(made) : InHands(t, p) => ~InDictionary(u, p)

(* The pairs in the body i.                                                 *)
IsIn(i, p) == \E j \in DOMAIN sent[i].pairs : sent[i].pairs[j] = p

(* A pair that a call has although it was sent: the two calls met.          *)
HeldAndSent ==
  \A t \in Threads, i \in DOMAIN sent, p \in 1 .. Len(made) :
    InHands(t, p) /\ IsIn(i, p) /\ Sends(t) => Raced(t) /\ sent[i].call \in raced

TwiceInd ==
  NotYetAdded /\ NoPairTwice /\ SentIsGone /\ RemovedIsGone /\ HeldAndSent /\ TwiceOnlyInARace

LEMMA HeldStep ==
  ASSUME IInv, NEW t \in Threads, Steps(t), NEW a \in 1 .. Len(arrays'), NEW p, Holds(a, p)'
  PROVE  \/ \E b \in 1 .. Len(arrays) : Holds(b, p)
         \/ Adds(t) /\ p = local[t].pair
<1>0. Len(arrays) \in Nat
  BY Typed
<1>1. CASE Begins(t) \/ Moves(t) \/ Posts(t) \/ Removes(t)
  <2>1. arrays' = arrays
    BY <1>1 DEF Begins, Moves, Posts, Removes
  <2> QED
    BY <2>1 DEF Holds
<1>2. CASE Adds(t)
  <2>1. a \in 1 .. Len(arrays) /\ a \in 0 .. Len(arrays)
    BY <1>0, <1>2 DEF Adds
  <2> QED
    BY <1>2, <2>1, HeldGrown
<1>3. CASE Inserts(t)
  <2>1. a # Len(arrays) + 1
    BY <1>3 DEF Inserts, Holds
  <2>2. a \in 1 .. Len(arrays) /\ arrays'[a] = arrays[a]
    BY <1>0, <1>3, <2>1 DEF Inserts, ArraysKept
  <2> QED
    BY <2>2 DEF Holds
<1>4. CASE Copies(t)
  <2>1. CASE a = Len(arrays) + 1
    <3>1. local[t].array \in 1 .. Len(arrays) /\ arrays'[a] = arrays[local[t].array]
      BY <1>4, <2>1 DEF Copies
    <3>2. Holds(local[t].array, p)
      BY <1>0, <3>1 DEF Holds, NoArray
    <3> QED
      BY <3>1, <3>2
  <2>2. CASE a # Len(arrays) + 1
    <3>1. a \in 1 .. Len(arrays) /\ arrays'[a] = arrays[a]
      BY <1>0, <1>4, <2>2 DEF Copies, ArraysKept
    <3> QED
      BY <3>1 DEF Holds
  <2> QED
    BY <2>1, <2>2
<1> QED
  BY <1>1, <1>2, <1>3, <1>4 DEF Steps

LEMMA SentIsMade ==
  ASSUME IInv, NEW p, InBody(p)
  PROVE  p \in 1 .. Len(made)
<1>1. PICK S : S = [user : Users, pairs : Seq(Nat), call : Nat]
  OBVIOUS
<1>2. sent \in Seq(S)
  BY <1>1 DEF IInv, PreparedTypeOK
<1>3. PICK i \in DOMAIN sent : \E j \in DOMAIN sent[i].pairs : sent[i].pairs[j] = p
  BY DEF InBody
<1>4. i \in 1 .. Len(sent) /\ sent[i].pairs \in Seq(Nat)
  <2>1. i \in 1 .. Len(sent) /\ sent[i] \in S
    BY <1>2, <1>3
  <2> QED
    BY <1>1, <2>1
<1>5. PICK j \in 1 .. Len(sent[i].pairs) : sent[i].pairs[j] = p
  BY <1>3, <1>4
<1> QED
  BY <1>4, <1>5 DEF IInv, OwnedBy, BodiesOwned

LEMMA NextNotYetAdded ==
  ASSUME IInv, IInv', NotYetAdded, NEW t \in Threads, Steps(t)
  PROVE  NotYetAdded'
<1> SUFFICES ASSUME NEW s \in Threads, NEW p \in 1 .. Len(made'),
                    local'[s].op = "prepare", local'[s].pair = p
             PROVE  /\ \A a \in 1 .. Len(arrays') : ~Holds(a, p)'
                    /\ ~InBody(p)'
                    /\ \A r \in Threads : r # s /\ local'[r].op = "prepare" => local'[r].pair # p
  BY DEF NotYetAdded, Prepares
<1>1. ASSUME NEW r \in Threads, local'[r].op = "prepare", ~(r = t /\ Begins(t))
      PROVE  /\ Prepares(r) /\ local'[r].pair = local[r].pair /\ ~(r = t /\ Adds(t))
             /\ local[r].pair \in 1 .. Len(made)
  <2>1. Prepares(r) /\ local'[r].pair = local[r].pair /\ ~(r = t /\ Adds(t))
    BY <1>1, ZenonT(40) DEF Steps, Begins, Moves, Inserts, Adds, Copies, Removes, Posts, OthersStay,
                SameCall, Ends, Sends, Prepares
  <2> QED
    BY <2>1, SMTT(30) DEF IInv, OwnedBy, PairIsOfItsCall, Prepares
<1>2. CASE s = t /\ Begins(t)
  <2>1. p = Len(made) + 1 /\ p \notin 1 .. Len(made) /\ Len(arrays) \in Nat
    BY <1>2, Typed DEF Begins
  <2>2. \A a \in 1 .. Len(arrays') : ~Holds(a, p)'
    <3> SUFFICES ASSUME NEW a \in 1 .. Len(arrays'), Holds(a, p)' PROVE FALSE
      OBVIOUS
    <3>1. \E b \in 1 .. Len(arrays) : Holds(b, p)
      BY <1>2, HeldStep DEF Begins, Adds, UnderWay, Prepares
    <3>2. PICK b \in 0 .. Len(arrays) : Holds(b, p)
      BY <2>1, <3>1
    <3> QED
      BY <2>1, <3>2, HeldIsMade
  <2>3. ~InBody(p)'
    <3>1. ~Posts(t)
      BY <1>2 DEF Begins, Posts, UnderWay, Sends
    <3> QED
      BY <2>1, <3>1, InBodyStep, SentIsMade
  <2>4. \A r \in Threads : r # s /\ local'[r].op = "prepare" => local'[r].pair # p
    BY <1>1, <1>2, <2>1
  <2> QED
    BY <2>2, <2>3, <2>4
<1>3. CASE ~(s = t /\ Begins(t))
  <2>1. /\ Prepares(s) /\ local[s].pair = p /\ p \in 1 .. Len(made) /\ ~(s = t /\ Adds(t))
    BY <1>1, <1>3
  <2>2. /\ \A a \in 1 .. Len(arrays) : ~Holds(a, p)
        /\ ~InBody(p)
        /\ \A r \in Threads : r # s /\ Prepares(r) => local[r].pair # p
    BY <2>1 DEF NotYetAdded
  <2>3. ~(Adds(t) /\ local[t].pair = p)
    BY <2>1, <2>2 DEF Adds
  <2>4. \A a \in 1 .. Len(arrays') : ~Holds(a, p)'
    BY <2>2, <2>3, HeldStep
  <2>5. ~InBody(p)'
    <3>1. ~InHands(t, p)
      <4>1. Len(arrays) \in Nat /\ local[t].array \in 0 .. Len(arrays)
        BY Typed
      <4>2. InHands(t, p) => local[t].array # 0
        BY DEF InHands, Holds, NoArray
      <4>3. InHands(t, p) => local[t].array \in 1 .. Len(arrays)
        BY <4>1, <4>2
      <4> QED
        BY <2>2, <4>3 DEF InHands
    <3> QED
      BY <2>2, <3>1, InBodyStep
  <2>6. \A r \in Threads : r # s /\ local'[r].op = "prepare" => local'[r].pair # p
    <3> SUFFICES ASSUME NEW r \in Threads, r # s, local'[r].op = "prepare"
                 PROVE  local'[r].pair # p
      OBVIOUS
    <3>1. CASE r = t /\ Begins(t)
      <4>1. local'[r].pair = Len(made) + 1 /\ Len(made) \in Nat
        BY <3>1, Typed DEF Begins
      <4> QED
        BY <2>1, <4>1
    <3>2. CASE ~(r = t /\ Begins(t))
      BY <1>1, <2>2, <3>2
    <3> QED
      BY <3>1, <3>2
  <2> QED
    BY <2>4, <2>5, <2>6
<1> QED
  BY <1>2, <1>3

LEMMA NextNoPairTwice ==
  ASSUME IInv, NotYetAdded, NoPairTwice, NEW t \in Threads, Steps(t)
  PROVE  NoPairTwice'
<1>0. Len(arrays) \in Nat /\ arrays \in Seq(Seq(Nat))
  BY Typed DEF IInv, PreparedTypeOK
<1> SUFFICES ASSUME NEW a \in 1 .. Len(arrays'), NEW m \in DOMAIN arrays'[a],
                    NEW n \in DOMAIN arrays'[a], arrays'[a][m] = arrays'[a][n]
             PROVE  m = n
  BY DEF NoPairTwice
<1>1. ASSUME NEW b \in 1 .. Len(arrays), arrays'[a] = arrays[b] PROVE m = n
  BY <1>1 DEF NoPairTwice
<1>2. CASE Begins(t) \/ Moves(t) \/ Posts(t) \/ Removes(t)
  BY <1>1, <1>2 DEF Begins, Moves, Posts, Removes
<1>3. CASE Inserts(t)
  <2>1. CASE a = Len(arrays) + 1
    <3>1. DOMAIN arrays'[a] = {}
      BY <1>3, <2>1 DEF Inserts
    <3> QED
      BY <3>1
  <2>2. CASE a # Len(arrays) + 1
    <3>1. a \in 1 .. Len(arrays) /\ arrays'[a] = arrays[a]
      BY <1>0, <1>3, <2>2 DEF Inserts, ArraysKept
    <3> QED
      BY <1>1, <3>1
  <2> QED
    BY <2>1, <2>2
<1>4. CASE Copies(t)
  <2>1. CASE a = Len(arrays) + 1
    BY <1>1, <1>4, <2>1 DEF Copies
  <2>2. CASE a # Len(arrays) + 1
    <3>1. a \in 1 .. Len(arrays) /\ arrays'[a] = arrays[a]
      BY <1>0, <1>4, <2>2 DEF Copies, ArraysKept
    <3> QED
      BY <1>1, <3>1
  <2> QED
    BY <2>1, <2>2
<1>5. CASE Adds(t)
  <2>1. CASE a # local[t].array
    BY <1>1, <1>5, <2>1 DEF Adds
  <2>2. CASE a = local[t].array
    <3>1. PICK old : old = arrays[a]
      OBVIOUS
    <3>2. PICK e : e = local[t].pair
      OBVIOUS
    <3>3. a \in 1 .. Len(arrays) /\ a # NoArray
      BY <1>0, <1>5, <2>2 DEF Adds, NoArray
    <3>4. old \in Seq(Nat) /\ e \in Nat /\ arrays'[a] = Append(old, e)
      BY <1>0, <1>5, <2>2, <3>1, <3>2, <3>3, Typed DEF Adds
    <3>5. ~Holds(a, e)
      BY <1>5, <3>2, <3>3 DEF Adds, NotYetAdded, IInv, OwnedBy, PairIsOfItsCall, Prepares
    <3>6. \A i \in DOMAIN old : old[i] # e
      BY <3>1, <3>3, <3>5 DEF Holds
    <3>7. \A i, j \in DOMAIN old : old[i] = old[j] => i = j
      BY <3>1, <3>3 DEF NoPairTwice
    <3>8. DOMAIN old = 1 .. Len(old) /\ DOMAIN Append(old, e) = 1 .. Len(old) + 1
          /\ Len(old) \in Nat
          /\ Append(old, e)[Len(old) + 1] = e /\ \A i \in 1 .. Len(old) : Append(old, e)[i] = old[i]
      BY <3>4
    <3>9. m \in 1 .. Len(old) + 1 /\ n \in 1 .. Len(old) + 1
          /\ Append(old, e)[m] = Append(old, e)[n]
      BY <3>4, <3>8
    <3> QED
      BY <3>6, <3>7, <3>8, <3>9
  <2> QED
    BY <2>1, <2>2
<1> QED
  BY <1>2, <1>3, <1>4, <1>5 DEF Steps

LEMMA NextSentIsGone ==
  ASSUME IInv, IInv', NotYetAdded, SentIsGone, RemovedIsGone, NEW t \in Threads, Steps(t)
  PROVE  SentIsGone'
<1> SUFFICES ASSUME NEW u \in Users, NEW p, InBody(p)', InDictionary(u, p)'
             PROVE  FALSE
  BY DEF SentIsGone
<1>1. CASE InDictionary(u, p)
  <2>1. p \in 1 .. Len(made)
    BY <1>1, DictionaryStep
  <2>2. ~InBody(p)
    BY <1>1, <2>1 DEF SentIsGone
  <2>3. Posts(t) /\ InHands(t, p)
    BY <2>2, InBodyStep
  <2>4. HasRemoved(t) /\ local[t].array # NoArray
    BY <2>3 DEF Posts, HasRemoved, InHands, Holds
  <2> QED
    BY <1>1, <2>1, <2>3, <2>4 DEF RemovedIsGone
<1>2. CASE ~InDictionary(u, p)
  <2>1. Adds(t) /\ p = local[t].pair
    BY <1>2, DictionaryStep
  <2>2. ~InBody(p)
    BY <2>1 DEF Adds, NotYetAdded, IInv, OwnedBy, PairIsOfItsCall, Prepares
  <2>3. ~Posts(t)
    BY <2>1 DEF Adds, Posts, Prepares, Sends
  <2> QED
    BY <2>2, <2>3, InBodyStep
<1> QED
  BY <1>1, <1>2

LEMMA NextRemovedIsGone ==
  ASSUME IInv, NotYetAdded, RemovedIsGone, NEW t \in Threads, Steps(t)
  PROVE  RemovedIsGone'
<1> SUFFICES ASSUME NEW s \in Threads, NEW u \in Users, HasRemoved(s)',
                    local'[s].array # NoArray
             PROVE  /\ dictionary'[u] # local'[s].array
                    /\ \A p \in 1 .. Len(made') : InHands(s, p)' => ~InDictionary(u, p)'
  BY DEF RemovedIsGone
<1>0. Len(arrays) \in Nat /\ local[s].array \in 0 .. Len(arrays) /\ local[s].user \in Users
      /\ dictionary[u] \in 0 .. Len(arrays) /\ local[t].array \in 0 .. Len(arrays)
  BY Typed DEF IInv, PreparedTypeOK
<1>1. /\ local'[s].array = local[s].array
      /\ HasRemoved(s) \/ (s = t /\ Removes(t))
  BY DEF Steps, Begins, Moves, Inserts, Adds, Copies, Removes, Posts, OthersStay, SameCall, Ends,
         Sends, Prepares, HasRemoved
<1>2. CASE s = t /\ Removes(t)
  <2>1. dictionary'[u] # local'[s].array
    <3>1. CASE u = local[t].user
      BY <1>2, <3>1 DEF Removes
    <3>2. CASE u # local[t].user
      BY <1>1, <1>2, <3>2, UsersOfArrays DEF Removes
    <3> QED
      BY <3>1, <3>2
  <2>2. ASSUME NEW p, InHands(s, p)', InDictionary(u, p)' PROVE FALSE
    <3>1. InHands(t, p) /\ ~Adds(t)
      BY <1>2, <2>2, OwnHandsStep DEF Removes, Moves, Adds, SameCall, Sends, Prepares
    <3>2. InDictionary(u, p) /\ p \in 1 .. Len(made) /\ u # local[t].user
      <4>1. InDictionary(u, p)
        BY <2>2, <3>1, DictionaryStep
      <4>2. u # local[t].user
        BY <1>2, <2>2 DEF Removes, InDictionary, Holds
      <4> QED
        BY <4>1, <4>2, DictionaryStep
    <3>3. made[p].user = local[t].user /\ made[p].user = u
      BY <3>1, <3>2, UsersOfArrays DEF InHands, InDictionary
    <3> QED
      BY <3>2, <3>3
  <2> QED
    BY <2>1, <2>2
<1>3. CASE HasRemoved(s)
  <2>1. /\ dictionary[u] # local[s].array
        /\ \A p \in 1 .. Len(made) : InHands(s, p) => ~InDictionary(u, p)
    BY <1>1, <1>3 DEF RemovedIsGone
  <2>2. dictionary'[u] # local[s].array
    <3>1. dictionary'[u] \in {dictionary[u], NoArray, Len(arrays) + 1}
      BY DEF Steps, Begins, Moves, Inserts, Adds, Copies, Removes, Posts
    <3> QED
      BY <1>0, <1>1, <2>1, <3>1 DEF NoArray
  <2>3. ASSUME NEW p, InHands(s, p)', InDictionary(u, p)' PROVE FALSE
    <3>0. InHands(s, p) => p \in 1 .. Len(made)
      BY <1>0, HeldIsMade DEF InHands
    <3>1. CASE Adds(t) /\ p = local[t].pair
      <4>1. p \in 1 .. Len(made) /\ \A a \in 1 .. Len(arrays) : ~Holds(a, p)
        BY <3>1 DEF Adds, NotYetAdded, IInv, OwnedBy, PairIsOfItsCall, Prepares
      <4>2. \A a \in 0 .. Len(arrays) : ~Holds(a, p)
        BY <1>0, <4>1 DEF Holds, NoArray
      <4>3. ~InHands(s, p) /\ ~InDictionary(u, p)
        BY <1>0, <4>2 DEF InHands, InDictionary
      <4>4. s # t
        BY <1>3, <3>1 DEF Adds, HasRemoved, Prepares, Sends
      <4>5. local[s].array = local[t].array /\ dictionary[u] = local[t].array
        BY <2>3, <4>3, <4>4, OtherHandsStep, DictionaryStep
      <4> QED
        BY <2>1, <4>5
    <3>2. CASE ~(Adds(t) /\ p = local[t].pair)
      <4>1. InDictionary(u, p)
        BY <2>3, <3>2, DictionaryStep
      <4>2. InHands(s, p)
        <5>1. CASE s # t
          BY <2>3, <3>2, <5>1, OtherHandsStep
        <5>2. CASE s = t
          <6>1. SameCall(t)
            BY <2>3, <5>2, OwnHandsStep
          <6> QED
            BY <1>1, <2>3, <5>2, <6>1, OwnHandsStep
        <5> QED
          BY <5>1, <5>2
      <4> QED
        BY <2>1, <3>0, <4>1, <4>2
    <3> QED
      BY <3>1, <3>2
  <2> QED
    BY <1>1, <2>2, <2>3
<1> QED
  BY <1>1, <1>2, <1>3

LEMMA NextHeldAndSent ==
  ASSUME IInv, IInv', SendsMeet, NotYetAdded, SentIsGone, HeldAndSent,
         NEW t \in Threads, Steps(t)
  PROVE  HeldAndSent'
<1> SUFFICES ASSUME NEW s \in Threads, NEW i \in DOMAIN sent', NEW p,
                    InHands(s, p)', IsIn(i, p)', local'[s].op = "send"
             PROVE  local'[s].call \in raced' /\ sent'[i].call \in raced'
  BY SMTT(30) DEF HeldAndSent, Sends, Raced
<1>1. /\ s # t => local'[s] = local[s]
      /\ s = t => SameCall(t)
  BY OwnHandsStep, ZenonT(40) DEF Steps, Begins, Moves, Inserts, Adds, Copies, Removes, Posts, OthersStay
<1>2. Sends(s) /\ local'[s].call = local[s].call
  BY <1>1 DEF SameCall, Sends
<1>3. CASE i \in DOMAIN sent
  <2>1. sent'[i] = sent[i]
    BY <1>3, BodiesStep
  <2>2. IsIn(i, p)
    BY <2>1 DEF IsIn
  <2>3. InBody(p) /\ p \in 1 .. Len(made)
    <3>1. InBody(p)
      BY <1>3, <2>2 DEF InBody, IsIn
    <3> QED
      BY <3>1, SentIsMade
  <2>4. InHands(s, p)
    <3>1. CASE s # t
      <4>1. ~(Adds(t) /\ p = local[t].pair)
        BY <2>3 DEF Adds, NotYetAdded
      <4> QED
        BY <3>1, <4>1, OtherHandsStep
    <3>2. CASE s = t
      <4>1. ~InDictionary(local[t].user, p)
        BY <2>3, Typed DEF SentIsGone
      <4>2. Moves(t) => \/ local'[t].array = local[t].array
                        \/ local'[t].array = dictionary[local[t].user]
        BY <1>1, <3>2 DEF Moves, SameCall, Ends, Sends
      <4> QED
        BY <1>1, <3>2, <4>1, <4>2, OwnHandsStep
    <3> QED
      BY <3>1, <3>2
  <2>5. Raced(s) /\ sent[i].call \in raced
    BY <1>2, <1>3, <2>2, <2>3, <2>4 DEF HeldAndSent
  <2> QED
    BY <1>2, <2>1, <2>5, RacedStep DEF Raced
<1>4. CASE i \notin DOMAIN sent
  <2>1. Posts(t) /\ sent'[i].call = local[t].call /\ sent'[i].pairs = PairsOf(t)
    BY <1>4, BodiesStep
  <2>2. InHands(t, p)
    BY <2>1, HandsAndPairs DEF IsIn
  <2>3. s # t /\ ~Adds(t)
    BY <1>1, <2>1 DEF Posts, Ends, SameCall, Adds, Sends, Prepares
  <2>4. InHands(s, p)
    BY <2>3, OtherHandsStep
  <2>5. p \in 1 .. Len(made)
    BY <2>2, HeldIsMade, Typed DEF InHands
  <2>6. local[s].user = local[t].user
    BY <2>2, <2>4, <2>5, UsersOfArrays DEF InHands
  <2>7. Raced(s) /\ Raced(t)
    BY <1>2, <2>1, <2>3, <2>6 DEF SendsMeet, Posts, Sends, UnderWay
  <2> QED
    BY <1>2, <2>1, <2>7, RacedStep DEF Raced
<1> QED
  BY <1>3, <1>4

LEMMA NextTwice ==
  ASSUME IInv, IInv', NoPairTwice, HeldAndSent, TwiceOnlyInARace, NEW t \in Threads, Steps(t)
  PROVE  TwiceOnlyInARace'
<1> SUFFICES ASSUME NEW i \in DOMAIN sent', NEW j \in DOMAIN sent',
                    NEW m \in DOMAIN sent'[i].pairs, NEW n \in DOMAIN sent'[j].pairs,
                    sent'[i].pairs[m] = sent'[j].pairs[n]
             PROVE  \/ i = j /\ m = n
                    \/ i # j /\ {sent'[i].call, sent'[j].call} \subseteq raced'
  BY DEF TwiceOnlyInARace
<1>1. CASE i \in DOMAIN sent /\ j \in DOMAIN sent
  <2>1. sent'[i] = sent[i] /\ sent'[j] = sent[j]
    BY <1>1, BodiesStep
  <2> QED
    BY <1>1, <2>1, RacedStep DEF TwiceOnlyInARace
<1>2. ASSUME NEW k \in DOMAIN sent', NEW l \in DOMAIN sent, k \notin DOMAIN sent,
             NEW x \in DOMAIN sent'[k].pairs, NEW y \in DOMAIN sent'[l].pairs,
             sent'[k].pairs[x] = sent'[l].pairs[y]
      PROVE  k # l /\ sent'[k].call \in raced' /\ sent'[l].call \in raced'
  <2>1. PICK p : p = sent'[k].pairs[x]
    OBVIOUS
  <2>2. Posts(t) /\ sent'[k].call = local[t].call /\ sent'[k].pairs = PairsOf(t)
    BY <1>2, BodiesStep
  <2>3. InHands(t, p)
    BY <1>2, <2>1, <2>2, HandsAndPairs
  <2>4. sent'[l] = sent[l]
    BY BodiesStep
  <2>5. IsIn(l, p)
    BY <1>2, <2>1, <2>4 DEF IsIn
  <2>6. p \in 1 .. Len(made)
    BY <2>3, HeldIsMade, Typed DEF InHands
  <2>7. Raced(t) /\ sent[l].call \in raced
    BY <2>2, <2>3, <2>5, <2>6 DEF HeldAndSent, Posts
  <2> QED
    BY <1>2, <2>2, <2>4, <2>7, RacedStep DEF Raced
<1>3. CASE i \notin DOMAIN sent /\ j \notin DOMAIN sent
  <2>1. i = j /\ Posts(t) /\ sent'[i].pairs = PairsOf(t)
    BY <1>3, BodiesStep
  <2>2. CASE local[t].array = NoArray
    <3>1. DOMAIN sent'[i].pairs = {}
      BY <2>1, <2>2 DEF PairsOf
    <3> QED
      BY <3>1
  <2>3. CASE local[t].array # NoArray
    <3>1. PICK a \in 1 .. Len(arrays) : a = local[t].array
      BY <2>3, Typed DEF NoArray
    <3>2. sent'[i].pairs = arrays[a]
      BY <2>1, <2>3, <3>1 DEF PairsOf
    <3> QED
      BY <2>1, <3>2 DEF NoPairTwice
  <2> QED
    BY <2>2, <2>3
<1> QED
  BY <1>1, <1>2, <1>3

LEMMA InitTwiceInd == PreparedInit => TwiceInd
<1> SUFFICES ASSUME PreparedInit PROVE TwiceInd
  OBVIOUS
<1>1. \A t \in Threads : local[t].op = "none"
  BY InitIInv, Typed DEF PreparedInit
<1>2. made = <<>> /\ 1 .. Len(made) = {} /\ 1 .. Len(arrays) = {} /\ DOMAIN sent = {}
  BY DEF PreparedInit
<1> QED
  BY <1>1, <1>2 DEF TwiceInd, NotYetAdded, NoPairTwice, SentIsGone, RemovedIsGone, HeldAndSent,
                    TwiceOnlyInARace, HasRemoved, Sends

LEMMA RestsTwiceInd ==
  ASSUME TwiceInd, Rests
  PROVE  TwiceInd'
<1>1. UNCHANGED <<dictionary, arrays, local, sent, made, raced>>
  BY DEF Rests
<1>2. NotYetAdded' /\ NoPairTwice'
  BY <1>1 DEF TwiceInd, NotYetAdded, NoPairTwice, Holds, InBody, Prepares
<1>3. SentIsGone' /\ RemovedIsGone'
  BY <1>1 DEF TwiceInd, SentIsGone, RemovedIsGone, HasRemoved, InBody, InDictionary, InHands, Holds,
              Sends
<1>4. HeldAndSent' /\ TwiceOnlyInARace'
  BY <1>1 DEF TwiceInd, HeldAndSent, TwiceOnlyInARace, IsIn, InHands, Holds, Sends, Raced
<1> QED
  BY <1>2, <1>3, <1>4 DEF TwiceInd

(* Every behaviour, of any number of threads and users: a value leaves      *)
(* twice only in two bodies, whose calls met each other.                    *)
THEOREM OnlyRacesRepeat == PreparedSpec => []TwiceOnlyInARace
<1>1. PreparedInit => IInv /\ LostInd /\ TwiceInd
  BY InitIInv, InitLostInd, InitTwiceInd
<1>2. IInv /\ LostInd /\ TwiceInd /\ [PreparedNext]_preparedVars => IInv' /\ LostInd' /\ TwiceInd'
  <2> SUFFICES ASSUME IInv, LostInd, TwiceInd, [PreparedNext]_preparedVars
               PROVE  IInv' /\ LostInd' /\ TwiceInd'
    OBVIOUS
  <2>1. IInv' /\ LostInd'
    BY NextIInv, NextLostInd
  <2>2. CASE Rests
    BY <2>1, <2>2, RestsTwiceInd
  <2>3. ASSUME NEW t \in Threads, Steps(t) PROVE TwiceInd'
    BY <2>1, <2>3, NextNotYetAdded, NextNoPairTwice, NextSentIsGone, NextRemovedIsGone,
       NextHeldAndSent, NextTwice DEF TwiceInd, LostInd, CallsMeet
  <2> QED
    BY <2>1, <2>2, <2>3, NextSteps
<1>3. TwiceInd => TwiceOnlyInARace
  BY DEF TwiceInd
<1> QED
  BY <1>1, <1>2, <1>3, PTL DEF PreparedSpec

-----------------------------------------------------------------------------
(* What a request of a post holds no one else can name; what one of an      *)
(* increment holds may grow, by a prepare that met it.                      *)
PrivateCopies ==
  kind = "post" => \A t \in Threads : Taken(t) =>
    /\ local[t].array # NoArray
    /\ \A u \in Users : dictionary[u] # local[t].array
    /\ \A s \in Threads : s # t => local[s].array # local[t].array

GrownIsRaced ==
  \A t \in Threads : Sends(t) /\ local[t].pc \in {"testing", "building"} /\ Grown(t) =>
    kind = "increment" /\ Raced(t)

RaisesInd == PrivateCopies /\ GrownIsRaced /\ RaisesOnlySharedAndRaced

LEMMA NextPrivateCopies ==
  ASSUME IInv, PrivateCopies, NEW t \in Threads, Steps(t)
  PROVE  PrivateCopies'
<1> SUFFICES ASSUME kind = "post", NEW s \in Threads, Taken(s)'
             PROVE  /\ local'[s].array # NoArray
                    /\ \A u \in Users : dictionary'[u] # local'[s].array
                    /\ \A r \in Threads : r # s => local'[r].array # local'[s].array
  <2>1. kind' = kind
    BY DEF Steps, Begins, Moves, Inserts, Adds, Copies, Removes, Posts
  <2> QED
    BY <2>1 DEF PrivateCopies
<1>0. /\ Len(arrays) \in Nat /\ local[s].user \in Users /\ local[t].user \in Users
      /\ \A r \in Threads : local[r].array \in 0 .. Len(arrays)
      /\ \A u \in Users : dictionary[u] \in 0 .. Len(arrays)
  BY Typed DEF IInv, PreparedTypeOK
<1>1. \A r \in Threads : r # t => local'[r] = local[r]
  BY DEF Steps, Begins, Moves, Inserts, Adds, Copies, Removes, Posts, OthersStay
<1>2. CASE s = t /\ Copies(t)
  <2>1. local'[s].array = Len(arrays) + 1 /\ dictionary' = dictionary
    BY <1>2 DEF Copies
  <2> QED
    BY <1>0, <1>1, <1>2, <2>1 DEF NoArray
<1>3. CASE ~(s = t /\ Copies(t))
  <2>1. Taken(s) /\ local'[s].array = local[s].array
    BY <1>1, <1>3 DEF Steps, Begins, Moves, Inserts, Adds, Copies, Removes, Posts, SameCall, Ends,
                      Sends, Prepares, Taken
  <2>2. /\ local[s].array # NoArray
        /\ \A u \in Users : dictionary[u] # local[s].array
        /\ \A r \in Threads : r # s => local[r].array # local[s].array
    BY <2>1 DEF PrivateCopies
  <2>3. \A u \in Users : dictionary'[u] \in {dictionary[u], NoArray, Len(arrays) + 1}
    BY DEF Steps, Begins, Moves, Inserts, Adds, Copies, Removes, Posts
  <2>4. local'[t].array \in {local[t].array, NoArray, dictionary[local[t].user], Len(arrays) + 1}
    BY DEF Steps, Begins, Moves, Inserts, Adds, Copies, Removes, Posts, Ends
  <2>5. \A u \in Users : dictionary'[u] # local[s].array
    BY <1>0, <2>2, <2>3
  <2>6. \A r \in Threads : r # s => local'[r].array # local[s].array
    BY <1>0, <1>1, <2>2, <2>4
  <2> QED
    BY <2>1, <2>2, <2>5, <2>6
<1> QED
  BY <1>2, <1>3

LEMMA NextGrownIsRaced ==
  ASSUME IInv, SendsMeet, PrivateCopies, GrownIsRaced, NEW t \in Threads, Steps(t)
  PROVE  GrownIsRaced'
<1> SUFFICES ASSUME NEW s \in Threads, local'[s].op = "send",
                    local'[s].pc \in {"testing", "building"}, Grown(s)'
             PROVE  kind' = "increment" /\ local'[s].call \in raced'
  BY DEF GrownIsRaced, Sends, Raced
<1>0. Len(arrays) \in Nat /\ local[s].array \in 0 .. Len(arrays)
  BY Typed
<1>1. kind' = kind
  BY DEF Steps, Begins, Moves, Inserts, Adds, Copies, Removes, Posts
<1>2. s # t
  <2> SUFFICES ASSUME s = t PROVE FALSE
    OBVIOUS
  <2>1. arrays' = arrays /\ local'[t].array = local[t].array /\ local'[t].count = Len(PairsOf(t))
    BY DEF Steps, Begins, Moves, Inserts, Adds, Copies, Removes, Posts, SameCall, Ends, Sends,
           Prepares
  <2> QED
    BY <2>1 DEF Grown, PairsOf
<1>3. local'[s] = local[s]
  BY <1>2 DEF Steps, Begins, Moves, Inserts, Adds, Copies, Removes, Posts, OthersStay
<1>4. CASE Adds(t) /\ local[t].array # NoArray /\ local[s].array = local[t].array
  <2>1. Taken(s)
    BY <1>3 DEF Taken, Sends
  <2>2. kind # "post"
    BY <1>2, <1>4, <2>1 DEF PrivateCopies
  <2>3. local[s].user = local[t].user
    BY <1>4, UsersOfArrays
  <2>4. Raced(s)
    BY <1>2, <1>3, <1>4, <2>3 DEF SendsMeet, Adds, Sends, Prepares, UnderWay
  <2> QED
    BY <1>1, <1>3, <2>2, <2>4, RacedStep DEF Raced, IInv, PreparedTypeOK
<1>5. CASE ~(Adds(t) /\ local[t].array # NoArray /\ local[s].array = local[t].array)
  <2>1. local[s].array # NoArray => arrays'[local[s].array] = arrays[local[s].array]
    BY <1>0, <1>5 DEF Steps, Begins, Moves, Inserts, Adds, Copies, Removes, Posts, ArraysKept, NoArray
  <2>2. Grown(s)
    BY <1>3, <2>1 DEF Grown, PairsOf
  <2>3. kind = "increment" /\ Raced(s)
    BY <1>3, <2>2 DEF GrownIsRaced, Sends
  <2> QED
    BY <1>1, <1>3, <2>3, RacedStep DEF Raced
<1> QED
  BY <1>4, <1>5

LEMMA NextRaisesInd ==
  ASSUME IInv, LostInd, RaisesInd, [PreparedNext]_preparedVars
  PROVE  RaisesInd'
<1>1. CASE Rests
  <2>1. UNCHANGED <<kind, dictionary, arrays, local, raced>>
    BY <1>1 DEF Rests
  <2>2. PrivateCopies' /\ GrownIsRaced'
    BY <2>1 DEF RaisesInd, PrivateCopies, GrownIsRaced, Taken, Sends, Grown, PairsOf, Raced
  <2>3. RaisesOnlySharedAndRaced'
    <3> SUFFICES ASSUME raised'
                 PROVE  kind = "increment" /\ \E t \in Threads : Grown(t) /\ local[t].call \in raced
      BY <2>1 DEF RaisesOnlySharedAndRaced, Grown, PairsOf
    <3>1. CASE raised
      BY <3>1 DEF RaisesInd, RaisesOnlySharedAndRaced
    <3>2. CASE ~raised
      <4>1. PICK t \in Threads : Sends(t) /\ local[t].pc \in {"testing", "building"} /\ Grown(t)
        BY <1>1, <3>2 DEF Rests
      <4> QED
        BY <4>1 DEF RaisesInd, GrownIsRaced, Raced
    <3> QED
      BY <3>1, <3>2
  <2> QED
    BY <2>2, <2>3 DEF RaisesInd
<1>2. ASSUME NEW t \in Threads, Steps(t) PROVE RaisesInd'
  <2>1. PrivateCopies' /\ GrownIsRaced'
    BY <1>2, NextPrivateCopies, NextGrownIsRaced DEF RaisesInd, LostInd, CallsMeet
  <2>2. ~raised'
    BY <1>2 DEF Steps, Begins, Moves, Inserts, Adds, Copies, Removes, Posts
  <2> QED
    BY <2>1, <2>2 DEF RaisesInd, RaisesOnlySharedAndRaced
<1> QED
  BY <1>1, <1>2, NextSteps

(* Every behaviour, of any number of threads and users: building the body   *)
(* of a post never finds its array changed, and that of an increment only   *)
(* when a prepare met the call.                                             *)
THEOREM OnlyRacesRaise == PreparedSpec => []RaisesOnlySharedAndRaced
<1>1. PreparedInit => IInv /\ LostInd /\ RaisesInd
  <2>1. PreparedInit => IInv /\ LostInd
    BY InitIInv, InitLostInd
  <2>2. PreparedInit => RaisesInd
    <3> SUFFICES ASSUME PreparedInit PROVE RaisesInd
      OBVIOUS
    <3>1. \A t \in Threads : local[t].op = "none"
      BY InitIInv, Typed DEF PreparedInit
    <3>2. ~raised
      BY DEF PreparedInit
    <3> QED
      BY <3>1, <3>2 DEF RaisesInd, PrivateCopies, GrownIsRaced, RaisesOnlySharedAndRaced, Taken,
                        Sends
  <2> QED
    BY <2>1, <2>2
<1>2. IInv /\ LostInd /\ RaisesInd /\ [PreparedNext]_preparedVars => IInv' /\ LostInd' /\ RaisesInd'
  BY NextIInv, NextLostInd, NextRaisesInd
<1>3. RaisesInd => RaisesOnlySharedAndRaced
  BY DEF RaisesInd
<1> QED
  BY <1>1, <1>2, <1>3, PTL DEF PreparedSpec

-----------------------------------------------------------------------------
(* What the value calls promise, where calls do not meet: the abstract      *)
(* outbox keeps its promises, for any values, groups and batches.           *)
OutboxInd == TypeOK /\ OnePlace /\ VerdictsTrue

LEMMA OutboxInitInd == Init => OutboxInd
BY DEF Init, OutboxInd, TypeOK, OnePlace, VerdictsTrue, Fates, Verdicts

LEMMA PrepareInd ==
  ASSUME OutboxInd, NEW v \in Values, NEW g \in Groups, Prepare(v, g)
  PROVE  OutboxInd'
<1> USE DEF OutboxInd, Prepare
<1>1. TypeOK'
  BY DEF TypeOK
<1>2. OnePlace'
  BY DEF TypeOK, OnePlace
<1>3. VerdictsTrue'
  BY DEF VerdictsTrue
<1> QED
  BY <1>1, <1>2, <1>3

LEMMA SendInd ==
  ASSUME OutboxInd, NEW g \in Groups, NEW b \in Batches, Send(g, b)
  PROVE  OutboxInd'
<1> USE DEF OutboxInd, Send, HeldAfter
<1>1. TypeOK'
  BY DEF TypeOK
<1>2. OnePlace'
  BY DEF TypeOK, OnePlace
<1>3. VerdictsTrue'
  BY DEF VerdictsTrue
<1> QED
  BY <1>1, <1>2, <1>3

(* The server decides on open batches only, so no verdict becomes false.    *)
LEMMA DecideInd ==
  ASSUME OutboxInd, NEW b \in Batches, NEW f \in {"applied", "refused"}, Decide(b, f)
  PROVE  OutboxInd'
<1> USE DEF OutboxInd, Decide, Open
<1>1. TypeOK'
  BY DEF TypeOK, Fates
<1>2. OnePlace'
  BY DEF OnePlace
<1>3. VerdictsTrue'
  BY DEF TypeOK, VerdictsTrue
<1> QED
  BY <1>1, <1>2, <1>3

LEMMA TellInd ==
  ASSUME OutboxInd, NEW b \in Batches, NEW verdict \in Truths(b), Tell(b, verdict)
  PROVE  OutboxInd'
<1> USE DEF OutboxInd, Tell, Truths
<1>1. TypeOK'
  BY DEF TypeOK, Fates, Verdicts
<1>2. OnePlace'
  BY DEF OnePlace
<1>3. VerdictsTrue'
  BY DEF TypeOK, VerdictsTrue
<1> QED
  BY <1>1, <1>2, <1>3

LEMMA LoseInd == ASSUME OutboxInd, Lose PROVE OutboxInd'
<1> USE DEF OutboxInd, Lose
<1>1. TypeOK'
  BY DEF TypeOK
<1>2. OnePlace'
  BY DEF OnePlace
<1>3. VerdictsTrue'
  BY DEF VerdictsTrue
<1> QED
  BY <1>1, <1>2, <1>3

(* A value of the outbox is in one place, and no verdict that the           *)
(* application heard is false: what the value calls promise holds, and with *)
(* it whatever implements the outbox (BadgeKeeper.m:116-206, 258-273).      *)
THEOREM OutboxSafe == Spec => [](TypeOK /\ OnePlace /\ VerdictsTrue)
<1>1. OutboxInd /\ [Next]_outboxVars => OutboxInd'
  <2> SUFFICES ASSUME OutboxInd, [Next]_outboxVars PROVE OutboxInd'
    OBVIOUS
  <2>1. CASE Next
    BY <2>1, PrepareInd, SendInd, DecideInd, TellInd, LoseInd DEF Next
  <2>2. CASE UNCHANGED outboxVars
    BY <2>2 DEF outboxVars, OutboxInd, TypeOK, OnePlace, VerdictsTrue
  <2> QED
    BY <2>1, <2>2
<1>2. Spec => []OutboxInd
  BY <1>1, OutboxInitInd, PTL DEF Spec
<1> QED
  BY <1>2, PTL DEF OutboxInd

=============================================================================
