----------------------------- MODULE BKRequests -----------------------------
(***************************************************************************)
(* The request packets: the path each one is sent to and the JSON body of  *)
(* the requests that carry values, which is written by hand, pair by pair. *)
(*                                                                         *)
(* Text is a sequence of tokens, and nothing is escaped: %@ puts a key and  *)
(* a value into the body as they print, so a key may hold the quotes, braces*)
(* and commas of a node itself.  A path is the sequence of its segments;    *)
(* an ID is put into it as it prints, so an ID that holds a slash is more   *)
(* than one segment.                                                        *)
(***************************************************************************)
EXTENDS Naturals, Sequences, SequencesExt

CONSTANTS
  Texts,      (* what a JSON string may hold without an escape            *)
  Keys,       (* keys of pairs, as they print                             *)
  Values,     (* values of pairs                                          *)
  FiniteOnes, (* the values that print as a JSON number                   *)
  Segments,   (* texts without a slash                                    *)
  ProjectIds, (* project IDs, as they print                               *)
  UserIds,    (* user IDs, as they print                                  *)
  NilId,      (* nil, for an ID that is not set                           *)
  MaxPairs    (* bound: how many pairs a request carries                  *)

(* Tokens of a body.  NodeBegin, Between and NodeEnd are what the format of *)
(* a node has around the key and the value; the rest of the signs need an   *)
(* escape in a string.                                                      *)
Token(type, of) == [type |-> type, of |-> of]
Sign(s) == Token("sign", s)
Text(t) == Token("text", t)
Numeral(v) == Token("number", v)

Opening == Sign("[")
Separator == Sign(",")
Closing == Sign("]")
NodeBegin == Sign("{Key:")
Between == Sign("Value:")
NodeEnd == Sign("}")

Signs == {"[", ",", "]", "{Key:", "Value:", "}", "quote", "backslash", "control"}
Tokens ==
  [type : {"sign"}, of : Signs] \cup [type : {"text"}, of : Texts \cup Values]
    \cup [type : {"number"}, of : FiniteOnes]

PlainKeys == {<<Text(t)>> : t \in Texts}

ASSUME RequestsAssumption ==
  /\ Keys \subseteq Seq(Tokens)
  /\ FiniteOnes \subseteq Values
  /\ ProjectIds \cup UserIds \subseteq Seq(Segments) \ {<<>>}
  /\ NilId \notin ProjectIds \cup UserIds
  /\ "(null)" \in Segments
  /\ MaxPairs \in Nat

VARIABLES
  request, (* the packet, without its pairs                               *)
  pairs,   (* request.pairs                                               *)
  object,  (* what each BKPair object holds                               *)
  next,    (* the place in request.pairs the loop has come to             *)
  body     (* the tokens written so far                                   *)

requestVars == <<request, pairs, object, next, body>>

Kinds == {"post", "increment"}
Queries == {"getProject", "getUser"}
Pairs == 1 .. MaxPairs

(* prepareValue: makes a new BKPair for every call, so the objects of a     *)
(* request differ, also where key and value are the same.                   *)
Distinct(s) == \A i, j \in DOMAIN s : s[i] = s[j] => i = j
PairLists == {s \in UNION {[1 .. n -> Pairs] : n \in 0 .. MaxPairs} : Distinct(s)}

(* A request for values has a user; the query for a user's achievements may  *)
(* be made without one, and the project's has none.                         *)
Requests ==
  [kind : Kinds, project : ProjectIds \cup {NilId}, user : UserIds]
    \cup [kind : {"getUser"}, project : ProjectIds \cup {NilId}, user : UserIds \cup {NilId}]
    \cup [kind : {"getProject"}, project : ProjectIds \cup {NilId}, user : {NilId}]

-----------------------------------------------------------------------------
(* pathURL and HTTPMethod.  All paths begin alike, with api and gateway.    *)

(* %@ prints nil as well.                                                   *)
Printed(id) == IF id = NilId THEN <<"(null)">> ELSE id

PathOfPost(r) == Printed(r.project) \o <<"users", "post">> \o Printed(r.user)

PathOfIncrement(r) == Printed(r.project) \o <<"users", "increment">> \o Printed(r.user)

pathURL(r) ==
  CASE r.kind = "post" -> PathOfPost(r)
    [] r.kind = "increment" -> PathOfIncrement(r)
    [] r.kind = "getUser" -> Printed(r.project) \o <<"users", "get">> \o Printed(r.user)
    [] r.kind = "getProject" -> Printed(r.project) \o <<"get">>

HTTPMethod(r) == IF r.kind \in Queries THEN "GET" ELSE "POST"

-----------------------------------------------------------------------------
(* -[BKApiRequestSetUserChanges body], which the increment inherits. *)

(* A number that is not finite prints as a word, nan or inf.                *)
Shown(value) == IF value \in FiniteOnes THEN Numeral(value) ELSE Text(value)

Node(p) == <<NodeBegin>> \o object[p].key \o <<Between, Shown(object[p].value), NodeEnd>>

(* The queries leave the property nil.                                      *)
NoBody == <<>>

RequestInit ==
  /\ request \in Requests
  /\ pairs \in IF request.kind \in Kinds THEN PairLists ELSE {<<>>}
  /\ object \in [Pairs -> [key : Keys, value : Values]]
  /\ next = 1
  /\ body = IF request.kind \in Kinds THEN <<Opening>> ELSE NoBody

EqualToLast(p) == object[p] = object[Last(pairs)] (* Mutant: isEqual: in place of !=. *)

IsLastObject(p) == p = Last(pairs)

Comma(p) == IF IsLastObject(p) THEN <<>> ELSE <<Separator>>

AppendPair ==
  /\ body # NoBody
  /\ next <= Len(pairs)
  /\ LET p == pairs[next] IN body' = body \o Node(p) \o Comma(p)
  /\ next' = next + 1
  /\ UNCHANGED <<request, pairs, object>>

AppendEnd ==
  /\ body # NoBody
  /\ next = Len(pairs) + 1
  /\ body' = Append(body, Closing)
  /\ next' = next + 1
  /\ UNCHANGED <<request, pairs, object>>

RequestNext == AppendPair \/ AppendEnd

RequestSpec == RequestInit /\ [][RequestNext]_requestVars

-----------------------------------------------------------------------------
(* What a JSON reader makes of the body: an array of nodes, each of them    *)
(* with its key and its value where the format has them.                    *)

NodeLength == 5

IsNodeAt(text, i) ==
  /\ text[i] = NodeBegin
  /\ text[i + 1].type = "text"
  /\ text[i + 2] = Between
  /\ text[i + 3].type = "number"
  /\ text[i + 4] = NodeEnd

(* Node k and the sign behind it, after the opening bracket.                *)
Place(k) == (NodeLength + 1) * k - 4

Count(text) == Len(text) \div (NodeLength + 1)

IsArray(text) ==
  LET n == Count(text) IN
  \/ text = <<Opening, Closing>>
  \/ /\ n > 0 /\ Len(text) = (NodeLength + 1) * n + 1 /\ text[1] = Opening
     /\ \A k \in 1 .. n :
          /\ IsNodeAt(text, Place(k))
          /\ text[Place(k) + NodeLength] = IF k = n THEN Closing ELSE Separator

NodesOf(text) ==
  [k \in 1 .. Count(text) |-> [key |-> <<text[Place(k) + 1]>>, value |-> text[Place(k) + 3].of]]

-----------------------------------------------------------------------------
(* Properties. *)

(* Of a request whose keys need no escape the server reads exactly the      *)
(* pairs, in their order, the same key and value twice if it was prepared   *)
(* twice; and if a value is not finite it can read none of them.  Of keys   *)
(* with a quote in them nothing is said: one may spoil the body, and one    *)
(* that holds the end of a node and the beginning of the next makes more    *)
(* pairs of one (BKApiRequestSetUserChanges.m:32-44).                       *)
AllPlain == \A i \in DOMAIN pairs : object[pairs[i]].key \in PlainKeys

BodyReadsBack ==
  next > Len(pairs) + 1 /\ AllPlain =>
    IF \A i \in DOMAIN pairs : object[pairs[i]].value \in FiniteOnes
    THEN IsArray(body) /\ NodesOf(body) = [i \in DOMAIN pairs |-> object[pairs[i]]]
    ELSE ~IsArray(body)

(* An ID that prints as nil does.                                           *)
PrintsAsNil(r) == Printed(NilId) \in {r.project, r.user}

(* A path and a method belong to one operation, project and user: no two    *)
(* requests that ask different things look alike to the server, whatever    *)
(* slashes and words of a path the users are called by, as long as the      *)
(* project IDs have equally many slashes.  With one more in a project's ID  *)
(* they may look alike: user c of project a/users/get/b, and user           *)
(* b/users/get/c of project a                                               *)
(* (BKApiRequestIncrementUserChanges.m:22, BKApiRequestGetUserAchievements.m:22). *)
PathsIdentify ==
  \A r \in Requests :
    /\ ~PrintsAsNil(r) /\ ~PrintsAsNil(request)
    /\ Len(Printed(r.project)) = Len(Printed(request.project))
    /\ pathURL(r) = pathURL(request)
    /\ HTTPMethod(r) = HTTPMethod(request)
    => r = request

(* Both: the server reads what the request asks, under what each says of    *)
(* the text of IDs and keys.                                                *)
RequestReadsBack == PathsIdentify /\ BodyReadsBack

=============================================================================
